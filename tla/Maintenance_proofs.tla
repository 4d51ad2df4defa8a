--------------------------- MODULE Maintenance_proofs ---------------------------
(***************************************************************************)
(* What no behaviour of Maintenance can do, for every set of nodes and     *)
(* every scenario:                                                         *)
(*   - the liveness table and the pheromone table of a router name the     *)
(*     same neighbours, and no route is left through a node that is none;  *)
(*   - no neighbour is evicted without cause (EvictionJustified);          *)
(*   - no node launches two LinkFails or two repair ants about a           *)
(*     destination within their intervals (FloodsSpaced).                  *)
(*                                                                         *)
(* None is inductive by itself.  UpdateVirtual and ReinforceFromBackAnt    *)
(* write the entry of a hello's or a backward ant's sender without asking  *)
(* whether it is a neighbour, so the invariant says of every frame in      *)
(* flight that its ant names its sender.  The eviction that a streak of    *)
(* failures justifies needs the router's counter never to be above the     *)
(* history's; floods are spaced as long as the cooldown in the router is   *)
(* as old as the last flood in the history.                                *)
(*                                                                         *)
(* A handler is described by the set of results it may have from a state   *)
(* (Outcomes), within bounds X that say which neighbours it keeps, how     *)
(* many failures it may count and whether it may launch such floods.       *)
(* The lemmas go from the table through the router's handlers to the       *)
(* actions of the network.                                                 *)
(***************************************************************************)
EXTENDS Maintenance, DataLemmas

-----------------------------------------------------------------------------
(* Pheromone tables *)

Values == 0 .. MaxPheromone
Rows   == [Nodes -> [Nodes -> Values]]

\* What a table may be: no usable entry is left through a node that is no neighbour.
NoOrphans(t) ==
  \A d, m \in Nodes :
    m \notin t.nbrs => t.reg[d][m] <= MinPheromone /\ t.virt[d][m] <= MinPheromone

Tables == {t \in [nbrs : SUBSET Nodes, reg : Rows, virt : Rows] : NoOrphans(t)}

\* What the assumptions on the constants give, in the form the steps use.
LEMMA PheromoneBounds ==
  /\ MinPheromone \in Nat /\ MinPheromone > 0
  /\ MaxPheromone \in Nat /\ MaxPheromone >= 2 * MinPheromone + 1
  /\ Nodes \subseteq Nat /\ NoNode \notin Nodes
  /\ \A v \in Values : v \in Nat /\ v <= MaxPheromone
  BY PheromoneAssumption DEF Values

\* The best value of a row is one of its values, and 0 where there is no neighbour.
LEMMA BestOfRow ==
  ASSUME NEW row \in [Nodes -> Values], NEW nbrs \in SUBSET Nodes
  PROVE  /\ Best(row, nbrs) \in Values
         /\ \A n \in nbrs : row[n] <= Best(row, nbrs)
<1>1. CASE nbrs = {}
  BY <1>1, PheromoneBounds DEF Best, Values
<1>2. CASE nbrs # {}
  <2> DEFINE T == {MaxPheromone - row[n] : n \in nbrs}
  <2>1. \A n \in nbrs : row[n] \in Nat /\ row[n] <= MaxPheromone /\ row[n] \in Values
    BY PheromoneBounds
  <2>2. T \in SUBSET Nat /\ T # {}
    <3>1. \A n \in nbrs : MaxPheromone - row[n] \in Nat
      BY <2>1, PheromoneBounds
    <3> QED
      BY <1>2, <3>1
  <2>3. PICK n \in nbrs : \A y \in T : MaxPheromone - row[n] <= y
    <3> HIDE DEF T
    <3>1. PICK x \in T : \A y \in T : x <= y
      BY <2>2, LeastExists
    <3> QED
      BY <3>1 DEF T
  <2>4. \A m \in nbrs : MaxPheromone - row[n] <= MaxPheromone - row[m]
    BY <2>3
  <2>5. \A m \in nbrs : row[m] <= row[n]
    BY <2>1, <2>4, PheromoneBounds
  <2>6. \E v \in {row[m] : m \in nbrs} : \A m \in nbrs : row[m] <= v
    BY <2>5
  <2>7. Best(row, nbrs) = CHOOSE v \in {row[m] : m \in nbrs} : \A m \in nbrs : row[m] <= v
    BY <1>2 DEF Best
  <2>8. Best(row, nbrs) \in {row[m] : m \in nbrs} /\ \A m \in nbrs : row[m] <= Best(row, nbrs)
    <3> DEFINE P(v) == v \in {row[m] : m \in nbrs} /\ \A m \in nbrs : row[m] <= v
    <3>1. Best(row, nbrs) = CHOOSE v : P(v)
      BY <2>7
    <3>2. \E v : P(v)
      BY <2>6
    <3>3. P(CHOOSE v : P(v))
      <4> HIDE DEF P
      <4> QED BY <3>2
    <3> QED
      BY <3>1, <3>3
  <2> QED
    BY <2>1, <2>8
<1> QED
  BY <1>1, <1>2

\* getBestRegular is a value, and no neighbour offers more.
LEMMA BestRegularType ==
  ASSUME NEW t \in Tables, NEW d \in Nodes
  PROVE  /\ BestRegular(t, d) \in Values /\ BestRegular(t, d) \in Nat
         /\ \A n \in t.nbrs : t.reg[d][n] <= BestRegular(t, d)
<1>1. t.reg[d] \in [Nodes -> Values] /\ t.nbrs \in SUBSET Nodes
  BY DEF Tables, Rows
<1> QED
  BY <1>1, BestOfRow, PheromoneBounds DEF BestRegular

\* What is deposited, reinforced, aged and discounted stays within the bounds.
LEMMA ValueTypes ==
  /\ \A h \in Nat \ {0} : Deposit(h) \in Values
  /\ \A v, w \in Values : Reinforce(v, w) \in Values
  /\ \A v \in Values : Discounted(v) \in Values
  /\ \A v \in Values : v # 0 => Aged(v) \in Values
  /\ 0 \in Values
<1>1. \A h \in Nat \ {0} : Deposit(h) \in Values
  BY PheromoneBounds DEF Deposit, Bigger, Values
<1>2. ASSUME NEW v \in Values, NEW w \in Values PROVE Reinforce(v, w) \in Values
  BY PheromoneBounds DEF Reinforce, Values
<1>3. \A v \in Values : Discounted(v) \in Values
  BY PheromoneBounds DEF Discounted, Values
<1>4. \A v \in Values : v # 0 => Aged(v) \in Values
  BY PheromoneBounds DEF Aged, Values
<1> QED
  BY <1>1, <1>2, <1>3, <1>4, PheromoneBounds DEF Values

\* The operations on a table, and what each makes of the neighbours.
LEMMA EmptyTableType == EmptyTable \in Tables /\ EmptyTable.nbrs = {}
  BY PheromoneBounds, ValueTypes DEF EmptyTable, Tables, Rows, NoOrphans

\* setPheromoneRegular makes the next hop a neighbour, so its entry is no orphan.
LEMMA SetRegularType ==
  ASSUME NEW t \in Tables, NEW d \in Nodes, NEW n \in Nodes, NEW v \in Values
  PROVE  SetRegular(t, d, n, v) \in Tables /\ SetRegular(t, d, n, v).nbrs = t.nbrs \cup {n}
<1> DEFINE r == [t.reg EXCEPT ![d] = [t.reg[d] EXCEPT ![n] = v]]
           N == t.nbrs \cup {n}
           u == [nbrs |-> N, reg |-> r, virt |-> t.virt]
<1>1. /\ t \in [nbrs : SUBSET Nodes, reg : Rows, virt : Rows]
      /\ NoOrphans(t)
  BY DEF Tables
<1>2. SetRegular(t, d, n, v) = u
  <2>1. AddNeighbor(t, n) = [nbrs |-> N, reg |-> t.reg, virt |-> t.virt]
    BY <1>1 DEF AddNeighbor
  <2> HIDE DEF N
  <2> QED
    BY <2>1 DEF SetRegular
<1>3. r \in Rows /\ N \in SUBSET Nodes
  BY <1>1 DEF Rows
<1>4. \A e, m \in Nodes : m \notin N => r[e][m] = t.reg[e][m]
  BY <1>1 DEF Rows
<1> HIDE DEF r, N
<1>5. NoOrphans(u)
  BY <1>1, <1>4 DEF NoOrphans, N
<1> QED
  BY <1>1, <1>2, <1>3, <1>5 DEF Tables, N

\* A neighbour more leaves fewer entries to be orphans.
LEMMA AddNeighborType ==
  ASSUME NEW t \in Tables, NEW n \in Nodes
  PROVE  AddNeighbor(t, n) \in Tables /\ AddNeighbor(t, n).nbrs = t.nbrs \cup {n}
  BY DEF AddNeighbor, Tables, NoOrphans

\* Erasing an entry orphans nothing.
LEMMA RemoveRegularType ==
  ASSUME NEW t \in Tables, NEW d \in Nodes, NEW n \in Nodes
  PROVE  RemoveRegular(t, d, n) \in Tables /\ RemoveRegular(t, d, n).nbrs = t.nbrs
<1> DEFINE r == [t.reg EXCEPT ![d] = [t.reg[d] EXCEPT ![n] = 0]]
           u == [nbrs |-> t.nbrs, reg |-> r, virt |-> t.virt]
<1>1. /\ t \in [nbrs : SUBSET Nodes, reg : Rows, virt : Rows]
      /\ NoOrphans(t)
  BY DEF Tables
<1>2. RemoveRegular(t, d, n) = u
  BY <1>1 DEF RemoveRegular
<1>3. r \in Rows
  BY <1>1, ValueTypes DEF Rows
<1>4. \A e, m \in Nodes : r[e][m] = t.reg[e][m] \/ r[e][m] = 0
  BY <1>1 DEF Rows
<1> HIDE DEF r
<1>5. NoOrphans(u)
  BY <1>1, <1>4, PheromoneBounds DEF NoOrphans
<1> QED
  BY <1>1, <1>2, <1>3, <1>5 DEF Tables

\* Reinforcing makes the next hop a neighbour, as setting does.
LEMMA UpdateRegularType ==
  ASSUME NEW t \in Tables, NEW d \in Nodes, NEW n \in Nodes, NEW v \in Values
  PROVE  UpdateRegular(t, d, n, v) \in Tables /\ UpdateRegular(t, d, n, v).nbrs = t.nbrs \cup {n}
<1>1. t.reg[d][n] \in Values
  BY DEF Tables, Rows
<1>2. Reinforce(t.reg[d][n], v) \in Values
  BY <1>1, ValueTypes
<1> QED
  BY <1>2, SetRegularType DEF UpdateRegular

\* Evaporation touches the columns of neighbours only.
LEMMA EvaporateAllType ==
  ASSUME NEW t \in Tables
  PROVE  EvaporateAll(t) \in Tables /\ EvaporateAll(t).nbrs = t.nbrs
<1> DEFINE E(rows) == [d \in Nodes |-> EvaporateRow(rows[d], t.nbrs)]
           u == [nbrs |-> t.nbrs, reg |-> E(t.reg), virt |-> E(t.virt)]
<1>1. /\ t \in [nbrs : SUBSET Nodes, reg : Rows, virt : Rows]
      /\ NoOrphans(t)
  BY DEF Tables
<1>2. EvaporateAll(t) = u
  <2> DEFINE x == E(t.reg)
             y == E(t.virt)
  <2>1. EvaporateAll(t) = [[t EXCEPT !.reg = x] EXCEPT !.virt = y]
    BY <1>1 DEF EvaporateAll
  <2> HIDE DEF x, y
  <2>2. [t EXCEPT !.reg = x] = [nbrs |-> t.nbrs, reg |-> x, virt |-> t.virt]
    BY <1>1
  <2>3. EvaporateAll(t) = [nbrs |-> t.nbrs, reg |-> x, virt |-> y]
    BY <2>1, <2>2
  <2> QED
    BY <2>3 DEF x, y
<1>3. ASSUME NEW rows \in Rows
      PROVE  E(rows) \in Rows /\ \A d, m \in Nodes : m \notin t.nbrs => E(rows)[d][m] = rows[d][m]
  <2>1. ASSUME NEW d \in Nodes
        PROVE  /\ EvaporateRow(rows[d], t.nbrs) \in [Nodes -> Values]
               /\ \A m \in Nodes : m \notin t.nbrs => EvaporateRow(rows[d], t.nbrs)[m] = rows[d][m]
    <3>1. \A m \in Nodes : rows[d][m] \in Values
      BY DEF Rows
    <3>2. \A m \in Nodes : rows[d][m] # 0 => Aged(rows[d][m]) \in Values
      BY <3>1, ValueTypes
    <3> QED
      BY <3>1, <3>2, ValueTypes DEF EvaporateRow
  <2> QED
    BY <2>1 DEF Rows
<1>4. /\ E(t.reg) \in Rows /\ \A d, m \in Nodes : m \notin t.nbrs => E(t.reg)[d][m] = t.reg[d][m]
      /\ E(t.virt) \in Rows /\ \A d, m \in Nodes : m \notin t.nbrs => E(t.virt)[d][m] = t.virt[d][m]
  BY <1>1, <1>3
<1> HIDE DEF E
<1>5. NoOrphans(u)
  BY <1>1, <1>4 DEF NoOrphans
<1> QED
  BY <1>1, <1>2, <1>4, <1>5 DEF Tables

\* The adverts of a hello or a note.
Adverts == UNION {[D -> Values] : D \in SUBSET Nodes}

\* What an advert list speaks of, and in which values.
LEMMA AdvertsType ==
  ASSUME NEW adverts \in Adverts
  PROVE  DOMAIN adverts \subseteq Nodes /\ \A d \in DOMAIN adverts : adverts[d] \in Values
  BY DEF Adverts

\* Diffusion writes the column of the one that sent the hello, which has to be a neighbour.
LEMMA UpdateVirtualType ==
  ASSUME NEW t \in Tables, NEW n \in t.nbrs, NEW adverts \in Adverts
  PROVE  UpdateVirtual(t, n, adverts) \in Tables /\ UpdateVirtual(t, n, adverts).nbrs = t.nbrs
<1> DEFINE w(d) == IF adverts[d] > 0 THEN Discounted(adverts[d]) ELSE 0
           r == [d \in Nodes |-> IF d \in DOMAIN adverts
                                 THEN [t.virt[d] EXCEPT ![n] = Reinforce(t.virt[d][n], w(d))]
                                 ELSE t.virt[d]]
           u == [nbrs |-> t.nbrs, reg |-> t.reg, virt |-> r]
<1>1. /\ t \in [nbrs : SUBSET Nodes, reg : Rows, virt : Rows]
      /\ NoOrphans(t) /\ n \in Nodes
  BY DEF Tables
<1>2. UpdateVirtual(t, n, adverts) \in {t, u}
  <2>1. UpdateVirtual(t, n, adverts) \in {t, [t EXCEPT !.virt = r]}
    BY DEF UpdateVirtual
  <2> HIDE DEF r
  <2> QED
    BY <1>1, <2>1
<1>3. \A d \in DOMAIN adverts : w(d) \in Values
  BY AdvertsType, ValueTypes
<1> HIDE DEF w
<1>4. \A d \in DOMAIN adverts : Reinforce(t.virt[d][n], w(d)) \in Values
  <2> TAKE d \in DOMAIN adverts
  <2>1. t.virt[d][n] \in Values
    BY <1>1, AdvertsType DEF Rows
  <2> QED
    BY <1>3, <2>1, ValueTypes
<1>5. r \in Rows
  BY <1>1, <1>4, AdvertsType DEF Rows
<1>6. \A e, m \in Nodes : m # n => r[e][m] = t.virt[e][m]
  BY <1>1 DEF Rows
<1> HIDE DEF r
<1>7. NoOrphans(u)
  BY <1>1, <1>6 DEF NoOrphans
<1> QED
  BY <1>1, <1>2, <1>5, <1>7 DEF Tables

\* Dropping a neighbour clears its column in both tables but for entries too small to be used.
LEMMA CleanNeighborType ==
  ASSUME NEW t \in Tables, NEW n \in Nodes
  PROVE  CleanNeighbor(t, n) \in Tables /\ CleanNeighbor(t, n).nbrs = t.nbrs \ {n}
<1> DEFINE C(rows) == [d \in Nodes |-> [rows[d] EXCEPT ![n] = IF rows[d][n] < MinPheromone THEN rows[d][n] ELSE 0]]
           u == [nbrs |-> t.nbrs \ {n}, reg |-> C(t.reg), virt |-> C(t.virt)]
<1>1. /\ t \in [nbrs : SUBSET Nodes, reg : Rows, virt : Rows]
      /\ NoOrphans(t)
  BY DEF Tables
<1>2. CleanNeighbor(t, n) = u
  <2> DEFINE x == C(t.reg)
             y == C(t.virt)
  <2>1. CleanNeighbor(t, n) = [[[t EXCEPT !.reg = x] EXCEPT !.virt = y] EXCEPT !.nbrs = t.nbrs \ {n}]
    BY <1>1 DEF CleanNeighbor
  <2> HIDE DEF x, y
  <2>2. [t EXCEPT !.reg = x] = [nbrs |-> t.nbrs, reg |-> x, virt |-> t.virt]
    BY <1>1
  <2>3. [[nbrs |-> t.nbrs, reg |-> x, virt |-> t.virt] EXCEPT !.virt = y]
        = [nbrs |-> t.nbrs, reg |-> x, virt |-> y]
    OBVIOUS
  <2>4. CleanNeighbor(t, n) = [nbrs |-> t.nbrs \ {n}, reg |-> x, virt |-> y]
    BY <2>1, <2>2, <2>3
  <2> QED
    BY <2>4 DEF x, y
<1>3. ASSUME NEW rows \in Rows
      PROVE  /\ C(rows) \in Rows
             /\ \A d, m \in Nodes : C(rows)[d][m] = rows[d][m] \/ C(rows)[d][m] = 0
             /\ \A d \in Nodes : C(rows)[d][n] <= MinPheromone
  <2>1. \A d, m \in Nodes : rows[d][m] \in Values /\ rows[d][m] \in Nat
    BY PheromoneBounds DEF Rows
  <2> QED
    BY <2>1, PheromoneBounds, ValueTypes DEF Rows
<1>4. /\ C(t.reg) \in Rows /\ C(t.virt) \in Rows
      /\ \A d, m \in Nodes : C(t.reg)[d][m] = t.reg[d][m] \/ C(t.reg)[d][m] = 0
      /\ \A d, m \in Nodes : C(t.virt)[d][m] = t.virt[d][m] \/ C(t.virt)[d][m] = 0
      /\ \A d \in Nodes : C(t.reg)[d][n] <= MinPheromone /\ C(t.virt)[d][n] <= MinPheromone
  BY <1>1, <1>3
<1> HIDE DEF C
<1>5. NoOrphans(u)
  BY <1>1, <1>4, PheromoneBounds DEF NoOrphans
<1> QED
  BY <1>1, <1>2, <1>4, <1>5 DEF Tables

-----------------------------------------------------------------------------
(* Routers *)

Ages   == Nat \cup {Never}
Clocks == [Nodes -> Ages]

\* The state of router n.  X says what a handler may have made of it: hist, gens, notify and
\* repair are the values its filters and its origin cooldowns may have, near the nodes that are
\* neighbours still, most how many failures may be counted; loud, whether floods that have a
\* cooldown may have been launched.
Routers(n, X) ==
  [self : {n}, cap : Int, table : Tables, hist : X.hist, gens : X.gens,
   idle : Clocks, fails : [Nodes -> 0 .. TxFailureThreshold - 1],
   sinceRepair : Clocks \cap X.repair, deadline : Clocks,
   sinceNotify : Clocks \cap X.notify, sinceReactive : Clocks, session : Clocks, seq : Nat]

Sane(n, X) ==
  {s \in Routers(n, X) :
     /\ s.table.nbrs = Known(s)
     /\ X.near \subseteq s.table.nbrs
     /\ \A m \in Nodes : X.most[m] \in Nat /\ s.fails[m] <= X.most[m]}

\* What the assumptions on the router's constants give.
LEMMA RouterBounds ==
  /\ RepairMaxBroadcasts \in Nat /\ ProactiveMaxBroadcasts \in Nat
  /\ TxFailureThreshold \in Nat /\ TxFailureThreshold > 0
  /\ RepairWait \in Nat /\ RepairTimeout \in Nat
  /\ SeqModulus \in Nat /\ SeqModulus > 0
  /\ Never \notin Nat
  BY RouterAssumption DEF Never

\* A router that keeps the neighbours, their clocks and their failures stays sane.
LEMMA StaysSane ==
  ASSUME NEW n, NEW X, NEW s \in Sane(n, X), NEW u \in Routers(n, X),
         u.table.nbrs = s.table.nbrs, u.idle = s.idle, u.fails = s.fails
  PROVE  u \in Sane(n, X)
  BY DEF Sane, Known

\* A table with the same neighbours may take the place of the table.
LEMMA SameNeighbors ==
  ASSUME NEW n, NEW X, NEW s \in Sane(n, X), NEW t \in Tables, t.nbrs = s.table.nbrs
  PROVE  [s EXCEPT !.table = t] \in Sane(n, X)
<1>1. s \in Routers(n, X)
  BY DEF Sane
<1> DEFINE u == [s EXCEPT !.table = t]
<1>2. u \in Routers(n, X) /\ u.table = t /\ u.idle = s.idle /\ u.fails = s.fails
  BY <1>1 DEF Routers
<1> HIDE DEF u
<1>3. u \in Sane(n, X)
  BY <1>2, StaysSane
<1> QED
  BY <1>3 DEF u

\* onReceiveAnt's first step: the sender is a neighbour with a liveness entry and no failures.
LEMMA LearnNeighborType ==
  ASSUME NEW n \in Nodes, NEW X, NEW s \in Sane(n, X), NEW m \in Nodes \cup {NoNode}
  PROVE  /\ LearnNeighbor(s, m) \in Sane(n, X)
         /\ m \notin {n, NoNode} => /\ m \in LearnNeighbor(s, m).table.nbrs
                                    /\ LearnNeighbor(s, m).fails[m] = 0
         /\ s.table.nbrs \subseteq LearnNeighbor(s, m).table.nbrs
<1>1. /\ s \in Routers(n, X) /\ s.self = n /\ s.table \in Tables /\ s.table.nbrs = Known(s)
      /\ X.near \subseteq s.table.nbrs /\ \A x \in Nodes : X.most[x] \in Nat /\ s.fails[x] <= X.most[x]
  BY DEF Sane, Routers
<1>2. CASE m \in {n, NoNode}
  BY <1>1, <1>2 DEF LearnNeighbor
<1>3. CASE m \notin {n, NoNode}
  <2>1. m \in Nodes
    BY <1>3
  <2> DEFINE t == UpdateRegular(AddNeighbor(s.table, m), m, m, Deposit(1))
             f == [s.fails EXCEPT ![m] = 0]
             u == [s EXCEPT !.table = t, !.idle[m] = 0, !.fails = f]
  <2>2. t \in Tables /\ t.nbrs = s.table.nbrs \cup {m}
    BY <1>1, <2>1, AddNeighborType, UpdateRegularType, ValueTypes
  <2>3. LearnNeighbor(s, m) = u
    BY <1>1, <1>3 DEF LearnNeighbor
  <2>4. f \in [Nodes -> 0 .. TxFailureThreshold - 1] /\ f[m] = 0 /\ \A x \in Nodes : f[x] <= X.most[x]
    <3>1. s.fails \in [Nodes -> 0 .. TxFailureThreshold - 1]
      BY <1>1 DEF Routers
    <3>2. f \in [Nodes -> 0 .. TxFailureThreshold - 1] /\ f[m] = 0
      BY <2>1, <3>1, RouterBounds
    <3>3. \A x \in Nodes : f[x] = s.fails[x] \/ x = m
      BY <3>1
    <3>4. X.most[m] \in Nat /\ 0 <= X.most[m]
      BY <1>1, <2>1, <3>1, RouterBounds
    <3> QED
      BY <1>1, <3>2, <3>3, <3>4
  <2> HIDE DEF t, f
  <2>5. u \in Routers(n, X) /\ u.table = t /\ u.idle = [s.idle EXCEPT ![m] = 0] /\ u.fails = f
    BY <1>1, <2>1, <2>2, <2>4 DEF Routers, Clocks, Ages
  <2>6. Known(u) = Known(s) \cup {m}
    BY <1>1, <2>1, <2>5, RouterBounds DEF Known, Routers, Clocks
  <2> HIDE DEF u
  <2> QED
    BY <1>1, <2>1, <2>2, <2>3, <2>4, <2>5, <2>6 DEF Sane
<1> QED
  BY <1>2, <1>3

\* Losing a neighbour takes it out of all three.
LEMMA LoseNeighborType ==
  ASSUME NEW n, NEW X, NEW s \in Sane(n, X), NEW m \in Nodes \ X.near
  PROVE  /\ LoseNeighbor(s, m) \in Sane(n, X)
         /\ LoseNeighbor(s, m).table.nbrs = s.table.nbrs \ {m}
         /\ LoseNeighbor(s, m).sinceNotify = s.sinceNotify
         /\ LoseNeighbor(s, m).sinceRepair = s.sinceRepair
         /\ LoseNeighbor(s, m).fails[m] = 0
<1>1. /\ s \in Routers(n, X) /\ s.table \in Tables /\ s.table.nbrs = Known(s)
      /\ X.near \subseteq s.table.nbrs /\ \A x \in Nodes : X.most[x] \in Nat /\ s.fails[x] <= X.most[x]
  BY DEF Sane, Routers
<1> DEFINE t == CleanNeighbor(s.table, m)
           f == [s.fails EXCEPT ![m] = 0]
           u == [s EXCEPT !.table = t, !.idle[m] = Never, !.fails = f]
<1>2. t \in Tables /\ t.nbrs = s.table.nbrs \ {m}
  BY <1>1, CleanNeighborType
<1>3. LoseNeighbor(s, m) = u
  BY DEF LoseNeighbor
<1>4. f \in [Nodes -> 0 .. TxFailureThreshold - 1] /\ f[m] = 0 /\ \A x \in Nodes : f[x] <= X.most[x]
  <2>1. s.fails \in [Nodes -> 0 .. TxFailureThreshold - 1]
    BY <1>1 DEF Routers
  <2>2. f \in [Nodes -> 0 .. TxFailureThreshold - 1] /\ f[m] = 0
    BY <2>1, RouterBounds
  <2>3. \A x \in Nodes : f[x] = s.fails[x] \/ x = m
    BY <2>1
  <2>4. X.most[m] \in Nat /\ 0 <= X.most[m]
    BY <1>1, <2>1, RouterBounds
  <2> QED
    BY <1>1, <2>2, <2>3, <2>4
<1> HIDE DEF t, f
<1>5. /\ u \in Routers(n, X) /\ u.table = t /\ u.idle = [s.idle EXCEPT ![m] = Never] /\ u.fails = f
      /\ u.sinceNotify = s.sinceNotify /\ u.sinceRepair = s.sinceRepair
  BY <1>1, <1>2, <1>4 DEF Routers, Clocks, Ages
<1>6. Known(u) = Known(s) \ {m}
  BY <1>1, <1>5 DEF Known, Routers, Clocks
<1> HIDE DEF u
<1> QED
  BY <1>1, <1>2, <1>3, <1>4, <1>5, <1>6 DEF Sane

-----------------------------------------------------------------------------
(* Ants and decisions *)

AntTypes == {"hello", "linkfail", "repair", "reactive", "proactive"}

Ants ==
  [type : AntTypes, dir : {"up", "down"}, src : Nodes, dst : Nodes \cup {NoNode}, seq : Nat,
   budget : Int, visited : Seq(Nodes), time : Int, history : Seq(Nodes), dests : Adverts]

\* What a node takes for granted of an ant it receives: a hello speaks for its sender, a
\* note has lost some of its budget, a repair ant was stamped by its origin, and a backward ant
\* comes from the node it retraced last and goes to the top of its stack.
OnTrack(a, from, to) ==
  /\ a.type = "hello" => a.dir = "up" /\ a.src = from
  /\ a.type = "linkfail" => a.budget \in 0 .. RepairMaxBroadcasts - 1
  /\ a.type = "repair" /\ a.dir = "up" => a.visited # << >>
  /\ a.dir = "down" =>
       /\ a.history # << >> /\ Last(a.history) = from
       /\ a.visited # << >> /\ Last(a.visited) = to

\* Does n launch with ant a a flood that has a cooldown?
IsLaunch(n, a) ==
  \/ a.type = "linkfail" /\ a.budget = RepairMaxBroadcasts - 1
  \/ a.type = "repair" /\ a.dir = "up" /\ a.visited = <<n>>

\* The decisions of node n.
Decisions(n, X) ==
  {x \in [act : {"unicast", "broadcast", "queue", "discard", "deliver"},
          next : Nodes \cup {NoNode}, ant : Ants \cup {NoAnt}] :
     x.ant # NoAnt => /\ x.act = "broadcast" => x.ant.dir = "up"
                      /\ OnTrack(x.ant, n, x.next)
                      /\ IsLaunch(n, x.ant) => X.loud /\ (x.ant.type = "repair" => x.ant.dst \in Nodes)}

Results(n, X) == [st : Sane(n, X), out : SUBSET Decisions(n, X)]

\* A result made of a sane router and of decisions.
LEMMA ResultType ==
  ASSUME NEW n, NEW X, NEW s \in Sane(n, X), NEW out \in SUBSET Decisions(n, X)
  PROVE  /\ Result(s, out) \in Results(n, X)
         /\ Result(s, out).st = s /\ Result(s, out).out = out
  BY DEF Result, Results

\* The second handler has the last word on the state; the decisions of both are made.
LEMMA ThenType ==
  ASSUME NEW n, NEW X, NEW r \in Results(n, X), NEW q \in Results(n, X)
  PROVE  /\ Then(r, q) \in Results(n, X)
         /\ Then(r, q).st = q.st /\ Then(r, q).out = r.out \cup q.out
  BY DEF Then, Result, Results

\* No advert at all is a list of adverts.
LEMMA NoDestsType == NoDests \in Adverts
<1>1. NoDests \in [{} -> Values]
  BY DEF NoDests
<1> QED
  BY <1>1 DEF Adverts

\* A value for every node of a set is a list of adverts.
LEMMA AdvertsOf ==
  ASSUME NEW D \in SUBSET Nodes, NEW f \in [D -> Values]
  PROVE  f \in Adverts
  BY DEF Adverts

\* Drawing a sequence number changes nothing else of a router.
LEMMA NextSeqType ==
  ASSUME NEW n, NEW X, NEW s \in Sane(n, X)
  PROVE  /\ NextSeq(s) \in Sane(n, X) /\ NextSeq(s).table = s.table
         /\ NextSeq(s).sinceNotify = s.sinceNotify /\ NextSeq(s).sinceRepair = s.sinceRepair
         /\ NextSeq(s).fails = s.fails
<1>1. s \in Routers(n, X) /\ s.seq \in Nat
  BY DEF Sane, Routers
<1>2. (s.seq + 1) % SeqModulus \in Nat
  BY <1>1, RouterBounds
<1>3. NextSeq(s) \in Routers(n, X)
  BY <1>1, <1>2 DEF NextSeq, Routers
<1>4. /\ NextSeq(s).table = s.table /\ NextSeq(s).idle = s.idle /\ NextSeq(s).fails = s.fails
      /\ NextSeq(s).sinceNotify = s.sinceNotify /\ NextSeq(s).sinceRepair = s.sinceRepair
  BY <1>1 DEF NextSeq, Routers
<1> QED
  BY <1>3, <1>4, StaysSane

\* A new ant is an ant: forward, from its node, with the type and budget asked for.
LEMMA NewAntType ==
  ASSUME NEW n \in Nodes, NEW X, NEW s \in Sane(n, X), NEW type \in AntTypes,
         NEW dst \in Nodes \cup {NoNode}, NEW budget \in Int
  PROVE  /\ NewAnt(s, type, dst, budget) \in Ants
         /\ NewAnt(s, type, dst, budget).src = n
         /\ NewAnt(s, type, dst, budget).dir = "up"
         /\ NewAnt(s, type, dst, budget).type = type
         /\ NewAnt(s, type, dst, budget).budget = budget
<1>1. s.self = n /\ s.seq \in Nat
  BY DEF Sane, Routers
<1>2. << >> \in Seq(Nodes)
  OBVIOUS
<1> QED
  BY <1>1, <1>2, NoDestsType DEF NewAnt, Ants

\* A forward ant may be sent to anyone, or flooded while it has a budget.
LEMMA SendType ==
  ASSUME NEW n, NEW X, NEW a \in Ants, a.dir = "up", a.type = "hello" => a.src = n, a.type # "linkfail",
         a.type = "repair" => a.visited # << >> /\ (a.visited = <<n>> => X.loud /\ a.dst \in Nodes),
         NEW m \in Nodes \cup {NoNode}
  PROVE  /\ Send(m, a) \in Decisions(n, X)
         /\ Flood(a) \in Decisions(n, X)
  BY DEF Send, Flood, Decisions, OnTrack, IsLaunch

\* A flood costs a unit of budget: a note that sets out with all of it is launched, one that
\* is passed on has less.
LEMMA BroadcastForwardType ==
  ASSUME NEW n, NEW X, NEW a \in Ants, a.dir = "up", a.type = "hello" => a.src = n,
         a.type = "linkfail" => /\ a.budget \in 0 .. RepairMaxBroadcasts
                                /\ a.budget = RepairMaxBroadcasts => X.loud,
         a.type = "repair" => a.visited # << >> /\ (a.visited = <<n>> => X.loud /\ a.dst \in Nodes)
  PROVE  BroadcastForward(a) \in SUBSET Decisions(n, X)
<1> DEFINE b == IF a.budget > 0 THEN [a EXCEPT !.budget = a.budget - 1] ELSE a
<1>1. /\ b \in Ants /\ b.dir = "up" /\ b.type = a.type /\ b.src = a.src /\ b.visited = a.visited
      /\ b.dst = a.dst
      /\ b.budget = IF a.budget > 0 THEN a.budget - 1 ELSE a.budget
  BY DEF Ants
<1>2. BroadcastForward(a) \in {{}, {Flood(b)}} /\ (a.budget = 0 => BroadcastForward(a) = {})
  BY DEF BroadcastForward
<1> HIDE DEF b
<1>3. CASE a.budget = 0
  BY <1>2, <1>3
<1>4. CASE a.budget # 0
  <2>1. a.type = "linkfail" => /\ b.budget \in 0 .. RepairMaxBroadcasts - 1
                               /\ b.budget = RepairMaxBroadcasts - 1 => X.loud
    BY <1>1, <1>4, RouterBounds
  <2>2. OnTrack(b, n, NoNode) /\ (IsLaunch(n, b) => X.loud /\ (b.type = "repair" => b.dst \in Nodes))
    BY <1>1, <2>1 DEF OnTrack, IsLaunch
  <2>3. Flood(b) \in Decisions(n, X)
    BY <1>1, <2>2 DEF Flood, Decisions
  <2> QED
    BY <1>2, <2>3
<1> QED
  BY <1>3, <1>4

\* Decisions without an ant.
LEMMA PlainType ==
  ASSUME NEW n, NEW X, NEW d \in Nodes \cup {NoNode}
  PROVE  {SendData(d), Hold(d), Discard(d), DeliverTo(d)} \subseteq Decisions(n, X)
  BY DEF SendData, Hold, Discard, DeliverTo, Decisions

-----------------------------------------------------------------------------
(* Loops over addresses *)

\* No address lies beyond the last.
LEMMA LastNodeBounds ==
  ASSUME Nodes # {}
  PROVE  LastNode \in Nat /\ \A m \in Nodes : m <= LastNode
<1>1. \E n \in Nodes : \A m \in Nodes : m <= n
  BY GreatestExists, PheromoneAssumption
<1> QED
  BY <1>1, PheromoneBounds DEF LastNode

\* All those heard are learned.
LEMMA LearnAllType ==
  ASSUME NEW n \in Nodes, NEW X, NEW s \in Sane(n, X), NEW S \in SUBSET Nodes
  PROVE  /\ ForEach(S, s, LearnNeighbor) \in Sane(n, X)
         /\ S \ {n} \subseteq ForEach(S, s, LearnNeighbor).table.nbrs
<1> DEFINE N == LastNode + 1
           V == Sane(n, X)
           Loop(f) == [k \in 0 .. N |->
                         IF k = 0 THEN s
                         ELSE IF k - 1 \in S THEN LearnNeighbor(f[k - 1], k - 1) ELSE f[k - 1]]
           h == CHOOSE f : f = Loop(f)
           table == [m \in S |-> [v \in V |-> LearnNeighbor(v, m)]]
<1>1. N \in Nat
  BY LastNodeBounds
<1>2. ForEach(S, s, LearnNeighbor) = h[N]
  BY DEF ForEach
<1>3. \A m \in S, v \in V : LearnNeighbor(v, m) \in V
  BY LearnNeighborType
<1> HIDE DEF N, V
<1>4. table \in [S -> [V -> V]] /\ \A m \in S, v \in V : table[m][v] = LearnNeighbor(v, m)
  BY <1>3
<1>5. h = Loop(h)
  <2> HIDE DEF table
  <2>1. PICK g : Loops(g, N, V, s, S, table)
    BY <1>1, <1>4, LoopExists DEF V
  <2>2. \A k \in 1 .. N : g[k - 1] \in V
    BY <1>1, <2>1 DEF Loops
  <2>3. g = Loop(g)
    BY <1>1, <1>4, <2>1, <2>2 DEF Loops
  <2> HIDE DEF Loop
  <2> QED
    BY <2>3
<1> HIDE DEF h
<1>6. /\ h[0] = s
      /\ \A k \in 1 .. N : h[k] = IF k - 1 \in S THEN LearnNeighbor(h[k - 1], k - 1) ELSE h[k - 1]
  BY <1>1, <1>5
<1> DEFINE learned(k) == {m \in S \ {n} : m < k}
           T == {k \in 0 .. N : h[k] \in V /\ learned(k) \subseteq h[k].table.nbrs}
<1>7. 0 \in T
  <2>1. learned(0) = {}
    <3>1. \A m \in S : m \in Nat /\ ~ (m < 0)
      BY PheromoneBounds
    <3> QED
      BY <3>1
  <2> QED
    BY <1>1, <1>6, <2>1 DEF V
<1>8. ASSUME NEW k \in 1 .. N, k - 1 \in T PROVE k \in T
  <2>1. h[k - 1] \in Sane(n, X) /\ learned(k - 1) \subseteq h[k - 1].table.nbrs
    BY <1>8 DEF V
  <2>2. \A m \in learned(k) : m \in learned(k - 1) \/ m = k - 1
    BY PheromoneBounds
  <2> HIDE DEF learned
  <2>3. CASE k - 1 \in S
    <3>1. h[k] = LearnNeighbor(h[k - 1], k - 1)
      BY <1>6, <2>3
    <3>2. /\ h[k] \in Sane(n, X) /\ h[k - 1].table.nbrs \subseteq h[k].table.nbrs
          /\ k - 1 \notin {n, NoNode} => k - 1 \in h[k].table.nbrs
      BY <2>1, <2>3, <3>1, LearnNeighborType
    <3>3. \A m \in learned(k) : m \notin {n, NoNode}
      BY PheromoneBounds DEF learned
    <3> QED
      BY <2>1, <2>2, <3>2, <3>3 DEF V
  <2>4. CASE k - 1 \notin S
    <3>1. h[k] = h[k - 1] /\ \A m \in learned(k) : m # k - 1
      BY <1>6, <2>4 DEF learned
    <3> QED
      BY <2>1, <2>2, <3>1 DEF V
  <2> QED
    BY <2>3, <2>4
<1>9. N \in T
  <2> HIDE DEF T
  <2>1. 0 .. N \subseteq T
    BY <1>1, <1>7, <1>8, BoundedInduction
  <2> QED
    BY <1>1, <2>1
<1>10. learned(N) = S \ {n}
  <2>1. \A m \in S : m < N
    BY LastNodeBounds, PheromoneBounds DEF N
  <2> QED
    BY <2>1
<1> QED
  BY <1>2, <1>9, <1>10 DEF V

-----------------------------------------------------------------------------
(* Floods with a cooldown *)

\* How long ago the last flood of a type was launched for each destination, and whether the
\* next may be.
Since(s, type)    == IF type = "linkfail" THEN s.sinceNotify ELSE s.sinceRepair
Ready(s, type, d) == IF type = "linkfail" THEN MayNotify(s, d) ELSE Cooled(s.sinceRepair[d], RetryInterval)

Limited == {"linkfail", "repair"}

\* The ants with which the decisions out launch a flood of a type for d.
Launches(n, out, type, d) ==
  {a \in {x.ant : x \in {y \in out : y.ant # NoAnt}} :
     /\ a.type = type /\ IsLaunch(n, a)
     /\ IF type = "linkfail" THEN d \in DOMAIN a.dests ELSE a.dst = d}

\* Between s and st, out launches at most one flood of a type for a destination, only when its
\* cooldown was over, and starts the cooldown again.
Spaced(n, s, st, out) ==
  NotifyInterval # 0 =>
    \A type \in Limited, d \in Nodes :
      /\ \/ Since(st, type)[d] = Since(s, type)[d]
         \/ Since(st, type)[d] = 0 /\ Ready(s, type, d)
      /\ \A a \in Launches(n, out, type, d) : Since(st, type)[d] = 0 /\ Ready(s, type, d)
      /\ \A a, b \in Launches(n, out, type, d) : a.seq = b.seq

\* The results of a handler that starts in s.
Outcomes(n, X, s) == {r \in Results(n, X) : Spaced(n, s, r.st, r.out)}

\* X leaves the cooldowns and the launches free.
Free(X) == X.loud /\ X.notify = Clocks /\ X.repair = Clocks

\* A cooldown that was just started is not over.
LEMMA NotReady ==
  ASSUME NotifyInterval # 0, NEW s, NEW type \in Limited, NEW d, Since(s, type)[d] = 0
  PROVE  ~ Ready(s, type, d)
  BY RouterAssumption DEF Limited, Since, Ready, MayNotify, Cooled, Never

\* Whether a flood may be launched depends on its cooldown alone.
LEMMA ReadyBySince ==
  ASSUME NEW s, NEW u, NEW type, NEW d, Since(s, type)[d] = Since(u, type)[d]
  PROVE  Ready(s, type, d) <=> Ready(u, type, d)
  BY DEF Since, Ready, MayNotify

\* One handler after another.
LEMMA SpacedThen ==
  ASSUME NEW n, NEW s, NEW u, NEW w, NEW A, NEW B, Spaced(n, s, u, A), Spaced(n, u, w, B)
  PROVE  Spaced(n, s, w, A \cup B)
<1> SUFFICES ASSUME NotifyInterval # 0, NEW type \in Limited, NEW d \in Nodes
             PROVE  /\ \/ Since(w, type)[d] = Since(s, type)[d]
                       \/ Since(w, type)[d] = 0 /\ Ready(s, type, d)
                    /\ \A a \in Launches(n, A \cup B, type, d) : Since(w, type)[d] = 0 /\ Ready(s, type, d)
                    /\ \A a, b \in Launches(n, A \cup B, type, d) : a.seq = b.seq
  BY DEF Spaced
<1>1. /\ \/ Since(u, type)[d] = Since(s, type)[d]
         \/ Since(u, type)[d] = 0 /\ Ready(s, type, d)
      /\ \A a \in Launches(n, A, type, d) : Since(u, type)[d] = 0 /\ Ready(s, type, d)
      /\ \A a, b \in Launches(n, A, type, d) : a.seq = b.seq
  BY DEF Spaced
<1>2. /\ \/ Since(w, type)[d] = Since(u, type)[d]
         \/ Since(w, type)[d] = 0 /\ Ready(u, type, d)
      /\ \A a \in Launches(n, B, type, d) : Since(w, type)[d] = 0 /\ Ready(u, type, d)
      /\ \A a, b \in Launches(n, B, type, d) : a.seq = b.seq
  BY DEF Spaced
<1>3. Launches(n, A \cup B, type, d) = Launches(n, A, type, d) \cup Launches(n, B, type, d)
  BY DEF Launches
<1>4. CASE Since(u, type)[d] = 0 /\ Ready(s, type, d)
  <2>1. ~ Ready(u, type, d)
    BY <1>4, NotReady
  <2> QED
    BY <1>1, <1>2, <1>3, <1>4, <2>1
<1>5. CASE Since(u, type)[d] = Since(s, type)[d] /\ ~ (Since(u, type)[d] = 0 /\ Ready(s, type, d))
  <2>1. Ready(u, type, d) <=> Ready(s, type, d)
    BY <1>5, ReadyBySince
  <2> QED
    BY <1>1, <1>2, <1>3, <1>5, <2>1
<1> QED
  BY <1>1, <1>4, <1>5

\* Floods stay spaced through two handlers that space them.
LEMMA OutcomesThen ==
  ASSUME NEW n, NEW X, NEW s, NEW r \in Outcomes(n, X, s), NEW q \in Outcomes(n, X, r.st)
  PROVE  Then(r, q) \in Outcomes(n, X, s)
<1>1. r \in Results(n, X) /\ q \in Results(n, X) /\ Spaced(n, s, r.st, r.out) /\ Spaced(n, r.st, q.st, q.out)
  BY DEF Outcomes
<1>2. Then(r, q) \in Results(n, X) /\ Then(r, q).st = q.st /\ Then(r, q).out = r.out \cup q.out
  BY <1>1, ThenType
<1>3. Spaced(n, s, q.st, r.out \cup q.out)
  BY <1>1, SpacedThen
<1> QED
  BY <1>2, <1>3 DEF Outcomes

\* A handler that leaves the cooldowns alone and launches nothing.
LEMMA OutcomesQuiet ==
  ASSUME NEW n, NEW X, NEW s, NEW t \in Sane(n, X), NEW out \in SUBSET Decisions(n, X),
         t.sinceNotify = s.sinceNotify, t.sinceRepair = s.sinceRepair,
         \A x \in out : x.ant # NoAnt => ~ IsLaunch(n, x.ant)
  PROVE  Result(t, out) \in Outcomes(n, X, s)
<1>1. Result(t, out) \in Results(n, X) /\ Result(t, out).st = t /\ Result(t, out).out = out
  BY ResultType
<1>2. \A type, d : Launches(n, out, type, d) = {}
  BY DEF Launches
<1>3. Spaced(n, s, t, out)
  BY <1>2 DEF Spaced, Since
<1> QED
  BY <1>1, <1>3 DEF Outcomes

\* One that decides nothing, or only what becomes of held data.
LEMMA OutcomesPlain ==
  ASSUME NEW n, NEW X, NEW s, NEW t \in Sane(n, X), NEW d \in Nodes \cup {NoNode},
         t.sinceNotify = s.sinceNotify, t.sinceRepair = s.sinceRepair
  PROVE  Result(t, {}) \in Outcomes(n, X, s) /\ Result(t, {Discard(d)}) \in Outcomes(n, X, s)
<1>1. {Discard(d)} \in SUBSET Decisions(n, X) /\ \A x \in {Discard(d)} : x.ant = NoAnt
  BY PlainType DEF Discard
<1> QED
  BY <1>1, OutcomesQuiet

-----------------------------------------------------------------------------
(* The handlers: each leaves a sane router and decisions that keep ants on track *)

\* A forward ant is an ant that has visited its own node alone.
LEMMA ForwardAntType ==
  ASSUME NEW n \in Nodes, NEW X, NEW s \in Sane(n, X),
         NEW type \in {"repair", "reactive", "proactive"}, NEW dest \in Nodes
  PROVE  /\ ForwardAnt(s, type, dest) \in Ants
         /\ ForwardAnt(s, type, dest).dir = "up"
         /\ ForwardAnt(s, type, dest).type = type
         /\ ForwardAnt(s, type, dest).visited = <<n>>
         /\ ForwardAnt(s, type, dest).dst = dest
         /\ ForwardAnt(s, type, dest).seq = s.seq
<1> DEFINE budget == CASE type = "repair"   -> RepairMaxBroadcasts
                       [] type = "reactive" -> -1
                       [] OTHER             -> ProactiveMaxBroadcasts
           a == NewAnt(s, type, dest, budget)
<1>1. budget \in Int /\ type \in AntTypes
  BY RouterBounds DEF AntTypes
<1>2. ForwardAnt(s, type, dest) = [a EXCEPT !.visited = <<s.self>>]
  BY DEF ForwardAnt
<1> HIDE DEF budget
<1>3. a \in Ants /\ a.dir = "up" /\ a.type = type /\ a.dst = dest /\ a.seq = s.seq
  <2>1. a \in Ants /\ a.dir = "up" /\ a.type = type
    BY <1>1, NewAntType
  <2> QED
    BY <2>1 DEF NewAnt
<1>4. <<s.self>> \in Seq(Nodes) /\ s.self = n
  BY DEF Sane, Routers
<1> HIDE DEF a
<1> QED
  BY <1>2, <1>3, <1>4 DEF Ants

\* Starting the cooldowns of the destinations in D.
LEMMA NotifiedType ==
  ASSUME NEW n, NEW X, NEW s \in Sane(n, X), X.notify = Clocks, NEW D \in SUBSET Nodes
  PROVE  /\ Notified(s, D) \in Sane(n, X) /\ Notified(s, D).table = s.table
         /\ Notified(s, D).sinceRepair = s.sinceRepair /\ Notified(s, D).fails = s.fails
         /\ NotifyInterval # 0 =>
              \A d \in Nodes : Notified(s, D).sinceNotify[d] = IF d \in D THEN 0 ELSE s.sinceNotify[d]
<1>1. s \in Routers(n, X)
  BY DEF Sane
<1> DEFINE c == [d \in Nodes |-> IF d \in D THEN 0 ELSE s.sinceNotify[d]]
           u == [s EXCEPT !.sinceNotify = c]
<1>2. c \in Clocks
  BY <1>1 DEF Routers, Clocks, Ages
<1>3. Notified(s, D) = IF NotifyInterval = 0 THEN s ELSE u
  BY DEF Notified
<1>4. \A d \in Nodes : c[d] = IF d \in D THEN 0 ELSE s.sinceNotify[d]
  OBVIOUS
<1> HIDE DEF c
<1>5. /\ u \in Routers(n, X) /\ u.table = s.table /\ u.idle = s.idle /\ u.fails = s.fails
      /\ u.sinceRepair = s.sinceRepair /\ u.sinceNotify = c
  BY <1>1, <1>2 DEF Routers
<1> HIDE DEF u
<1>6. u \in Sane(n, X)
  BY <1>5, StaysSane
<1> QED
  BY <1>3, <1>4, <1>5, <1>6

\* A note is sent with what is left of its budget; the sequence number is that of all its adverts.
LEMMA NoteType ==
  ASSUME NEW n \in Nodes, NEW X, NEW s \in Sane(n, X), NEW adverts \in Adverts,
         NEW budget \in 0 .. RepairMaxBroadcasts, budget = RepairMaxBroadcasts => X.loud
  PROVE  /\ Note(s, adverts, budget) \in Results(n, X)
         /\ Note(s, adverts, budget).st.table = s.table
         /\ Note(s, adverts, budget).st.sinceNotify = s.sinceNotify
         /\ Note(s, adverts, budget).st.sinceRepair = s.sinceRepair
         /\ Note(s, adverts, budget).st.fails = s.fails
         /\ \A x \in Note(s, adverts, budget).out :
              /\ x.ant.type = "linkfail" /\ x.ant.dests = adverts
              /\ x.ant.seq = Note(s, adverts, budget).st.seq
<1> DEFINE t == NextSeq(s)
           a == NewAnt(t, "linkfail", NoNode, budget)
           b == [a EXCEPT !.dests = adverts]
<1>1. /\ t \in Sane(n, X) /\ t.table = s.table /\ t.fails = s.fails
      /\ t.sinceNotify = s.sinceNotify /\ t.sinceRepair = s.sinceRepair
  BY NextSeqType
<1>2. Note(s, adverts, budget) = Result(t, BroadcastForward(b))
  BY DEF Note
<1> HIDE DEF t
<1>3. a \in Ants /\ a.dir = "up" /\ a.type = "linkfail" /\ a.budget = budget /\ a.seq = t.seq
  <2>1. "linkfail" \in AntTypes /\ budget \in Int
    BY RouterBounds DEF AntTypes
  <2>2. a \in Ants /\ a.dir = "up" /\ a.type = "linkfail" /\ a.budget = budget
    BY <1>1, <2>1, NewAntType
  <2> QED
    BY <2>2 DEF NewAnt
<1> HIDE DEF a
<1>4. /\ b \in Ants /\ b.dir = "up" /\ b.type = "linkfail" /\ b.budget = budget
      /\ b.seq = t.seq /\ b.dests = adverts
  BY <1>3 DEF Ants
<1> HIDE DEF b
<1>5. BroadcastForward(b) \in SUBSET Decisions(n, X)
  BY <1>4, BroadcastForwardType
<1>6. \A x \in BroadcastForward(b) : x.ant.type = "linkfail" /\ x.ant.dests = adverts /\ x.ant.seq = t.seq
  <2> DEFINE c == [b EXCEPT !.budget = b.budget - 1]
  <2>1. c.type = "linkfail" /\ c.dests = adverts /\ c.seq = t.seq
    BY <1>4 DEF Ants
  <2>2. BroadcastForward(b) \in {{}, {Flood(c)}, {Flood(b)}}
    BY DEF BroadcastForward
  <2> HIDE DEF c
  <2>3. Flood(b).ant = b /\ Flood(c).ant = c
    BY DEF Flood
  <2> QED
    BY <1>4, <2>1, <2>2, <2>3
<1>7. /\ Result(t, BroadcastForward(b)) \in Results(n, X)
      /\ Result(t, BroadcastForward(b)).st = t /\ Result(t, BroadcastForward(b)).out = BroadcastForward(b)
  BY <1>1, <1>5, ResultType
<1> QED
  BY <1>1, <1>2, <1>6, <1>7

\* An origin notes the destinations in D, whose cooldowns were over.
LEMMA AnnounceType ==
  ASSUME NEW n \in Nodes, NEW X, Free(X), NEW s \in Sane(n, X), NEW D \in SUBSET Nodes,
         \A d \in D : MayNotify(s, d), NEW adverts \in [D -> Values]
  PROVE  LET r == Note(Notified(s, D), adverts, RepairMaxBroadcasts)
         IN r \in Outcomes(n, X, s) /\ r.st.table = s.table /\ r.st.fails = s.fails
<1> DEFINE t == Notified(s, D)
           r == Note(t, adverts, RepairMaxBroadcasts)
<1>1. /\ t \in Sane(n, X) /\ t.table = s.table /\ t.sinceRepair = s.sinceRepair /\ t.fails = s.fails
      /\ NotifyInterval # 0 => \A d \in Nodes : t.sinceNotify[d] = IF d \in D THEN 0 ELSE s.sinceNotify[d]
  BY NotifiedType DEF Free
<1>2. adverts \in Adverts /\ DOMAIN adverts = D /\ RepairMaxBroadcasts \in 0 .. RepairMaxBroadcasts
  BY AdvertsOf, RouterBounds
<1> HIDE DEF t
<1>3. /\ r \in Results(n, X) /\ r.st.table = t.table /\ r.st.fails = t.fails
      /\ r.st.sinceNotify = t.sinceNotify /\ r.st.sinceRepair = t.sinceRepair
      /\ \A x \in r.out : x.ant.type = "linkfail" /\ x.ant.dests = adverts /\ x.ant.seq = r.st.seq
  BY <1>1, <1>2, NoteType DEF Free
<1> HIDE DEF r
<1>4. ASSUME NEW d \in Nodes, NEW a \in Launches(n, r.out, "linkfail", d) PROVE d \in D /\ a.seq = r.st.seq
  BY <1>2, <1>3, <1>4 DEF Launches
<1>5. \A d \in Nodes : Launches(n, r.out, "repair", d) = {}
  BY <1>3 DEF Launches
<1>6. Spaced(n, s, r.st, r.out)
  <2> SUFFICES ASSUME NotifyInterval # 0, NEW type \in Limited, NEW d \in Nodes
               PROVE  /\ \/ Since(r.st, type)[d] = Since(s, type)[d]
                         \/ Since(r.st, type)[d] = 0 /\ Ready(s, type, d)
                      /\ \A a \in Launches(n, r.out, type, d) : Since(r.st, type)[d] = 0 /\ Ready(s, type, d)
                      /\ \A a, b \in Launches(n, r.out, type, d) : a.seq = b.seq
    BY DEF Spaced
  <2>1. CASE type = "linkfail"
    BY <1>1, <1>3, <1>4, <2>1 DEF Since, Ready
  <2>2. CASE type = "repair"
    BY <1>1, <1>3, <1>5, <2>2 DEF Since, Ready
  <2> QED
    BY <2>1, <2>2 DEF Limited
<1>7. r \in Outcomes(n, X, s) /\ r.st.table = s.table /\ r.st.fails = s.fails
  BY <1>1, <1>3, <1>6 DEF Outcomes
<1> QED
  BY <1>7 DEF r, t

\* What a handler may do from s depends on the cooldowns of s alone.
LEMMA SameCooldowns ==
  ASSUME NEW n, NEW X, NEW s, NEW u, NEW r \in Outcomes(n, X, u),
         u.sinceNotify = s.sinceNotify, u.sinceRepair = s.sinceRepair
  PROVE  r \in Outcomes(n, X, s)
<1>1. \A type, d : Since(u, type) = Since(s, type) /\ (Ready(u, type, d) <=> Ready(s, type, d))
  BY DEF Since, Ready, MayNotify
<1> QED
  BY <1>1 DEF Outcomes, Spaced

\* Losing a neighbour: one note about the destinations lost with it.
LEMMA ReportNeighborLossType ==
  ASSUME NEW n \in Nodes, NEW X, Free(X), NEW s \in Sane(n, X), NEW m \in Nodes \ X.near
  PROVE  /\ ReportNeighborLoss(s, m) \in Outcomes(n, X, s)
         /\ ReportNeighborLoss(s, m).st.table.nbrs = s.table.nbrs \ {m}
         /\ ReportNeighborLoss(s, m).st.fails[m] = 0
<1> DEFINE affected == {d \in Nodes : /\ s.table.reg[d][m] > MinPheromone
                                     /\ s.table.reg[d][m] >= BestRegular(s.table, d)}
           lost  == LoseNeighbor(s, m)
           After(d) == BestRegular(lost.table, d)
           advert == {d \in affected : /\ After(d) < BestRegular(s.table, d)
                                       /\ ~ (EnableMultipath /\ After(d) > MinPheromone)
                                       /\ MayNotify(s, d)}
           f == [d \in advert |-> After(d)]
           r == Note(Notified(lost, advert), f, RepairMaxBroadcasts)
<1>1. /\ lost \in Sane(n, X) /\ lost.table.nbrs = s.table.nbrs \ {m} /\ lost.table \in Tables
      /\ lost.sinceNotify = s.sinceNotify /\ lost.sinceRepair = s.sinceRepair /\ lost.fails[m] = 0
  BY LoseNeighborType DEF Sane, Routers
<1>2. ReportNeighborLoss(s, m) \in {Result(lost, {}), r}
  BY DEF ReportNeighborLoss
<1>3. advert \in SUBSET Nodes /\ \A d \in advert : MayNotify(s, d)
  OBVIOUS
<1> HIDE DEF lost, advert
<1>4. \A d \in advert : MayNotify(lost, d)
  BY <1>1, <1>3 DEF MayNotify
<1>5. f \in [advert -> Values]
  BY <1>1, <1>3, BestRegularType
<1> HIDE DEF f
<1>6. r \in Outcomes(n, X, lost) /\ r.st.table = lost.table /\ r.st.fails = lost.fails
  BY <1>1, <1>3, <1>4, <1>5, AnnounceType
<1> HIDE DEF r
<1>7. Result(lost, {}) \in Outcomes(n, X, s) /\ Result(lost, {}).st = lost
  <2>1. {} \in SUBSET Decisions(n, X)
    OBVIOUS
  <2> QED
    BY <1>1, <2>1, OutcomesQuiet, ResultType
<1>8. r \in Outcomes(n, X, s)
  BY <1>1, <1>6, SameCooldowns
<1> QED
  BY <1>1, <1>2, <1>6, <1>7, <1>8

\* Starting a repair whose cooldown is over: one repair ant.
LEMMA StartRepairType ==
  ASSUME NEW n \in Nodes, NEW X, Free(X), NEW s \in Sane(n, X), NEW dest \in Nodes,
         Cooled(s.sinceRepair[dest], RetryInterval), NEW wait \in Nat
  PROVE  /\ StartRepair(s, dest, wait) \in Outcomes(n, X, s)
         /\ StartRepair(s, dest, wait).st.table = s.table
         /\ StartRepair(s, dest, wait).st.fails = s.fails
<1> DEFINE u == NextSeq(s)
           t == [u EXCEPT !.sinceRepair[dest] = 0, !.deadline[dest] = wait]
           a == ForwardAnt(t, "repair", dest)
           c == [a EXCEPT !.budget = a.budget - 1]
           out == BroadcastForward(a)
<1>1. /\ u \in Sane(n, X) /\ u.table = s.table /\ u.fails = s.fails
      /\ u.sinceRepair = s.sinceRepair /\ u.sinceNotify = s.sinceNotify
  BY NextSeqType
<1>2. StartRepair(s, dest, wait) = Result(t, out)
  BY DEF StartRepair
<1> HIDE DEF u
<1>3. /\ t \in Sane(n, X) /\ t.table = u.table /\ t.fails = u.fails /\ t.sinceNotify = u.sinceNotify
      /\ \A d \in Nodes : t.sinceRepair[d] = IF d = dest THEN 0 ELSE u.sinceRepair[d]
  <2>1. u \in Routers(n, X)
    BY <1>1 DEF Sane
  <2> DEFINE p == [u.sinceRepair EXCEPT ![dest] = 0]
             q == [u.deadline EXCEPT ![dest] = wait]
             w == [u EXCEPT !.sinceRepair = p, !.deadline = q]
  <2>2. /\ p \in Clocks /\ q \in Clocks
        /\ \A d \in Nodes : p[d] = IF d = dest THEN 0 ELSE u.sinceRepair[d]
    BY <2>1 DEF Routers, Clocks, Ages
  <2>3. t = w
    BY <2>1 DEF Routers
  <2> HIDE DEF p, q
  <2>4. /\ w \in Routers(n, X) /\ w.table = u.table /\ w.idle = u.idle /\ w.fails = u.fails
        /\ w.sinceNotify = u.sinceNotify /\ w.sinceRepair = p
    BY <2>1, <2>2 DEF Routers, Free
  <2> HIDE DEF w, t
  <2>5. w \in Sane(n, X)
    BY <1>1, <2>4, StaysSane
  <2> QED
    BY <2>2, <2>3, <2>4, <2>5
<1> HIDE DEF t
<1>4. a \in Ants /\ a.dir = "up" /\ a.type = "repair" /\ a.visited = <<n>> /\ a.dst = dest /\ a.seq = t.seq
  BY <1>3, ForwardAntType
<1> HIDE DEF a
<1>5. out \in SUBSET Decisions(n, X)
  <2>1. a.visited # << >>
    BY <1>4
  <2> QED
    BY <1>4, <2>1, BroadcastForwardType DEF Free
<1>6. c.type = "repair" /\ c.dst = dest /\ c.seq = t.seq
  BY <1>4 DEF Ants
<1>7. out \in {{}, {Flood(c)}, {Flood(a)}}
  BY DEF BroadcastForward
<1> HIDE DEF c
<1>8. \A x \in out : x.ant.type = "repair" /\ x.ant.dst = dest /\ x.ant.seq = t.seq
  <2>1. Flood(a).ant = a /\ Flood(c).ant = c
    BY DEF Flood
  <2> QED
    BY <1>4, <1>6, <1>7, <2>1
<1> HIDE DEF out
<1>9. Result(t, out) \in Results(n, X) /\ Result(t, out).st = t /\ Result(t, out).out = out
  BY <1>3, <1>5, ResultType
<1>10. ASSUME NEW d \in Nodes, NEW x \in Launches(n, out, "repair", d) PROVE d = dest /\ x.seq = t.seq
  BY <1>8, <1>10 DEF Launches
<1>11. \A d \in Nodes : Launches(n, out, "linkfail", d) = {}
  BY <1>8 DEF Launches
<1>12. Spaced(n, s, t, out)
  <2> SUFFICES ASSUME NotifyInterval # 0, NEW type \in Limited, NEW d \in Nodes
               PROVE  /\ \/ Since(t, type)[d] = Since(s, type)[d]
                         \/ Since(t, type)[d] = 0 /\ Ready(s, type, d)
                      /\ \A x \in Launches(n, out, type, d) : Since(t, type)[d] = 0 /\ Ready(s, type, d)
                      /\ \A x, y \in Launches(n, out, type, d) : x.seq = y.seq
    BY DEF Spaced
  <2>1. CASE type = "linkfail"
    BY <1>1, <1>3, <1>11, <2>1 DEF Since, Ready
  <2>2. CASE type = "repair"
    BY <1>1, <1>3, <1>10, <2>2 DEF Since, Ready
  <2> QED
    BY <2>1, <2>2 DEF Limited
<1> QED
  BY <1>1, <1>2, <1>3, <1>9, <1>12 DEF Outcomes

\* The failure counter of a neighbour may be set, within the bounds.
LEMMA FailsType ==
  ASSUME NEW n, NEW X, NEW s \in Sane(n, X), NEW m \in Nodes,
         NEW k \in 0 .. TxFailureThreshold - 1, k <= X.most[m]
  PROVE  /\ [s EXCEPT !.fails[m] = k] \in Sane(n, X)
         /\ [s EXCEPT !.fails[m] = k].table = s.table
         /\ [s EXCEPT !.fails[m] = k].sinceNotify = s.sinceNotify
         /\ [s EXCEPT !.fails[m] = k].sinceRepair = s.sinceRepair
         /\ [s EXCEPT !.fails[m] = k].fails = [s.fails EXCEPT ![m] = k]
<1> DEFINE f == [s.fails EXCEPT ![m] = k]
           u == [s EXCEPT !.fails = f]
<1>1. /\ s \in Routers(n, X) /\ s.table.nbrs = Known(s) /\ X.near \subseteq s.table.nbrs
      /\ \A x \in Nodes : X.most[x] \in Nat /\ s.fails[x] <= X.most[x]
  BY DEF Sane
<1>2. f \in [Nodes -> 0 .. TxFailureThreshold - 1] /\ \A x \in Nodes : f[x] <= X.most[x]
  <2>1. s.fails \in [Nodes -> 0 .. TxFailureThreshold - 1]
    BY <1>1 DEF Routers
  <2>2. \A x \in Nodes : f[x] = IF x = m THEN k ELSE s.fails[x]
    BY <2>1
  <2>3. f \in [Nodes -> 0 .. TxFailureThreshold - 1]
    BY <2>1
  <2> HIDE DEF f
  <2> QED
    BY <1>1, <2>2, <2>3
<1>3. [s EXCEPT !.fails[m] = k] = u
  OBVIOUS
<1> HIDE DEF f
<1>4. /\ u \in Routers(n, X) /\ u.table = s.table /\ u.idle = s.idle /\ u.fails = f
      /\ u.sinceNotify = s.sinceNotify /\ u.sinceRepair = s.sinceRepair
  BY <1>1, <1>2 DEF Routers
<1> HIDE DEF u
<1>5. u \in Sane(n, X)
  BY <1>1, <1>2, <1>4 DEF Sane, Known
<1> QED
  BY <1>3, <1>4, <1>5 DEF f

\* A failure that does not complete a streak is counted, one that does costs the neighbour and
\* may start a repair.
LEMMA TxFailureType ==
  ASSUME NEW n \in Nodes, NEW X, Free(X), NEW s \in Sane(n, X),
         NEW next \in Nodes, NEW dest \in Nodes \cup {NoNode},
         IF s.fails[next] + 1 < TxFailureThreshold
         THEN s.fails[next] + 1 <= X.most[next] ELSE next \notin X.near
  PROVE  /\ TxFailure(s, next, dest) \in Outcomes(n, X, s)
         /\ IF s.fails[next] + 1 < TxFailureThreshold
            THEN /\ TxFailure(s, next, dest).st.table = s.table
                 /\ TxFailure(s, next, dest).st.fails[next] = s.fails[next] + 1
                 /\ TxFailure(s, next, dest).out = {}
            ELSE /\ TxFailure(s, next, dest).st.table.nbrs = s.table.nbrs \ {next}
                 /\ TxFailure(s, next, dest).st.fails[next] = 0
<1>1. s.fails \in [Nodes -> 0 .. TxFailureThreshold - 1] /\ \A m \in Nodes : X.most[m] \in Nat
  BY DEF Sane, Routers
<1>2. CASE s.fails[next] + 1 < TxFailureThreshold
  <2> DEFINE k == s.fails[next] + 1
             u == [s EXCEPT !.fails[next] = k]
  <2>1. k \in 0 .. TxFailureThreshold - 1 /\ k <= X.most[next]
    BY <1>1, <1>2, RouterBounds
  <2>2. TxFailure(s, next, dest) = Result(u, {})
    BY <1>2, PheromoneBounds DEF TxFailure
  <2> HIDE DEF k
  <2>3. /\ u \in Sane(n, X) /\ u.table = s.table /\ u.fails = [s.fails EXCEPT ![next] = k]
        /\ u.sinceNotify = s.sinceNotify /\ u.sinceRepair = s.sinceRepair
    BY <2>1, FailsType
  <2> HIDE DEF u
  <2>4. /\ Result(u, {}) \in Outcomes(n, X, s) /\ Result(u, {}).st = u /\ Result(u, {}).out = {}
    <3>1. Result(u, {}) \in Outcomes(n, X, s)
      BY <2>3, OutcomesQuiet
    <3> QED
      BY <3>1 DEF Result
  <2>5. u.fails[next] = k
    BY <1>1, <2>3
  <2> QED
    BY <1>2, <2>2, <2>3, <2>4, <2>5 DEF k
<1>3. CASE ~ (s.fails[next] + 1 < TxFailureThreshold)
  <2> DEFINE wait == IF dest # NoNode /\ HasRoute(s.table, dest) THEN RepairWait ELSE RepairTimeout
             u == [s EXCEPT !.fails[next] = 0]
             r == ReportNeighborLoss(u, next)
  <2>1. /\ u \in Sane(n, X) /\ u.table = s.table
        /\ u.sinceNotify = s.sinceNotify /\ u.sinceRepair = s.sinceRepair
    <3>1. 0 \in 0 .. TxFailureThreshold - 1 /\ 0 <= X.most[next]
      BY <1>1, RouterBounds
    <3> QED
      BY <3>1, FailsType
  <2>2. wait \in Nat
    BY RouterBounds
  <2>3. \/ TxFailure(s, next, dest) = r
        \/ /\ dest # NoNode /\ Cooled(r.st.sinceRepair[dest], RetryInterval)
           /\ TxFailure(s, next, dest) = Then(r, StartRepair(r.st, dest, wait))
    BY <1>3, PheromoneBounds DEF TxFailure
  <2> HIDE DEF wait, u
  <2>4. r \in Outcomes(n, X, u) /\ r.st.table.nbrs = s.table.nbrs \ {next} /\ r.st.fails[next] = 0
    BY <1>3, <2>1, ReportNeighborLossType
  <2> HIDE DEF r
  <2>5. r \in Outcomes(n, X, s) /\ r.st \in Sane(n, X) /\ r \in Results(n, X)
    BY <2>1, <2>4, SameCooldowns DEF Outcomes, Results
  <2>6. CASE TxFailure(s, next, dest) = r
    BY <1>3, <2>4, <2>5, <2>6
  <2>7. CASE /\ dest # NoNode /\ Cooled(r.st.sinceRepair[dest], RetryInterval)
             /\ TxFailure(s, next, dest) = Then(r, StartRepair(r.st, dest, wait))
    <3> DEFINE q == StartRepair(r.st, dest, wait)
    <3>1. q \in Outcomes(n, X, r.st) /\ q.st.table = r.st.table /\ q.st.fails = r.st.fails
      BY <2>2, <2>5, <2>7, StartRepairType
    <3> HIDE DEF q
    <3>2. Then(r, q) \in Outcomes(n, X, s) /\ Then(r, q).st = q.st
      <4>1. Then(r, q) \in Outcomes(n, X, s)
        BY <2>5, <3>1, OutcomesThen
      <4> QED
        BY <4>1 DEF Then, Result
    <3> QED
      BY <1>3, <2>4, <2>7, <3>1, <3>2 DEF q
  <2> QED
    BY <2>3, <2>6, <2>7
<1> QED
  BY <1>2, <1>3

\* Erasing a repair deadline leaves a router sane.
LEMMA DeadlineType ==
  ASSUME NEW n, NEW X, NEW s \in Sane(n, X), NEW d \in Nodes
  PROVE  /\ [s EXCEPT !.deadline[d] = Never] \in Sane(n, X)
         /\ [s EXCEPT !.deadline[d] = Never].table = s.table
         /\ [s EXCEPT !.deadline[d] = Never].sinceNotify = s.sinceNotify
         /\ [s EXCEPT !.deadline[d] = Never].sinceRepair = s.sinceRepair
<1> DEFINE u == [s EXCEPT !.deadline[d] = Never]
<1>1. s \in Routers(n, X)
  BY DEF Sane
<1>2. /\ u \in Routers(n, X) /\ u.table = s.table /\ u.idle = s.idle /\ u.fails = s.fails
      /\ u.sinceNotify = s.sinceNotify /\ u.sinceRepair = s.sinceRepair
  BY <1>1 DEF Routers, Clocks, Ages
<1> HIDE DEF u
<1>3. u \in Sane(n, X)
  BY <1>2, StaysSane
<1> QED
  BY <1>2, <1>3 DEF u

\* A repair that is over: nothing if the route is back, else the held data is given up, with a
\* note unless there was one lately.
LEMMA ResolveRepairType ==
  ASSUME NEW n \in Nodes, NEW X, Free(X), NEW s \in Sane(n, X), NEW d \in Nodes
  PROVE  /\ ResolveRepair(s, d) \in Outcomes(n, X, s)
         /\ ResolveRepair(s, d).st.table.nbrs = s.table.nbrs
<1> DEFINE t == [s EXCEPT !.deadline[d] = Never]
           f == [x \in {d} |-> 0]
           r == Note(Notified(t, {d}), f, RepairMaxBroadcasts)
           q == Result(t, {Discard(d)})
<1>1. t \in Sane(n, X) /\ t.table = s.table /\ t.sinceNotify = s.sinceNotify /\ t.sinceRepair = s.sinceRepair
  BY DeadlineType
<1>2. \/ ResolveRepair(s, d) \in {Result(t, {}), q}
      \/ MayNotify(t, d) /\ ResolveRepair(s, d) = Then(q, r)
  BY DEF ResolveRepair
<1> HIDE DEF t
<1>3. f \in [{d} -> Values] /\ {d} \in SUBSET Nodes
  BY ValueTypes
<1> HIDE DEF f
<1>4. /\ Result(t, {}) \in Outcomes(n, X, s) /\ Result(t, {}).st = t
      /\ q \in Outcomes(n, X, s) /\ q.st = t
  <2>1. {Discard(d)} \in SUBSET Decisions(n, X) /\ {} \in SUBSET Decisions(n, X)
    BY PlainType
  <2> QED
    BY <1>1, <2>1, OutcomesPlain, ResultType
<1> HIDE DEF q
<1>5. ASSUME MayNotify(t, d) PROVE Then(q, r) \in Outcomes(n, X, s) /\ Then(q, r).st.table = t.table
  <2>1. r \in Outcomes(n, X, t) /\ r.st.table = t.table
    <3>1. \A x \in {d} : MayNotify(t, x)
      BY <1>5
    <3> QED
      BY <1>1, <1>3, <3>1, AnnounceType
  <2> HIDE DEF r
  <2>2. Then(q, r) \in Outcomes(n, X, s)
    BY <1>4, <2>1, OutcomesThen
  <2> QED
    BY <2>1, <2>2 DEF Then, Result
<1> QED
  BY <1>1, <1>2, <1>4, <1>5

\* onMaintenanceTick's loop over the silent neighbours.
LEMMA EvictionsType ==
  ASSUME NEW n \in Nodes, NEW X, Free(X), NEW s, NEW r0 \in Outcomes(n, X, s),
         NEW S \in SUBSET (Nodes \ X.near)
  PROVE  ForEach(S, r0, LAMBDA r, m : Then(r, ReportNeighborLoss(r.st, m))) \in Outcomes(n, X, s)
<1> DEFINE N == LastNode + 1
           V == Outcomes(n, X, s)
           Step(v, m) == Then(v, ReportNeighborLoss(v.st, m))
           Loop(f) == [k \in 0 .. N |->
                         IF k = 0 THEN r0
                         ELSE IF k - 1 \in S THEN Step(f[k - 1], k - 1) ELSE f[k - 1]]
           h == CHOOSE f : f = Loop(f)
           table == [m \in S |-> [v \in V |-> Step(v, m)]]
<1>1. N \in Nat /\ r0 \in V
  BY LastNodeBounds
<1>2. ForEach(S, r0, LAMBDA r, m : Then(r, ReportNeighborLoss(r.st, m))) = h[N]
  BY DEF ForEach
<1>3. \A m \in S, v \in V : Step(v, m) \in V
  <2> TAKE m \in S, v \in V
  <2>1. v.st \in Sane(n, X)
    BY DEF Outcomes, Results
  <2>2. ReportNeighborLoss(v.st, m) \in Outcomes(n, X, v.st)
    BY <2>1, ReportNeighborLossType
  <2> QED
    BY <2>2, OutcomesThen
<1> HIDE DEF N, V, Step
<1>4. table \in [S -> [V -> V]] /\ \A m \in S, v \in V : table[m][v] = Step(v, m)
  BY <1>3
<1>5. h = Loop(h)
  <2> HIDE DEF table
  <2>1. PICK g : Loops(g, N, V, r0, S, table)
    BY <1>1, <1>4, LoopExists
  <2>2. \A k \in 1 .. N : g[k - 1] \in V
    BY <1>1, <2>1 DEF Loops
  <2>3. g = Loop(g)
    BY <1>1, <1>4, <2>1, <2>2 DEF Loops
  <2> HIDE DEF Loop
  <2> QED
    BY <2>3
<1> HIDE DEF h, table
<1>6. h[0] = r0 /\ h[0] \in V
  BY <1>1, <1>5
<1>7. ASSUME NEW k \in 1 .. N, h[k - 1] \in V PROVE h[k] \in V
  <2>1. h[k] = IF k - 1 \in S THEN Step(h[k - 1], k - 1) ELSE h[k - 1]
    BY <1>1, <1>5
  <2> QED
    BY <1>3, <1>7, <2>1
<1>8. h[N] \in V
  BY <1>1, <1>6, <1>7, RecursiveFunctionType
<1> QED
  BY <1>2, <1>8, Zenon DEF V

\* onMaintenanceTick's loop over the repairs that are due.
LEMMA RepairsType ==
  ASSUME NEW n \in Nodes, NEW X, Free(X), NEW s, NEW r0 \in Outcomes(n, X, s), NEW S \in SUBSET Nodes
  PROVE  ForEach(S, r0, LAMBDA r, d : Then(r, ResolveRepair(r.st, d))) \in Outcomes(n, X, s)
<1> DEFINE N == LastNode + 1
           V == Outcomes(n, X, s)
           Step(v, d) == Then(v, ResolveRepair(v.st, d))
           Loop(f) == [k \in 0 .. N |->
                         IF k = 0 THEN r0
                         ELSE IF k - 1 \in S THEN Step(f[k - 1], k - 1) ELSE f[k - 1]]
           h == CHOOSE f : f = Loop(f)
           table == [m \in S |-> [v \in V |-> Step(v, m)]]
<1>1. N \in Nat /\ r0 \in V
  BY LastNodeBounds
<1>2. ForEach(S, r0, LAMBDA r, d : Then(r, ResolveRepair(r.st, d))) = h[N]
  BY DEF ForEach
<1>3. \A m \in S, v \in V : Step(v, m) \in V
  <2> TAKE d \in S, v \in V
  <2>1. v.st \in Sane(n, X)
    BY DEF Outcomes, Results
  <2>2. ResolveRepair(v.st, d) \in Outcomes(n, X, v.st)
    BY <2>1, ResolveRepairType
  <2> QED
    BY <2>2, OutcomesThen
<1> HIDE DEF N, V, Step
<1>4. table \in [S -> [V -> V]] /\ \A m \in S, v \in V : table[m][v] = Step(v, m)
  BY <1>3
<1>5. h = Loop(h)
  <2> HIDE DEF table
  <2>1. PICK g : Loops(g, N, V, r0, S, table)
    BY <1>1, <1>4, LoopExists
  <2>2. \A k \in 1 .. N : g[k - 1] \in V
    BY <1>1, <2>1 DEF Loops
  <2>3. g = Loop(g)
    BY <1>1, <1>4, <2>1, <2>2 DEF Loops
  <2> HIDE DEF Loop
  <2> QED
    BY <2>3
<1> HIDE DEF h, table
<1>6. h[0] = r0 /\ h[0] \in V
  BY <1>1, <1>5
<1>7. ASSUME NEW k \in 1 .. N, h[k - 1] \in V PROVE h[k] \in V
  <2>1. h[k] = IF k - 1 \in S THEN Step(h[k - 1], k - 1) ELSE h[k - 1]
    BY <1>1, <1>5
  <2> QED
    BY <1>3, <1>7, <2>1
<1>8. h[N] \in V
  BY <1>1, <1>6, <1>7, RecursiveFunctionType
<1> QED
  BY <1>2, <1>8, Zenon DEF V

\* The maintenance tick evicts no one but the silent, and launches what the cooldowns allow.
LEMMA MaintenanceTickType ==
  ASSUME NEW n \in Nodes, NEW X, Free(X), NEW s \in Sane(n, X),
         \A m \in X.near : ~ (s.idle[m] > MaxIdle)
  PROVE  MaintenanceTick(s) \in Outcomes(n, X, s)
<1> DEFINE t == EvaporateAll(s.table)
           aged == IF EnableEvaporation THEN [s EXCEPT !.table = t] ELSE s
           silent == {m \in Nodes : s.idle[m] > MaxIdle}
           failed == {d \in Nodes : s.deadline[d] = 0}
           r0 == Result(aged, {})
           evicted == ForEach(silent, r0, LAMBDA r, m : Then(r, ReportNeighborLoss(r.st, m)))
<1>1. MaintenanceTick(s) = ForEach(failed, evicted, LAMBDA r, d : Then(r, ResolveRepair(r.st, d)))
  BY DEF MaintenanceTick
<1>2. t \in Tables /\ t.nbrs = s.table.nbrs
  BY EvaporateAllType DEF Sane, Routers
<1>3. silent \in SUBSET (Nodes \ X.near) /\ failed \in SUBSET Nodes
  OBVIOUS
<1> HIDE DEF t, silent, failed
<1>4. aged \in Sane(n, X) /\ aged.sinceNotify = s.sinceNotify /\ aged.sinceRepair = s.sinceRepair
  <2>1. s \in Routers(n, X)
    BY DEF Sane
  <2> DEFINE u == [s EXCEPT !.table = t]
  <2>2. u \in Sane(n, X) /\ u.sinceNotify = s.sinceNotify /\ u.sinceRepair = s.sinceRepair
    BY <1>2, <2>1, SameNeighbors DEF Routers
  <2> QED
    BY <2>2
<1> HIDE DEF aged
<1>5. r0 \in Outcomes(n, X, s)
  BY <1>4, OutcomesQuiet
<1> HIDE DEF r0
<1>6. evicted \in Outcomes(n, X, s)
  BY <1>3, <1>5, EvictionsType, Zenon
<1> HIDE DEF evicted
<1>7. ForEach(failed, evicted, LAMBDA r, d : Then(r, ResolveRepair(r.st, d))) \in Outcomes(n, X, s)
  BY <1>3, <1>6, RepairsType, Zenon
<1> QED
  BY <1>1, <1>7, Zenon

\* Told of the failures of a whole streak, a router has lost the neighbour, and has counted no
\* more failures than before: those it hears of after the eviction make up for those it knew.
LEMMA SeveredType ==
  ASSUME NEW n \in Nodes, NEW X, Free(X), NEW s \in Sane(n, X), NEW m \in Nodes \ X.near
  PROVE  /\ Severed(s, m) \in Outcomes(n, X, s)
         /\ Severed(s, m).st.table.nbrs \subseteq s.table.nbrs \ {m}
<1> DEFINE N == TxFailureThreshold
           Y == [hist |-> X.hist, gens |-> X.gens, near |-> X.near, notify |-> X.notify,
                 repair |-> X.repair, loud |-> X.loud,
                 most |-> [x \in Nodes |-> IF x = m THEN N ELSE X.most[x]]]
           V == Outcomes(n, Y, s)
           base == Result(s, {})
           Step(v) == IF v.out # {} THEN v ELSE TxFailure(v.st, m, NoNode)
           Told(f) == [k \in 0 .. N |-> IF k = 0 THEN base ELSE Step(f[k - 1])]
           h == CHOOSE f : f = Told(f)
           step == [k \in 1 .. N |-> [v \in V |-> Step(v)]]
<1>1. /\ s \in Routers(n, X) /\ s.table.nbrs = Known(s) /\ X.near \subseteq s.table.nbrs
      /\ \A x \in Nodes : X.most[x] \in Nat /\ s.fails[x] <= X.most[x]
      /\ s.fails \in [Nodes -> 0 .. N - 1] /\ N \in Nat
  BY RouterBounds DEF Sane, Routers
<1>2. /\ Y.hist = X.hist /\ Y.gens = X.gens /\ Y.near = X.near /\ Y.notify = X.notify
      /\ Y.repair = X.repair /\ Y.loud = X.loud
      /\ \A x \in Nodes : Y.most[x] \in Nat /\ (x # m => Y.most[x] = X.most[x])
      /\ Y.most[m] = N
  BY <1>1
<1> HIDE DEF Y
<1>3. Free(Y) /\ s \in Sane(n, Y)
  <2>1. s \in Routers(n, Y)
    BY <1>1, <1>2 DEF Routers
  <2>2. \A x \in Nodes : s.fails[x] <= Y.most[x]
    BY <1>1, <1>2
  <2> QED
    BY <1>1, <1>2, <2>1, <2>2 DEF Free, Sane
<1>4. base \in V
  <2>1. {} \in SUBSET Decisions(n, Y)
    OBVIOUS
  <2> QED
    BY <1>3, <2>1, OutcomesQuiet
<1>5. Severed(s, m) = h[N]
  BY DEF Severed
<1>6. ASSUME NEW v \in V, v.out = {}
      PROVE  /\ TxFailure(v.st, m, NoNode) \in V
             /\ v.st.fails[m] \in 0 .. N - 1
             /\ IF v.st.fails[m] + 1 < N
                THEN /\ TxFailure(v.st, m, NoNode).st.table = v.st.table
                     /\ TxFailure(v.st, m, NoNode).st.fails[m] = v.st.fails[m] + 1
                     /\ TxFailure(v.st, m, NoNode).out = {}
                ELSE /\ TxFailure(v.st, m, NoNode).st.table.nbrs = v.st.table.nbrs \ {m}
                     /\ TxFailure(v.st, m, NoNode).st.fails[m] = 0
  <2> DEFINE q == TxFailure(v.st, m, NoNode)
  <2>1. v.st \in Sane(n, Y) /\ v \in Results(n, Y)
    BY DEF Outcomes, Results
  <2>2. v.st.fails[m] \in 0 .. N - 1
    BY <2>1 DEF Sane, Routers
  <2>3. /\ q \in Outcomes(n, Y, v.st)
        /\ IF v.st.fails[m] + 1 < N
           THEN q.st.table = v.st.table /\ q.st.fails[m] = v.st.fails[m] + 1 /\ q.out = {}
           ELSE q.st.table.nbrs = v.st.table.nbrs \ {m} /\ q.st.fails[m] = 0
    <3>1. IF v.st.fails[m] + 1 < N THEN v.st.fails[m] + 1 <= Y.most[m] ELSE m \notin Y.near
      BY <1>1, <1>2, <2>2
    <3> QED
      BY <1>3, <2>1, <3>1, TxFailureType
  <2>4. q \in V
    <3> HIDE DEF q
    <3>1. q \in Results(n, Y) /\ Then(v, q) = q
      <4>1. q \in Results(n, Y)
        BY <2>3 DEF Outcomes
      <4>2. q = [st |-> q.st, out |-> q.out]
        BY <4>1 DEF Results
      <4> QED
        BY <1>6, <4>1, <4>2 DEF Then, Result
    <3>2. Then(v, q) \in Outcomes(n, Y, s)
      BY <2>3, OutcomesThen
    <3> QED
      BY <3>1, <3>2
  <2> QED
    BY <2>2, <2>3, <2>4
<1>7. \A v \in V : Step(v) \in V
  BY <1>6
<1> HIDE DEF V, base
<1>8. /\ step \in [1 .. N -> [V -> V]]
      /\ \A k \in 1 .. N, v \in V : step[k][v] = Step(v)
  BY <1>7
<1>9. h = Told(h)
  <2> HIDE DEF step, Step
  <2>1. PICK g : Recurses(g, N, V, base, step)
    BY <1>1, <1>4, <1>8, RecursiveFunctionExists
  <2>2. \A k \in 1 .. N : g[k - 1] \in V
    BY <1>1, <2>1 DEF Recurses
  <2>3. g = Told(g)
    BY <1>1, <1>8, <2>1, <2>2 DEF Recurses
  <2> HIDE DEF Told
  <2> QED
    BY <2>3
<1> HIDE DEF h, step
<1>10. h[0] = base /\ \A k \in 1 .. N : h[k] = Step(h[k - 1])
  <2> HIDE DEF Step
  <2>1. h[0] = base
    BY <1>1, <1>9
  <2>2. \A k \in 1 .. N : h[k] = Step(h[k - 1])
    BY <1>1, <1>9
  <2> QED
    BY <2>1, <2>2
<1> DEFINE F == s.fails[m]
           Holds(k, v) == /\ v \in V /\ v.st.table.nbrs \subseteq s.table.nbrs
                          /\ IF F + k < N THEN v.out = {} /\ v.st.fails[m] = F + k
                             ELSE m \notin v.st.table.nbrs /\ v.st.fails[m] <= F + k - N
           T == {k \in 0 .. N : Holds(k, h[k])}
<1>11. F \in Nat /\ F < N
  BY <1>1
<1>12. 0 \in T
  <2>1. base.st = s /\ base.out = {}
    BY DEF base, Result
  <2>2. F + 0 < N
    BY <1>11
  <2>3. Holds(0, h[0])
    BY <1>4, <1>10, <1>11, <2>1, <2>2
  <2> QED
    BY <1>1, <2>3
<1>13. ASSUME NEW k \in 1 .. N, k - 1 \in T PROVE k \in T
  <2> DEFINE v == h[k - 1]
             q == TxFailure(v.st, m, NoNode)
  <2>1. Holds(k - 1, v) /\ h[k] = Step(v) /\ k \in Nat /\ 1 <= k /\ k <= N
    BY <1>1, <1>10, <1>13
  <2> HIDE DEF T, v
  <2>2. v \in V /\ v.st.table.nbrs \subseteq s.table.nbrs
    BY <2>1
  <2>3. CASE v.out # {}
    <3>1. ~ (F + (k - 1) < N) /\ m \notin v.st.table.nbrs /\ v.st.fails[m] <= F + (k - 1) - N
      BY <2>1, <2>3
    <3>2. v.st.fails[m] \in Nat
      BY <2>2 DEF V, Outcomes, Results, Sane, Routers
    <3>3. ~ (F + k < N) /\ v.st.fails[m] <= F + k - N
      BY <1>1, <1>11, <2>1, <3>1, <3>2
    <3>4. Holds(k, h[k])
      BY <2>1, <2>2, <2>3, <3>1, <3>3
    <3> QED
      BY <3>4 DEF T
  <2>4. CASE v.out = {}
    <3>1. /\ q \in V /\ v.st.fails[m] \in 0 .. N - 1
          /\ IF v.st.fails[m] + 1 < N
             THEN q.st.table = v.st.table /\ q.st.fails[m] = v.st.fails[m] + 1 /\ q.out = {}
             ELSE q.st.table.nbrs = v.st.table.nbrs \ {m} /\ q.st.fails[m] = 0
      BY <1>6, <2>2, <2>4
    <3>2. h[k] = q
      BY <2>1, <2>4
    <3> HIDE DEF q
    <3>3. CASE F + (k - 1) < N
      <4>1. v.st.fails[m] = F + (k - 1)
        BY <2>1, <3>3
      <4>2. CASE F + k < N
        <5>1. v.st.fails[m] + 1 < N /\ v.st.fails[m] + 1 = F + k
          BY <1>11, <2>1, <4>1, <4>2
        <5>2. Holds(k, q)
          BY <2>2, <3>1, <4>2, <5>1
        <5> QED
          BY <3>2, <5>2 DEF T
      <4>3. CASE ~ (F + k < N)
        <5>1. ~ (v.st.fails[m] + 1 < N) /\ 0 <= F + k - N
          BY <1>1, <1>11, <2>1, <4>1, <4>3
        <5>2. Holds(k, q)
          BY <2>2, <3>1, <4>3, <5>1
        <5> QED
          BY <3>2, <5>2 DEF T
      <4> QED
        BY <4>2, <4>3
    <3>4. CASE ~ (F + (k - 1) < N)
      <4>1. m \notin v.st.table.nbrs /\ v.st.fails[m] <= F + (k - 1) - N
        BY <2>1, <3>4
      <4>2. ~ (F + k < N) /\ v.st.fails[m] + 1 <= F + k - N /\ v.st.fails[m] + 1 < N
        BY <1>1, <1>11, <2>1, <3>1, <3>4, <4>1
      <4>3. Holds(k, q)
        BY <2>2, <3>1, <4>1, <4>2
      <4> QED
        BY <3>2, <4>3 DEF T
    <3> QED
      BY <3>3, <3>4
  <2> QED
    BY <2>3, <2>4
<1>14. N \in T
  <2> HIDE DEF T
  <2>1. 0 .. N \subseteq T
    BY <1>1, <1>12, <1>13, BoundedInduction
  <2> QED
    BY <1>1, <2>1
<1> DEFINE r == h[N]
<1>15. r \in V /\ r.st.table.nbrs \subseteq s.table.nbrs \ {m} /\ r.st.fails[m] <= F
  <2>1. ~ (F + N < N) /\ F + N - N = F
    BY <1>1, <1>11
  <2> QED
    BY <1>14, <2>1
<1> HIDE DEF r, T
<1>16. r.st \in Sane(n, X)
  <2>1. r.st \in Sane(n, Y)
    BY <1>15 DEF V, Outcomes, Results
  <2>2. r.st \in Routers(n, X) /\ r.st.fails \in [Nodes -> 0 .. N - 1]
    BY <1>2, <2>1 DEF Sane, Routers
  <2>3. \A x \in Nodes : r.st.fails[x] <= X.most[x]
    <3> SUFFICES ASSUME NEW x \in Nodes PROVE r.st.fails[x] <= X.most[x]
      OBVIOUS
    <3>1. CASE x = m
      BY <1>1, <1>15, <2>2, <3>1
    <3>2. CASE x # m
      BY <1>2, <2>1, <3>2 DEF Sane
    <3> QED
      BY <3>1, <3>2
  <2> QED
    BY <1>1, <1>2, <2>1, <2>2, <2>3 DEF Sane
<1>17. r \in Outcomes(n, X, s)
  <2>1. r \in Results(n, Y) /\ Spaced(n, s, r.st, r.out)
    BY <1>15 DEF V, Outcomes
  <2>2. Decisions(n, Y) = Decisions(n, X)
    BY <1>2 DEF Decisions
  <2>3. r \in Results(n, X)
    BY <1>16, <2>1, <2>2 DEF Results
  <2> QED
    BY <2>1, <2>3 DEF Outcomes
<1> QED
  BY <1>5, <1>15, <1>17 DEF r

\* A cable that goes down costs all the neighbours heard on it.
LEMMA SeverAllType ==
  ASSUME NEW n \in Nodes, NEW X, Free(X), NEW s \in Sane(n, X), NEW S \in SUBSET (Nodes \ X.near)
  PROVE  LET r == ForEach(S, Result(s, {}), LAMBDA q, m : Then(q, Severed(q.st, m)))
         IN r \in Outcomes(n, X, s) /\ S \cap r.st.table.nbrs = {}
<1> DEFINE N == LastNode + 1
           V == Outcomes(n, X, s)
           base == Result(s, {})
           Step(v, m) == Then(v, Severed(v.st, m))
           Loop(f) == [k \in 0 .. N |->
                         IF k = 0 THEN base
                         ELSE IF k - 1 \in S THEN Step(f[k - 1], k - 1) ELSE f[k - 1]]
           h == CHOOSE f : f = Loop(f)
           table == [m \in S |-> [v \in V |-> Step(v, m)]]
<1>1. N \in Nat /\ base \in V
  <2>1. {} \in SUBSET Decisions(n, X)
    OBVIOUS
  <2> QED
    BY <2>1, LastNodeBounds, OutcomesQuiet
<1>2. ForEach(S, base, LAMBDA q, m : Then(q, Severed(q.st, m))) = h[N]
  BY DEF ForEach
<1>3. \A m \in S, v \in V : /\ Step(v, m) \in V
                            /\ Step(v, m).st.table.nbrs \subseteq v.st.table.nbrs \ {m}
  <2> TAKE m \in S, v \in V
  <2> DEFINE q == Severed(v.st, m)
  <2>1. v.st \in Sane(n, X)
    BY DEF Outcomes, Results
  <2>2. q \in Outcomes(n, X, v.st) /\ q.st.table.nbrs \subseteq v.st.table.nbrs \ {m}
    BY <2>1, SeveredType
  <2> HIDE DEF q
  <2>3. Then(v, q) \in V /\ Then(v, q).st = q.st
    <3>1. Then(v, q) \in V
      BY <2>2, OutcomesThen
    <3> QED
      BY <3>1 DEF Then, Result
  <2> QED
    BY <2>2, <2>3 DEF q
<1> HIDE DEF N, V, Step, base
<1>4. table \in [S -> [V -> V]] /\ \A m \in S, v \in V : table[m][v] = Step(v, m)
  BY <1>3
<1>5. h = Loop(h)
  <2> HIDE DEF table
  <2>1. PICK g : Loops(g, N, V, base, S, table)
    BY <1>1, <1>4, LoopExists
  <2>2. \A k \in 1 .. N : g[k - 1] \in V
    BY <1>1, <2>1 DEF Loops
  <2>3. g = Loop(g)
    BY <1>1, <1>4, <2>1, <2>2 DEF Loops
  <2> HIDE DEF Loop
  <2> QED
    BY <2>3
<1> HIDE DEF h, table
<1>6. /\ h[0] = base
      /\ \A k \in 1 .. N : h[k] = IF k - 1 \in S THEN Step(h[k - 1], k - 1) ELSE h[k - 1]
  <2>1. h[0] = base
    BY <1>1, <1>5
  <2>2. \A k \in 1 .. N : h[k] = IF k - 1 \in S THEN Step(h[k - 1], k - 1) ELSE h[k - 1]
    BY <1>1, <1>5
  <2> QED
    BY <2>1, <2>2
<1> DEFINE severed(k) == {m \in S : m < k}
           T == {k \in 0 .. N : h[k] \in V /\ severed(k) \cap h[k].st.table.nbrs = {}}
<1>7. 0 \in T
  <2>1. severed(0) = {}
    <3>1. \A m \in S : m \in Nat /\ ~ (m < 0)
      BY PheromoneBounds
    <3> QED
      BY <3>1
  <2> QED
    BY <1>1, <1>6, <2>1
<1>8. ASSUME NEW k \in 1 .. N, k - 1 \in T PROVE k \in T
  <2>1. h[k - 1] \in V /\ severed(k - 1) \cap h[k - 1].st.table.nbrs = {}
    BY <1>8
  <2>2. \A m \in severed(k) : m \in severed(k - 1) \/ m = k - 1
    BY PheromoneBounds
  <2>3. CASE k - 1 \in S
    <3>1. h[k] = Step(h[k - 1], k - 1)
      BY <1>6, <2>3
    <3>2. h[k] \in V /\ h[k].st.table.nbrs \subseteq h[k - 1].st.table.nbrs \ {k - 1}
      BY <1>3, <2>1, <2>3, <3>1
    <3> HIDE DEF severed
    <3> QED
      BY <2>1, <2>2, <3>2
  <2>4. CASE k - 1 \notin S
    <3>1. h[k] = h[k - 1] /\ \A m \in severed(k) : m # k - 1
      BY <1>6, <2>4
    <3> HIDE DEF severed
    <3> QED
      BY <2>1, <2>2, <3>1
  <2> QED
    BY <2>3, <2>4
<1>9. N \in T
  <2> HIDE DEF T
  <2>1. 0 .. N \subseteq T
    BY <1>1, <1>7, <1>8, BoundedInduction
  <2> QED
    BY <1>1, <2>1
<1>10. severed(N) = S
  <2>1. \A m \in S : m < N
    BY LastNodeBounds, PheromoneBounds DEF N
  <2> QED
    BY <2>1
<1>11. h[N] \in V /\ S \cap h[N].st.table.nbrs = {}
  <2> HIDE DEF severed
  <2> QED
    BY <1>9, <1>10
<1> HIDE DEF T
<1>12. LET r == ForEach(S, base, LAMBDA q, m : Then(q, Severed(q.st, m)))
       IN r \in Outcomes(n, X, s) /\ S \cap r.st.table.nbrs = {}
  BY <1>2, <1>11, Zenon DEF V
<1> QED
  BY <1>12, Zenon DEF base

\* Every advert of a note sets or removes the entry through the reporter.
LEMMA ApplyAdvertType ==
  ASSUME NEW n \in Nodes, NEW X, NEW s \in Sane(n, X), NEW adverts \in Adverts,
         NEW reporter \in s.table.nbrs, NEW d \in DOMAIN adverts
  PROVE  LET u == [s EXCEPT !.table = ApplyAdvert(s, adverts, reporter, d)]
         IN u \in Sane(n, X) /\ u.table.nbrs = s.table.nbrs
<1> DEFINE t == ApplyAdvert(s, adverts, reporter, d)
<1>1. s.table \in Tables /\ reporter \in Nodes
  BY DEF Sane, Routers, Tables
<1>2. d \in Nodes /\ adverts[d] \in Values /\ Discounted(adverts[d]) \in Values
  BY AdvertsType, ValueTypes
<1>3. t \in Tables /\ t.nbrs = s.table.nbrs
  <2>1. CASE adverts[d] <= MinPheromone
    BY <1>1, <1>2, <2>1, RemoveRegularType DEF ApplyAdvert
  <2>2. CASE ~ (adverts[d] <= MinPheromone)
    <3>1. SetRegular(s.table, d, reporter, Discounted(adverts[d])) \in Tables
      BY <1>1, <1>2, SetRegularType
    <3>2. SetRegular(s.table, d, reporter, Discounted(adverts[d])).nbrs = s.table.nbrs \cup {reporter}
      BY <1>1, <1>2, SetRegularType
    <3> QED
      BY <2>2, <3>1, <3>2 DEF ApplyAdvert
  <2> QED
    BY <2>1, <2>2
<1> HIDE DEF t
<1>4. [s EXCEPT !.table = t].table = t
  BY DEF Sane, Routers
<1>5. [s EXCEPT !.table = t] \in Sane(n, X)
  BY <1>3, SameNeighbors
<1> QED
  BY <1>3, <1>4, <1>5 DEF t

\* handleLinkFail's loop over the adverts.
AdvertsApplied(S, s, adverts, reporter) ==
  ForEach(S, s, LAMBDA t, d : [t EXCEPT !.table = ApplyAdvert(t, adverts, reporter, d)])

\* The loop of handleLinkFail over the adverts of a note.
LEMMA AdvertsAppliedType ==
  ASSUME NEW n \in Nodes, NEW X, NEW s \in Sane(n, X), NEW adverts \in Adverts,
         NEW reporter \in s.table.nbrs, NEW S \in SUBSET DOMAIN adverts
  PROVE  AdvertsApplied(S, s, adverts, reporter) \in {u \in Sane(n, X) : reporter \in u.table.nbrs}
<1> DEFINE N == LastNode + 1
           V == {u \in Sane(n, X) : reporter \in u.table.nbrs}
           Step(v, d) == [v EXCEPT !.table = ApplyAdvert(v, adverts, reporter, d)]
           Loop(f) == [k \in 0 .. N |->
                         IF k = 0 THEN s
                         ELSE IF k - 1 \in S THEN Step(f[k - 1], k - 1) ELSE f[k - 1]]
           h == CHOOSE f : f = Loop(f)
           table == [m \in S |-> [v \in V |-> Step(v, m)]]
<1>1. N \in Nat /\ s \in V
  BY LastNodeBounds
<1>2. AdvertsApplied(S, s, adverts, reporter) = h[N]
  BY DEF AdvertsApplied, ForEach
<1>3. \A m \in S, v \in V : Step(v, m) \in V
  <2> TAKE m \in S, v \in V
  <2>1. v \in Sane(n, X) /\ reporter \in v.table.nbrs /\ m \in DOMAIN adverts
    OBVIOUS
  <2>2. Step(v, m) \in Sane(n, X) /\ Step(v, m).table.nbrs = v.table.nbrs
    BY <2>1, ApplyAdvertType
  <2> QED
    BY <2>1, <2>2
<1> HIDE DEF N, V, Step
<1>4. table \in [S -> [V -> V]] /\ \A m \in S, v \in V : table[m][v] = Step(v, m)
  BY <1>3
<1>5. h = Loop(h)
  <2> HIDE DEF table
  <2>1. PICK g : Loops(g, N, V, s, S, table)
    BY <1>1, <1>4, LoopExists
  <2>2. \A k \in 1 .. N : g[k - 1] \in V
    BY <1>1, <2>1 DEF Loops
  <2>3. g = Loop(g)
    BY <1>1, <1>4, <2>1, <2>2 DEF Loops
  <2> HIDE DEF Loop
  <2> QED
    BY <2>3
<1> HIDE DEF h, table
<1>6. h[0] = s /\ h[0] \in V
  BY <1>1, <1>5
<1>7. ASSUME NEW k \in 1 .. N, h[k - 1] \in V PROVE h[k] \in V
  <2>1. h[k] = IF k - 1 \in S THEN Step(h[k - 1], k - 1) ELSE h[k - 1]
    BY <1>1, <1>5
  <2> QED
    BY <1>3, <1>7, <2>1
<1>8. h[N] \in V
  BY <1>1, <1>6, <1>7, RecursiveFunctionType
<1> QED
  BY <1>2, <1>8, Zenon DEF V

\* A note is only taken from a neighbour.
LEMMA HandleLinkFailType ==
  ASSUME NEW n \in Nodes, NEW X, NEW s \in Sane(n, X), NEW note \in Ants,
         note.budget \in 0 .. RepairMaxBroadcasts - 1, NEW reporter \in s.table.nbrs
  PROVE  HandleLinkFail(s, note, reporter) \in Results(n, X)
<1> DEFINE about   == DOMAIN note.dests \ {s.self}
           applied == ForEach(about, s,
                         LAMBDA t, d : [t EXCEPT !.table = ApplyAdvert(t, note.dests, reporter, d)])
           After(d) == BestRegular(applied.table, d)
           passOn  == {d \in about :
                         /\ s.table.reg[d][reporter] > MinPheromone
                         /\ After(d) < BestRegular(s.table, d)
                         /\ ~ (EnableMultipath /\ After(d) > MinPheromone)}
           f == [d \in passOn |-> After(d)]
<1>1. HandleLinkFail(s, note, reporter) \in {Result(applied, {}), Note(applied, f, note.budget)}
  BY Zenon DEF HandleLinkFail
<1>2. note.dests \in Adverts /\ note.budget \in Int
  BY DEF Ants
<1>3. about \in SUBSET DOMAIN note.dests /\ about \in SUBSET Nodes
  BY <1>2, AdvertsType
<1>4. passOn \in SUBSET Nodes
  BY <1>3
<1> HIDE DEF about
<1>5. applied \in {u \in Sane(n, X) : reporter \in u.table.nbrs}
  <2>1. applied = AdvertsApplied(about, s, note.dests, reporter)
    BY DEF AdvertsApplied
  <2> HIDE DEF applied
  <2> QED
    BY <1>2, <1>3, <2>1, AdvertsAppliedType
<1> HIDE DEF applied, passOn
<1>6. applied \in Sane(n, X) /\ applied.table \in Tables
  BY <1>5 DEF Sane, Routers
<1>7. f \in [passOn -> Values]
  BY <1>4, <1>6, BestRegularType
<1> HIDE DEF f
<1>8. f \in Adverts
  BY <1>4, <1>7, AdvertsOf
<1>9. Note(applied, f, note.budget) \in Results(n, X)
  <2>1. note.budget \in 0 .. RepairMaxBroadcasts /\ note.budget # RepairMaxBroadcasts
    BY RouterBounds
  <2> QED
    BY <1>6, <1>8, <2>1, NoteType
<1>10. Result(applied, {}) \in Results(n, X)
  BY <1>6, ResultType
<1> QED
  BY <1>1, <1>9, <1>10

\* Noting a data session starts its clock.
LEMMA NoteDataSessionType ==
  ASSUME NEW n, NEW X, NEW s \in Sane(n, X), NEW d \in Nodes
  PROVE  NoteDataSession(s, d) \in Sane(n, X)
<1> DEFINE u == [s EXCEPT !.session[d] = 0]
<1>1. s \in Routers(n, X)
  BY DEF Sane
<1>2. u \in Routers(n, X) /\ u.table = s.table /\ u.idle = s.idle /\ u.fails = s.fails
  BY <1>1 DEF Routers, Clocks, Ages
<1>3. NoteDataSession(s, d) \in {s, u}
  BY DEF NoteDataSession
<1> HIDE DEF u
<1>4. u \in Sane(n, X)
  BY <1>2, StaysSane
<1> QED
  BY <1>3, <1>4

\* A hello draws a sequence number and is flooded in the name of its node.
LEMMA HelloAntType ==
  ASSUME NEW n \in Nodes, NEW X, NEW s \in Sane(n, X)
  PROVE  /\ HelloAnt(s).st \in Sane(n, X)
         /\ HelloAnt(s).ant \in Ants
         /\ Flood(HelloAnt(s).ant) \in Decisions(n, X)
<1> DEFINE best == [d \in Nodes |-> BestRegular(s.table, d)]
           t == NextSeq(s)
           a == NewAnt(t, "hello", NoNode, -1)
<1>1. PICK C \in SUBSET Nodes :
        HelloAnt(s) = [st |-> t, ant |-> [a EXCEPT !.dests = IF EnableProactive /\ EnableDiffusion
                                                             THEN [d \in C |-> best[d]] ELSE NoDests]]
  BY DEF HelloAnt
<1>2. s.table \in Tables
  BY DEF Sane, Routers
<1> DEFINE dests == IF EnableProactive /\ EnableDiffusion THEN [d \in C |-> best[d]] ELSE NoDests
           b == [a EXCEPT !.dests = dests]
<1>3. dests \in Adverts
  <2> DEFINE f == [d \in C |-> best[d]]
  <2>1. f \in [C -> Values]
    BY <1>2, BestRegularType
  <2> HIDE DEF f
  <2>2. f \in Adverts
    BY <2>1, AdvertsOf
  <2> QED
    BY <2>2, NoDestsType DEF f
<1>4. t \in Sane(n, X)
  BY NextSeqType
<1> HIDE DEF dests, t
<1>5. a \in Ants /\ a.src = n /\ a.dir = "up" /\ a.type = "hello"
  BY <1>4, NewAntType DEF AntTypes
<1> HIDE DEF a
<1>6. b \in Ants /\ b.src = n /\ b.dir = "up" /\ b.type = "hello"
  BY <1>3, <1>5 DEF Ants
<1>7. HelloAnt(s).st = t /\ HelloAnt(s).ant = b
  BY <1>1 DEF dests
<1> HIDE DEF b
<1>8. Flood(b) \in Decisions(n, X)
  BY <1>6, SendType
<1> QED
  BY <1>4, <1>6, <1>7, <1>8

\* The roulette wheel stops at a neighbour, or nowhere.
LEMMA ChoicesType ==
  ASSUME NEW n, NEW X, NEW s \in Sane(n, X), NEW d, NEW proactive, NEW exclude
  PROVE  NextHopChoices(s.table, d, proactive, exclude) \subseteq s.table.nbrs \cup {NoNode}
<1>1. \A S : DrawFrom(s.table, d, proactive, S) \subseteq S
  BY DEF DrawFrom
<1>2. NextHopChoices(s.table, d, proactive, exclude) \in
        {DrawFrom(s.table, d, proactive, s.table.nbrs \ {exclude}),
         DrawFrom(s.table, d, proactive, s.table.nbrs), {NoNode}}
  BY DEF NextHopChoices
<1> QED
  BY <1>1, <1>2

\* Neighbours are nodes.
LEMMA NeighborsAreNodes ==
  ASSUME NEW n, NEW X, NEW s \in Sane(n, X)
  PROVE  s.table.nbrs \subseteq Nodes
  BY DEF Sane, Routers, Tables

\* A forward ant made after another handler.
LEMMA EmitType ==
  ASSUME NEW n \in Nodes, NEW X, NEW r \in Results(n, X), NEW d \in Nodes,
         NEW type \in {"proactive", "reactive"}, NEW m \in Nodes \cup {NoNode}
  PROVE  LET t == NextSeq(r.st)
             ant == ForwardAnt(t, type, d)
         IN /\ Result(t, r.out \cup {Flood(ant)}) \in Results(n, X)
            /\ Result(t, r.out \cup {Send(m, ant)}) \in Results(n, X)
<1> DEFINE t == NextSeq(r.st)
           a == ForwardAnt(t, type, d)
<1>1. r.st \in Sane(n, X) /\ r.out \in SUBSET Decisions(n, X)
  BY DEF Results
<1>2. t \in Sane(n, X)
  BY <1>1, NextSeqType
<1> HIDE DEF t
<1>3. a \in Ants /\ a.dir = "up" /\ a.type = type
  BY <1>2, ForwardAntType
<1> HIDE DEF a
<1>4. Flood(a) \in Decisions(n, X) /\ Send(m, a) \in Decisions(n, X)
  BY <1>3, SendType
<1>5. /\ Result(t, r.out \cup {Flood(a)}) \in Results(n, X)
      /\ Result(t, r.out \cup {Send(m, a)}) \in Results(n, X)
  BY <1>1, <1>2, <1>4, ResultType
<1> QED
  BY <1>5 DEF a, t

\* createProactiveAnts: an ant for every session, each to one of the hops drawn for it.
LEMMA ProactiveAntsType ==
  ASSUME NEW n \in Nodes, NEW X, NEW s \in Sane(n, X)
  PROVE  ProactiveAnts(s) \in SUBSET Results(n, X)
<1> DEFINE N == LastNode + 1
           V == SUBSET Results(n, X)
           base == {Result(s, {})}
           Emitted(r, d, m) ==
             LET t == NextSeq(r.st)
                 ant == ForwardAnt(t, "proactive", d)
             IN Result(t, r.out \cup {IF m = NoNode THEN Flood(ant) ELSE Send(m, ant)})
           Step(v, d) == UNION {{Emitted(r, d, m) : m \in NextHopChoices(s.table, d, TRUE, NoNode)} : r \in v}
           S == IF EnableProactive
                THEN {d \in ActiveDestinations(s) : ShouldSendProactive(s, d)} ELSE {}
           Loop(f) == [k \in 0 .. N |->
                         IF k = 0 THEN base
                         ELSE IF k - 1 \in S THEN Step(f[k - 1], k - 1) ELSE f[k - 1]]
           h == CHOOSE f : f = Loop(f)
           table == [m \in S |-> [v \in V |-> Step(v, m)]]
<1>1. N \in Nat /\ base \in V
  <2>1. Result(s, {}) \in Results(n, X)
    BY ResultType
  <2> QED
    BY <2>1, LastNodeBounds
<1>2. ProactiveAnts(s) = h[N]
  BY DEF ProactiveAnts, ForEach
<1>3. \A m \in S, v \in V : Step(v, m) \in V
  <2> TAKE d \in S, v \in V
  <2>1. d \in Nodes
    BY DEF ActiveDestinations
  <2>2. NextHopChoices(s.table, d, TRUE, NoNode) \subseteq Nodes \cup {NoNode}
    BY ChoicesType, NeighborsAreNodes
  <2>3. ASSUME NEW r \in v, NEW m \in NextHopChoices(s.table, d, TRUE, NoNode)
        PROVE  Emitted(r, d, m) \in Results(n, X)
    <3>1. r \in Results(n, X) /\ m \in Nodes \cup {NoNode}
      BY <2>2
    <3> QED
      BY <2>1, <3>1, EmitType
  <2> HIDE DEF Emitted
  <2>4. ASSUME NEW x \in Step(v, d) PROVE x \in Results(n, X)
    <3>1. PICK r \in v, m \in NextHopChoices(s.table, d, TRUE, NoNode) : x = Emitted(r, d, m)
      OBVIOUS
    <3> QED
      BY <2>3, <3>1
  <2> QED
    BY <2>4
<1> HIDE DEF N, V, Step, S, base
<1>4. table \in [S -> [V -> V]] /\ \A m \in S, v \in V : table[m][v] = Step(v, m)
  BY <1>3
<1>5. h = Loop(h)
  <2> HIDE DEF table
  <2>1. PICK g : Loops(g, N, V, base, S, table)
    BY <1>1, <1>4, LoopExists
  <2>2. \A k \in 1 .. N : g[k - 1] \in V
    BY <1>1, <2>1 DEF Loops
  <2>3. g = Loop(g)
    BY <1>1, <1>4, <2>1, <2>2 DEF Loops
  <2> HIDE DEF Loop
  <2> QED
    BY <2>3
<1> HIDE DEF h, table
<1>6. h[0] = base /\ h[0] \in V
  BY <1>1, <1>5
<1>7. ASSUME NEW k \in 1 .. N, h[k - 1] \in V PROVE h[k] \in V
  <2>1. h[k] = IF k - 1 \in S THEN Step(h[k - 1], k - 1) ELSE h[k - 1]
    BY <1>1, <1>5
  <2> QED
    BY <1>3, <1>7, <2>1
<1>8. h[N] \in V
  BY <1>1, <1>6, <1>7, RecursiveFunctionType
<1> QED
  BY <1>2, <1>8, Zenon DEF V

\* ReactiveRetryTimerExpire: a flood for every held destination without a route.
FloodsAgain(S, r0) ==
  LET Emit(r, d) == LET t == NextSeq(r.st)
                    IN Result(t, r.out \cup {Flood(ForwardAnt(t, "reactive", d))})
  IN ForEach(S, r0, Emit)

\* However many destinations are held, a retry leaves the router sane.
LEMMA FloodsAgainType ==
  ASSUME NEW n \in Nodes, NEW X, NEW r0 \in Results(n, X), NEW S \in SUBSET Nodes
  PROVE  FloodsAgain(S, r0) \in Results(n, X)
<1> DEFINE N == LastNode + 1
           V == Results(n, X)
           Step(v, d) == Result(NextSeq(v.st), v.out \cup {Flood(ForwardAnt(NextSeq(v.st), "reactive", d))})
           Loop(f) == [k \in 0 .. N |->
                         IF k = 0 THEN r0
                         ELSE IF k - 1 \in S THEN Step(f[k - 1], k - 1) ELSE f[k - 1]]
           h == CHOOSE f : f = Loop(f)
           table == [m \in S |-> [v \in V |-> Step(v, m)]]
<1>1. N \in Nat /\ r0 \in V
  BY LastNodeBounds
<1>2. FloodsAgain(S, r0) = h[N]
  BY DEF FloodsAgain, ForEach
<1>3. \A m \in S, v \in V : Step(v, m) \in V
  BY EmitType
<1> HIDE DEF N, V, Step
<1>4. table \in [S -> [V -> V]] /\ \A m \in S, v \in V : table[m][v] = Step(v, m)
  BY <1>3
<1>5. h = Loop(h)
  <2> HIDE DEF table
  <2>1. PICK g : Loops(g, N, V, r0, S, table)
    BY <1>1, <1>4, LoopExists
  <2>2. \A k \in 1 .. N : g[k - 1] \in V
    BY <1>1, <2>1 DEF Loops
  <2>3. g = Loop(g)
    BY <1>1, <1>4, <2>1, <2>2 DEF Loops
  <2> HIDE DEF Loop
  <2> QED
    BY <2>3
<1> HIDE DEF h, table
<1>6. h[0] = r0 /\ h[0] \in V
  BY <1>1, <1>5
<1>7. ASSUME NEW k \in 1 .. N, h[k - 1] \in V PROVE h[k] \in V
  <2>1. h[k] = IF k - 1 \in S THEN Step(h[k - 1], k - 1) ELSE h[k - 1]
    BY <1>1, <1>5
  <2> QED
    BY <1>3, <1>7, <2>1
<1>8. h[N] \in V
  BY <1>1, <1>6, <1>7, RecursiveFunctionType
<1> QED
  BY <1>2, <1>8, Zenon DEF V

-----------------------------------------------------------------------------
(* Reception *)

\* X with other filters, and X with other bounds on the failures.
Renewed(X, H, G) ==
  [hist |-> H, gens |-> G, near |-> X.near, most |-> X.most,
   notify |-> X.notify, repair |-> X.repair, loud |-> X.loud]

AtMost(X, most) ==
  [hist |-> X.hist, gens |-> X.gens, near |-> X.near, most |-> most,
   notify |-> X.notify, repair |-> X.repair, loud |-> X.loud]

\* Decisions do not depend on the filters.
LEMMA RenewedDecisions ==
  ASSUME NEW n, NEW X, NEW H, NEW G
  PROVE  Decisions(n, Renewed(X, H, G)) = Decisions(n, X)
  BY DEF Decisions, Renewed

\* A router whose filters alone are others.
Filtered(s, h, g) == [s EXCEPT !.hist = h, !.gens = g]

\* Other filters leave a router sane.
LEMMA RenewedType ==
  ASSUME NEW n, NEW X, NEW s \in Sane(n, X), NEW h, NEW g
  PROVE  Filtered(s, h, g) \in Sane(n, Renewed(X, {h}, {g}))
<1> DEFINE u == Filtered(s, h, g)
           Y == Renewed(X, {h}, {g})
<1>1. /\ Y.hist = {h} /\ Y.gens = {g} /\ Y.near = X.near /\ Y.most = X.most
      /\ Y.notify = X.notify /\ Y.repair = X.repair
  BY DEF Renewed
<1>2. s \in Routers(n, X) /\ s.table.nbrs = Known(s) /\ X.near \subseteq s.table.nbrs
      /\ \A m \in Nodes : X.most[m] \in Nat /\ s.fails[m] <= X.most[m]
  BY DEF Sane
<1> HIDE DEF Y
<1>3. u \in Routers(n, Y) /\ u.table = s.table /\ u.idle = s.idle /\ u.fails = s.fails
  BY <1>1, <1>2 DEF Routers, Filtered
<1> HIDE DEF u
<1>4. u \in Sane(n, Y)
  BY <1>1, <1>2, <1>3 DEF Sane, Known
<1> QED
  BY <1>4 DEF u, Y

\* Recording a generation changes a filter and nothing else.
LEMMA NotedType ==
  ASSUME NEW n, NEW X, NEW s \in Sane(n, X), NEW ant
  PROVE  \E H, G : Noted(s, ant) \in Sane(n, Renewed(X, H, G))
<1> DEFINE g == Admit(s.gens, Key(ant), Len(ant.visited), ant.time, FirstHop(s, ant))
           h == Record(s.hist, Key(ant))
<1>1. s \in Routers(n, X)
  BY DEF Sane
<1>2. Noted(s, ant) \in {[s EXCEPT !.gens = g], [s EXCEPT !.hist = h]}
  BY <1>1 DEF Noted, Routers
<1> HIDE DEF g, h
<1>3. [s EXCEPT !.gens = g] = Filtered(s, s.hist, g) /\ [s EXCEPT !.hist = h] = Filtered(s, h, s.gens)
  BY <1>1 DEF Routers, Filtered
<1>4. /\ Filtered(s, s.hist, g) \in Sane(n, Renewed(X, {s.hist}, {g}))
      /\ Filtered(s, h, s.gens) \in Sane(n, Renewed(X, {h}, {s.gens}))
  BY RenewedType
<1> QED
  BY <1>2, <1>3, <1>4

\* An ant stamped by a node ends in that node, and was not launched there.
LEMMA StampType ==
  ASSUME NEW n \in Nodes, NEW X, NEW s \in Sane(n, X), NEW ant \in Ants, NEW dt \in Int
  PROVE  /\ Stamp(s, ant, dt) \in Ants
         /\ Stamp(s, ant, dt).type = ant.type /\ Stamp(s, ant, dt).dir = ant.dir
         /\ Stamp(s, ant, dt).src = ant.src
         /\ Stamp(s, ant, dt).visited # << >> /\ Last(Stamp(s, ant, dt).visited) = n
         /\ ant.visited # << >> => Stamp(s, ant, dt).visited # <<n>>
<1> DEFINE v == Append(ant.visited, n)
           x == ant.time + dt
<1>1. s.self = n
  BY DEF Sane, Routers
<1>2. Stamp(s, ant, dt) = [ant EXCEPT !.visited = v, !.time = x]
  BY <1>1 DEF Stamp, Ants
<1>3. /\ v \in Seq(Nodes) /\ v # << >> /\ Last(v) = n /\ x \in Int
      /\ ant.visited # << >> => v # <<n>>
  <2>1. ant.visited \in Seq(Nodes) /\ ant.time \in Int /\ Len(ant.visited) \in Nat
    BY DEF Ants
  <2>2. v \in Seq(Nodes) /\ v # << >> /\ Len(v) = Len(ant.visited) + 1 /\ v[Len(ant.visited) + 1] = n
    BY <2>1, AppendProperties
  <2>3. ant.visited # << >> => Len(ant.visited) # 0
    BY <2>1, EmptySeq
  <2>4. Len(<<n>>) = 1
    OBVIOUS
  <2> QED
    BY <2>1, <2>2, <2>3, <2>4 DEF Last
<1> HIDE DEF v, x
<1> QED
  BY <1>2, <1>3 DEF Ants

\* A backward ant goes to the top of its stack, with its sender as the last it retraced.
LEMMA SendBackType ==
  ASSUME NEW n \in Nodes, NEW X, NEW ant \in Ants, ant.dir = "down", ant.type \notin {"hello", "linkfail"},
         ant.visited # << >>, Last(ant.visited) = n
  PROVE  SendBack(ant) \in SUBSET Decisions(n, X)
<1> DEFINE v == Front(ant.visited)
           h == Append(ant.history, Last(ant.visited))
           b == [ant EXCEPT !.visited = v, !.history = h]
<1>1. Advance(ant) = b
  BY DEF Advance, Ants
<1>2. v \in Seq(Nodes)
  <2>1. ant.visited \in Seq(Nodes) /\ Len(ant.visited) \in Nat /\ Len(ant.visited) # 0
    BY DEF Ants
  <2> QED
    BY <2>1, SubSeqProperties DEF Front
<1>3. h \in Seq(Nodes) /\ h # << >> /\ Last(h) = n
  BY AppendProperties DEF Ants, Last
<1> HIDE DEF v, h
<1>4. b \in Ants /\ b.visited = v /\ b.history = h /\ b.dir = "down" /\ b.type \notin {"hello", "linkfail"}
  BY <1>2, <1>3 DEF Ants
<1>5. SendBack(ant) = IF v = << >> THEN {} ELSE {Send(Last(v), b)}
  BY <1>1, <1>4 DEF SendBack
<1> HIDE DEF b
<1>6. ASSUME v # << >> PROVE Send(Last(v), b) \in Decisions(n, X)
  <2>1. Last(v) \in Nodes
    <3>1. Len(v) \in Nat /\ Len(v) # 0
      BY <1>2, <1>6
    <3> QED
      BY <1>2, <3>1, ElementOfSeq DEF Last
  <2> QED
    BY <1>3, <1>4, <1>6, <2>1 DEF Send, Decisions, OnTrack, IsLaunch
<1> QED
  BY <1>5, <1>6

\* Sending an ant on may use up an allowance of its generation.
LEMMA ExploreType ==
  ASSUME NEW n \in Nodes, NEW X, NEW s \in Sane(n, X), NEW ant \in Ants, NEW dt \in Int,
         ant.dir = "up", ant.type \notin {"hello", "linkfail"}, ant.type = "repair" => ant.visited # << >>
  PROVE  \E H, G : Explore(s, ant, dt) \in Results(n, Renewed(X, H, G))
<1> DEFINE g == ClaimBroadcast(s.gens, Key(ant), s.cap)
           b == Stamp(s, ant, dt)
           out == BroadcastForward(b)
           t == [s EXCEPT !.gens = g]
<1>1. Explore(s, ant, dt) \in {Result(s, out), Result(t, out), Result(t, {})}
  BY DEF Explore, Sane, Routers
<1>2. /\ b \in Ants /\ b.dir = "up" /\ b.type = ant.type /\ b.visited # << >>
      /\ ant.visited # << >> => b.visited # <<n>>
  BY StampType
<1> HIDE DEF b, g
<1>3. out \in SUBSET Decisions(n, X)
  BY <1>2, BroadcastForwardType
<1> HIDE DEF out
<1>4. \A H, G : out \in SUBSET Decisions(n, Renewed(X, H, G)) /\ {} \in SUBSET Decisions(n, Renewed(X, H, G))
  BY <1>3, RenewedDecisions
<1>5. s = Filtered(s, s.hist, s.gens) /\ t = Filtered(s, s.hist, g)
  BY DEF Sane, Routers, Filtered
<1> HIDE DEF t
<1>6. /\ s \in Sane(n, Renewed(X, {s.hist}, {s.gens}))
      /\ t \in Sane(n, Renewed(X, {s.hist}, {g}))
  <2>1. /\ Filtered(s, s.hist, s.gens) \in Sane(n, Renewed(X, {s.hist}, {s.gens}))
        /\ Filtered(s, s.hist, g) \in Sane(n, Renewed(X, {s.hist}, {g}))
    BY RenewedType
  <2> QED
    BY <1>5, <2>1
<1>7. /\ Result(s, out) \in Results(n, Renewed(X, {s.hist}, {s.gens}))
      /\ Result(t, out) \in Results(n, Renewed(X, {s.hist}, {g}))
      /\ Result(t, {}) \in Results(n, Renewed(X, {s.hist}, {g}))
  BY <1>4, <1>6, ResultType
<1> QED
  BY <1>1, <1>7

\* A forward ant that has arrived turns into a backward ant on its track.
LEMMA BackAntType ==
  ASSUME NEW n \in Nodes, NEW X, NEW s \in Sane(n, X), NEW ant \in Ants,
         ant.type \notin {"hello", "linkfail"}, ant.visited # << >>, Last(ant.visited) = n
  PROVE  SendBack(BackAnt(s, ant)) \in SUBSET Decisions(n, X)
<1> DEFINE a == NewAnt(s, ant.type, ant.src, ant.budget)
           b == [a EXCEPT !.dir = "down", !.visited = ant.visited]
<1>1. BackAnt(s, ant) = b
  BY DEF BackAnt
<1>2. a \in Ants /\ a.type = ant.type
  <2>1. ant.type \in AntTypes /\ ant.src \in Nodes /\ ant.budget \in Int
    BY DEF Ants
  <2> QED
    BY <2>1, NewAntType
<1> HIDE DEF a
<1>3. b \in Ants /\ b.dir = "down" /\ b.type \notin {"hello", "linkfail"} /\ b.visited = ant.visited
  BY <1>2 DEF Ants
<1> HIDE DEF b
<1> QED
  BY <1>1, <1>3, SendBackType

\* A forward ant is given a node, or none.
LEMMA ForwardChoicesType ==
  ASSUME NEW n, NEW X, NEW s \in Sane(n, X), NEW ant
  PROVE  ForwardChoices(s, ant) \subseteq Nodes \cup {NoNode}
<1> DEFINE proactive == ant.type = "proactive"
<1>1. ForwardChoices(s, ant) \in {NextHopChoices(s.table, ant.dst, proactive, NoNode),
                                  NextHopChoices(s.table, ant.dst, TRUE, NoNode)}
  BY Zenon DEF ForwardChoices
<1> HIDE DEF proactive
<1>2. NextHopChoices(s.table, ant.dst, proactive, NoNode) \subseteq s.table.nbrs \cup {NoNode}
  BY ChoicesType
<1>3. NextHopChoices(s.table, ant.dst, TRUE, NoNode) \subseteq s.table.nbrs \cup {NoNode}
  BY ChoicesType
<1> QED
  BY <1>1, <1>2, <1>3, NeighborsAreNodes

\* Handling a forward ant renews the filters of the router at most.
LEMMA ReceiveForwardType ==
  ASSUME NEW n \in Nodes, NEW X, NEW s \in Sane(n, X), NEW ant \in Ants, NEW dt \in Int,
         ant.dir = "up", ant.type \notin {"hello", "linkfail"}, ant.type = "repair" => ant.visited # << >>,
         NEW r \in ReceiveForward(s, ant, dt)
  PROVE  r \in Results(n, X) \/ \E H, G : r \in Results(n, Renewed(X, H, G))
<1> DEFINE t == NextSeq(s)
           b == Stamp(s, ant, dt)
           back == SendBack(BackAnt(t, Stamp(s, ant, dt)))
<1>1. \/ r = Result(s, {})
      \/ r = Result(t, back)
      \/ r = Explore(s, ant, dt)
      \/ \E m \in ForwardChoices(s, ant) : r = Result(s, {Send(m, b)})
      \/ r = Result(s, BroadcastForward(b))
  <2> DEFINE ways(m) ==
        IF m = NoNode THEN {Explore(s, ant, dt)}
        ELSE {Result(s, {Send(m, b)})} \cup
             (IF ant.type = "proactive" /\ EnableProactive /\ ant.budget # 0
              THEN {Result(s, BroadcastForward(b))} ELSE {})
  <2>1. \/ r \in {Result(s, {}), Result(t, back)}
        \/ r \in UNION {ways(m) : m \in ForwardChoices(s, ant)}
    BY Zenon DEF ReceiveForward
  <2>2. \A m : ways(m) \subseteq
               {Explore(s, ant, dt), Result(s, {Send(m, b)}), Result(s, BroadcastForward(b))}
    OBVIOUS
  <2> HIDE DEF ways, t, b, back
  <2> QED
    BY <2>1, <2>2
<1>2. t \in Sane(n, X)
  BY NextSeqType
<1>3. /\ b \in Ants /\ b.dir = "up" /\ b.type = ant.type /\ b.visited # << >> /\ Last(b.visited) = n
      /\ ant.visited # << >> => b.visited # <<n>>
  BY StampType
<1>4. back \in SUBSET Decisions(n, X)
  BY <1>2, <1>3, BackAntType
<1> HIDE DEF t, b, back
<1>5. CASE r = Result(s, {})
  BY <1>5, ResultType
<1>6. CASE r = Result(t, back)
  BY <1>2, <1>4, <1>6, ResultType
<1>7. CASE r = Explore(s, ant, dt)
  BY <1>7, ExploreType
<1>8. CASE \E m \in ForwardChoices(s, ant) : r = Result(s, {Send(m, b)})
  <2>1. PICK m \in ForwardChoices(s, ant) : r = Result(s, {Send(m, b)})
    BY <1>8
  <2>2. m \in Nodes \cup {NoNode}
    BY ForwardChoicesType
  <2>3. Send(m, b) \in Decisions(n, X)
    BY <1>3, <2>2, SendType
  <2> QED
    BY <2>1, <2>3, ResultType
<1>9. CASE r = Result(s, BroadcastForward(b))
  <2>1. BroadcastForward(b) \in SUBSET Decisions(n, X)
    BY <1>3, BroadcastForwardType
  <2> QED
    BY <1>9, <2>1, ResultType
<1> QED
  BY <1>1, <1>5, <1>6, <1>7, <1>8, <1>9

\* Reinforcing the column of its sender is safe, for the sender is a neighbour by then.
LEMMA ReceiveBackwardType ==
  ASSUME NEW n \in Nodes, NEW X, NEW s \in Sane(n, X), NEW ant \in Ants,
         NEW from \in s.table.nbrs, OnTrack(ant, from, n), ant.dir = "down",
         ant.type \notin {"hello", "linkfail"}
  PROVE  ReceiveBackward(s, ant) \in Results(n, X)
<1> DEFINE table == UpdateRegular(s.table, ant.src, from, BackAntPheromone(ant))
           u == [s EXCEPT !.table = table]
           t == [u EXCEPT !.deadline[ant.src] = Never]
<1>1. /\ ant.src \in Nodes /\ ant.history \in Seq(Nodes)
      /\ ant.history # << >> /\ Last(ant.history) = from
      /\ ant.visited # << >> /\ Last(ant.visited) = n
  BY DEF Ants, OnTrack
<1>2. s.table \in Tables /\ from \in Nodes /\ s.self = n
  BY DEF Sane, Routers, Tables
<1>3. BackAntPheromone(ant) \in Values
  <2>1. Len(ant.history) \in Nat \ {0}
    BY <1>1
  <2> QED
    BY <2>1, ValueTypes DEF BackAntPheromone
<1>4. table \in Tables /\ table.nbrs = s.table.nbrs
  <2>1. table \in Tables
    BY <1>1, <1>2, <1>3, UpdateRegularType
  <2>2. table.nbrs = s.table.nbrs \cup {from}
    BY <1>1, <1>2, <1>3, UpdateRegularType
  <2> QED
    BY <2>1, <2>2
<1>5. ReinforceFromBackAnt(s, ant) = u
  BY <1>1 DEF ReinforceFromBackAnt
<1> HIDE DEF table
<1>6. u \in Sane(n, X)
  BY <1>4, SameNeighbors
<1> HIDE DEF u
<1>7. t \in Sane(n, X)
  BY <1>1, <1>6, DeadlineType
<1>8. ReceiveBackward(s, ant) \in {Result(t, {DeliverTo(ant.src)}), Result(t, {}), Result(t, SendBack(ant))}
  BY <1>5 DEF ReceiveBackward
<1> HIDE DEF t
<1>9. Result(t, {DeliverTo(ant.src)}) \in Results(n, X)
  BY <1>1, <1>7, PlainType, ResultType
<1>10. Result(t, {}) \in Results(n, X)
  BY <1>7, ResultType
<1>11. Result(t, SendBack(ant)) \in Results(n, X)
  BY <1>1, <1>7, SendBackType, ResultType
<1> QED
  BY <1>8, <1>9, <1>10, <1>11

\* onReceiveAnt, of a frame that is on its ant's track: an ant that is accepted makes its
\* sender a neighbour without failures.
LEMMA ReceiveAntType ==
  ASSUME NEW n \in Nodes, NEW X, NEW s \in Sane(n, X), NEW ant \in Ants,
         NEW from \in Nodes \ {n}, OnTrack(ant, from, n), NEW dt \in Int,
         NEW r \in ReceiveAnt(s, ant, from, dt)
  PROVE  \/ ~ Accepts(s, ant) /\ r \in Results(n, X)
         \/ LET most == [m \in Nodes |-> IF m = from THEN 0 ELSE X.most[m]]
            IN \E H, G : r \in Results(n, Renewed(AtMost(X, most), H, G))
<1>1. CASE ~ Accepts(s, ant)
  <2>1. {} \in SUBSET Decisions(n, X)
    OBVIOUS
  <2> QED
    BY <1>1, <2>1, ResultType DEF ReceiveAnt
<1>2. CASE Accepts(s, ant)
  <2> DEFINE most == [m \in Nodes |-> IF m = from THEN 0 ELSE X.most[m]]
             t == LearnNeighbor(Noted(s, ant), from)
             u == LearnNeighbor(t, ant.src)
             virt == UpdateVirtual(u.table, ant.src, ant.dests)
             w == [u EXCEPT !.table = virt]
  <2>1. PICK H, G : Noted(s, ant) \in Sane(n, Renewed(X, H, G))
    BY NotedType
  <2> DEFINE Y == Renewed(AtMost(X, most), H, G)
  <2>2. t \in Sane(n, Y) /\ from \in t.table.nbrs
    <3> DEFINE Z == Renewed(X, H, G)
    <3>1. t \in Sane(n, Z) /\ from \in t.table.nbrs /\ t.fails[from] = 0
      BY <2>1, LearnNeighborType, PheromoneBounds
    <3>2. /\ Y.hist = Z.hist /\ Y.gens = Z.gens /\ Y.near = Z.near /\ Y.notify = Z.notify
          /\ Y.repair = Z.repair /\ Y.most = most /\ Z.most = X.most
      BY DEF Renewed, AtMost
    <3> HIDE DEF t, Y, Z
    <3>3. /\ t \in Routers(n, Z) /\ t.table.nbrs = Known(t) /\ Z.near \subseteq t.table.nbrs
          /\ \A m \in Nodes : X.most[m] \in Nat /\ t.fails[m] <= X.most[m]
      BY <3>1, <3>2 DEF Sane
    <3>4. \A m \in Nodes : most[m] \in Nat /\ t.fails[m] <= most[m]
      BY <3>1, <3>3
    <3> HIDE DEF most
    <3>5. t \in Routers(n, Y)
      BY <3>2, <3>3 DEF Routers
    <3> QED
      BY <3>1, <3>2, <3>3, <3>4, <3>5 DEF Sane
  <2>3. \/ ant.type = "hello" /\ r = Result(w, {})
        \/ ant.type = "linkfail" /\ r = HandleLinkFail(t, ant, from)
        \/ ant.type \notin {"hello", "linkfail"} /\ ant.dir = "up" /\ r \in ReceiveForward(t, ant, dt)
        \/ /\ ant.dir = "down" /\ ant.type \notin {"hello", "linkfail"}
           /\ r = ReceiveBackward(t, ant)
    BY <1>2 DEF ReceiveAnt, Ants, OnTrack
  <2> HIDE DEF t, Y
  <2>4. r \in Results(n, Y) \/ \E H2, G2 : r \in Results(n, Renewed(Y, H2, G2))
    <3>1. CASE ant.type = "hello" /\ r = Result(w, {})
      <4>1. ant.src = from /\ ant.dests \in Adverts
        BY <3>1 DEF OnTrack, Ants
      <4>2. u \in Sane(n, Y) /\ from \in u.table.nbrs
        BY <2>2, <4>1, LearnNeighborType
      <4> HIDE DEF u
      <4>3. virt \in Tables /\ virt.nbrs = u.table.nbrs
        <5>1. u.table \in Tables
          BY <4>2 DEF Sane, Routers
        <5> QED
          BY <4>1, <4>2, <5>1, UpdateVirtualType
      <4> HIDE DEF virt
      <4>4. w \in Sane(n, Y)
        BY <4>2, <4>3, SameNeighbors
      <4> HIDE DEF w
      <4> QED
        BY <3>1, <4>4, ResultType
    <3>2. CASE ant.type = "linkfail" /\ r = HandleLinkFail(t, ant, from)
      <4>1. ant.budget \in 0 .. RepairMaxBroadcasts - 1
        BY <3>2 DEF OnTrack
      <4> QED
        BY <2>2, <3>2, <4>1, HandleLinkFailType
    <3>3. CASE ant.type \notin {"hello", "linkfail"} /\ ant.dir = "up" /\ r \in ReceiveForward(t, ant, dt)
      <4>1. ant.type = "repair" => ant.visited # << >>
        BY <3>3 DEF OnTrack
      <4> QED
        BY <2>2, <3>3, <4>1, ReceiveForwardType
    <3>4. CASE /\ ant.dir = "down" /\ ant.type \notin {"hello", "linkfail"}
               /\ r = ReceiveBackward(t, ant)
      BY <2>2, <3>4, ReceiveBackwardType
    <3> QED
      BY <2>3, <3>1, <3>2, <3>3, <3>4
  <2>5. \A H2, G2 : Renewed(Y, H2, G2) = Renewed(AtMost(X, most), H2, G2)
    BY DEF Y, Renewed, AtMost
  <2>6. Y = Renewed(AtMost(X, most), H, G)
    BY DEF Y
  <2> QED
    BY <2>4, <2>5, <2>6
<1> QED
  BY <1>1, <1>2

-----------------------------------------------------------------------------
(* Data and time *)

\* Data without a route is held; at most a reactive ant is launched for it.
LEMMA HoldDataType ==
  ASSUME NEW n \in Nodes, NEW X, NEW s \in Sane(n, X), NEW d \in Nodes, NEW r \in HoldData(s, d)
  PROVE  r \in Results(n, X)
<1> DEFINE u == NextSeq(s)
           t == [u EXCEPT !.sinceReactive[d] = 0]
           ant == ForwardAnt(t, "reactive", d)
           hops == IF EnableDirectedReactive THEN NextHopChoices(s.table, d, TRUE, NoNode) ELSE {NoNode}
<1>1. \/ r = Result(s, {Hold(d)})
      \/ \E m \in hops : r = Result(t, {Hold(d), IF m = NoNode THEN Flood(ant) ELSE Send(m, ant)})
  BY DEF HoldData
<1>2. Hold(d) \in Decisions(n, X)
  BY PlainType
<1>3. CASE r = Result(s, {Hold(d)})
  BY <1>2, <1>3, ResultType
<1>4. CASE \E m \in hops : r = Result(t, {Hold(d), IF m = NoNode THEN Flood(ant) ELSE Send(m, ant)})
  <2>1. PICK m \in hops : r = Result(t, {Hold(d), IF m = NoNode THEN Flood(ant) ELSE Send(m, ant)})
    BY <1>4
  <2>2. m \in Nodes \cup {NoNode}
    BY ChoicesType, NeighborsAreNodes
  <2>3. u \in Sane(n, X)
    BY NextSeqType
  <2> HIDE DEF u, hops
  <2>4. t \in Sane(n, X)
    <3>1. u \in Routers(n, X)
      BY <2>3 DEF Sane
    <3>2. t \in Routers(n, X) /\ t.table = u.table /\ t.idle = u.idle /\ t.fails = u.fails
      BY <3>1 DEF Routers, Clocks, Ages
    <3> QED
      BY <2>3, <3>2, StaysSane
  <2> HIDE DEF t
  <2>5. ant \in Ants /\ ant.dir = "up" /\ ant.type = "reactive"
    BY <2>4, ForwardAntType
  <2> HIDE DEF ant
  <2>6. Flood(ant) \in Decisions(n, X) /\ Send(m, ant) \in Decisions(n, X)
    BY <2>2, <2>5, SendType
  <2>7. {Hold(d), IF m = NoNode THEN Flood(ant) ELSE Send(m, ant)} \in SUBSET Decisions(n, X)
    BY <1>2, <2>6
  <2> QED
    BY <2>1, <2>4, <2>7, ResultType
<1> QED
  BY <1>1, <1>3, <1>4

\* Data is sent to a node, or held.
LEMMA DataPacketType ==
  ASSUME NEW n \in Nodes, NEW X, NEW s \in Sane(n, X), NEW d \in Nodes,
         NEW prev, NEW r \in DataPacket(s, d, prev)
  PROVE  r \in Results(n, X)
<1>1. \/ r \in HoldData(s, d)
      \/ \E m \in DataChoices(s, d, prev) : r = Result(s, {SendData(m)})
  BY DEF DataPacket
<1>2. CASE r \in HoldData(s, d)
  BY <1>2, HoldDataType
<1>3. CASE \E m \in DataChoices(s, d, prev) : r = Result(s, {SendData(m)})
  <2>1. PICK m \in DataChoices(s, d, prev) : r = Result(s, {SendData(m)})
    BY <1>3
  <2>2. m \in Nodes \cup {NoNode}
    BY ChoicesType, NeighborsAreNodes DEF DataChoices
  <2>3. {SendData(m)} \in SUBSET Decisions(n, X)
    BY <2>2, PlainType
  <2> QED
    BY <2>1, <2>3, ResultType
<1> QED
  BY <1>1, <1>2, <1>3

\* What a unit of time makes of a clock that is forgotten at its bound.
Older(age, bound) == IF age = Never \/ age + 1 >= bound THEN Never ELSE age + 1

\* Clocks that run out are forgotten; the clock of a neighbour is not.
LEMMA AgingType ==
  ASSUME NEW n, NEW X, X.notify = Clocks, X.repair = Clocks, NEW s \in Sane(n, X)
  PROVE  /\ Aging(s) \in Sane(n, X)
         /\ Aging(s).table = s.table /\ Aging(s).fails = s.fails
         /\ \A type \in Limited, d \in Nodes :
              Since(Aging(s), type)[d] = Older(Since(s, type)[d], Interval(type))
<1> DEFINE Grow(ages, bound) ==
             [m \in Nodes |-> IF ages[m] = Never \/ ages[m] + 1 >= bound THEN Never ELSE ages[m] + 1]
           idle     == [m \in Nodes |-> IF s.idle[m] \in 0 .. MaxIdle THEN s.idle[m] + 1 ELSE s.idle[m]]
           deadline == [d \in Nodes |-> IF s.deadline[d] > 0 THEN s.deadline[d] - 1 ELSE s.deadline[d]]
           repair   == Grow(s.sinceRepair, RetryInterval)
           notify   == Grow(s.sinceNotify, NotifyInterval)
           reactive == Grow(s.sinceReactive, RetryInterval)
           session  == Grow(s.session, SessionTtl + 1)
           u == [s EXCEPT !.idle = idle, !.deadline = deadline, !.sinceRepair = repair,
                          !.sinceNotify = notify, !.sinceReactive = reactive, !.session = session]
<1>1. /\ s \in Routers(n, X) /\ s.table.nbrs = Known(s) /\ X.near \subseteq s.table.nbrs
      /\ \A m \in Nodes : X.most[m] \in Nat /\ s.fails[m] <= X.most[m]
  BY DEF Sane
<1>2. Aging(s) = u
  BY <1>1 DEF Aging
<1>3. /\ s.idle \in Clocks /\ s.deadline \in Clocks /\ s.sinceRepair \in Clocks
      /\ s.sinceNotify \in Clocks /\ s.sinceReactive \in Clocks /\ s.session \in Clocks
  BY <1>1 DEF Routers
<1>4. ASSUME NEW ages \in Clocks, NEW bound
      PROVE  /\ Grow(ages, bound) \in Clocks
             /\ \A d \in Nodes : Grow(ages, bound)[d] = Older(ages[d], bound)
  BY DEF Clocks, Ages, Older
<1>5. /\ repair \in Clocks /\ notify \in Clocks /\ reactive \in Clocks /\ session \in Clocks
      /\ \A d \in Nodes : /\ repair[d] = Older(s.sinceRepair[d], RetryInterval)
                          /\ notify[d] = Older(s.sinceNotify[d], NotifyInterval)
  BY <1>3, <1>4
<1>6. idle \in Clocks /\ \A m \in Nodes : idle[m] = Never <=> s.idle[m] = Never
  BY <1>3 DEF Clocks, Ages, Never
<1>7. deadline \in Clocks
  BY <1>3 DEF Clocks, Ages, Never
<1> HIDE DEF idle, deadline, repair, notify, reactive, session
<1>8. u \in Routers(n, X)
  BY <1>1, <1>5, <1>6, <1>7 DEF Routers
<1>9. /\ u.table = s.table /\ u.idle = idle /\ u.fails = s.fails
      /\ u.sinceRepair = repair /\ u.sinceNotify = notify
  BY <1>1 DEF Routers
<1>10. Known(u) = Known(s)
  BY <1>6, <1>9 DEF Known
<1> HIDE DEF u
<1>11. u \in Sane(n, X)
  BY <1>1, <1>8, <1>9, <1>10 DEF Sane
<1>12. ASSUME NEW type \in Limited, NEW d \in Nodes
       PROVE  Since(u, type)[d] = Older(Since(s, type)[d], Interval(type))
  BY <1>5, <1>9 DEF Since, Interval, Limited
<1> QED
  BY <1>2, <1>9, <1>11, <1>12

-----------------------------------------------------------------------------
(* The network *)

\* A router is sane by itself: with the filters, the cooldowns and the failures it has.
Own(s) ==
  [hist |-> {s.hist}, gens |-> {s.gens}, near |-> s.table.nbrs, most |-> s.fails,
   notify |-> {s.sinceNotify}, repair |-> {s.sinceRepair}, loud |-> FALSE]

\* It may launch what its cooldowns allow, lose its neighbours but those in near and count
\* failures up to most.
Loud(s, near, most) ==
  [hist |-> {s.hist}, gens |-> {s.gens}, near |-> near, most |-> most,
   notify |-> Clocks, repair |-> Clocks, loud |-> TRUE]

IsSane(n, s) == s \in Sane(n, Own(s))

\* A frame is on its ant's track.
AirFrames ==
  {f \in [from : Nodes, to : Nodes \cup {NoNode}, mac : {"broadcast", "unicast", "wire", "unacked"}, ant : Ants] :
     OnTrack(f.ant, f.from, f.to)}

\* No node is linked to itself.
Links == {l \in Nodes \X Nodes : l[1] # l[2]}

Ports == [Nodes -> [up : BOOLEAN, heard : SUBSET Nodes, ticks : Nat]]

NodesSane(nd) == nd = [n \in Nodes |-> nd[n]] /\ \A n \in Nodes : IsSane(n, nd[n])

\* A router never has more failures on its count than it was told of since it last accepted
\* an ant of the neighbour.
StreaksCount(nd, str) ==
  /\ str \in [Nodes -> [Nodes -> Nat]]
  /\ \A n, m \in Nodes : nd[n].fails[m] <= str[n][m]

\* The floods of the history.
Floods ==
  [node : Nodes, type : {"linkfail", "repair", "reactive"}, dest : Nodes \cup {NoNode}, seq : Nat, age : Nat]

\* The cooldown of a destination is as old as the last flood launched for it, and not over
\* while the history has that flood.
OriginsTimed(nd, os) ==
  /\ os \in SUBSET Floods
  /\ NotifyInterval # 0 =>
       /\ \A o \in os : o.type \in Limited =>
            /\ o.dest \in Nodes
            /\ o.age < Interval(o.type)
            /\ Since(nd[o.node], o.type)[o.dest] = o.age
       /\ \A o, p \in os :
            o.type \in Limited /\ o.type = p.type /\ o.node = p.node /\ o.dest = p.dest => o.seq = p.seq

\* Inductive: every router keeps its table and its liveness entries in step, the frames in
\* flight are those that such routers send, its counters and cooldowns agree with what happened,
\* and a cable is down at both ends.
IInv ==
  /\ scenario \in Scenarios
  /\ NodesSane(node)
  /\ radio \in SUBSET AirFrames
  /\ held \in [Nodes -> SUBSET Nodes]
  /\ links \in SUBSET Links
  /\ ports \in Ports
  /\ StreaksCount(node, streak)
  /\ OriginsTimed(node, origins)
  /\ \A n \in Nodes : ~ ports[n].up => Wired /\ links = {}

\* A router that is sane under some bounds is sane by itself.
LEMMA SaneIs ==
  ASSUME NEW n, NEW X, NEW s \in Sane(n, X)
  PROVE  IsSane(n, s)
<1>1. /\ s \in Routers(n, X) /\ s.table.nbrs = Known(s)
      /\ s.fails \in [Nodes -> 0 .. TxFailureThreshold - 1]
  BY DEF Sane, Routers
<1>2. \A m \in Nodes : s.fails[m] \in Nat /\ s.fails[m] <= s.fails[m]
  BY <1>1, RouterBounds
<1>3. s \in Routers(n, Own(s))
  BY <1>1 DEF Routers, Own
<1> QED
  BY <1>1, <1>2, <1>3 DEF IsSane, Sane, Own

\* A router that is sane under wider bounds.
LEMMA LoudType ==
  ASSUME NEW n, NEW s, IsSane(n, s), NEW near \in SUBSET s.table.nbrs, NEW most,
         \A m \in Nodes : most[m] \in Nat /\ s.fails[m] <= most[m]
  PROVE  s \in Sane(n, Loud(s, near, most)) /\ Free(Loud(s, near, most))
<1>1. s \in Routers(n, Own(s)) /\ s.table.nbrs = Known(s)
  BY DEF IsSane, Sane
<1>2. s \in Routers(n, Loud(s, near, most))
  BY <1>1 DEF Routers, Own, Loud
<1>3. Free(Loud(s, near, most))
  BY DEF Loud, Free
<1> QED
  BY <1>1, <1>2, <1>3 DEF Sane, Loud

\* What a router makes of itself by quiet handlers, it may be whatever led to it.
LEMMA FromOwn ==
  ASSUME NEW n, NEW X, NEW s \in Sane(n, X), NEW t \in Sane(n, Own(s))
  PROVE  t \in Sane(n, X) /\ t.sinceNotify = s.sinceNotify /\ t.sinceRepair = s.sinceRepair
<1>1. /\ s \in Routers(n, X) /\ X.near \subseteq s.table.nbrs
      /\ \A m \in Nodes : X.most[m] \in Nat /\ s.fails[m] <= X.most[m]
      /\ s.fails \in [Nodes -> 0 .. TxFailureThreshold - 1]
  BY DEF Sane, Routers
<1>2. /\ t \in Routers(n, Own(s)) /\ t.table.nbrs = Known(t) /\ s.table.nbrs \subseteq t.table.nbrs
      /\ \A m \in Nodes : t.fails[m] <= s.fails[m]
      /\ t.fails \in [Nodes -> 0 .. TxFailureThreshold - 1]
  BY DEF Sane, Own, Routers
<1>3. t \in Routers(n, X) /\ t.sinceNotify = s.sinceNotify /\ t.sinceRepair = s.sinceRepair
  BY <1>1, <1>2 DEF Routers, Own
<1>4. \A m \in Nodes : t.fails[m] <= X.most[m]
  <2> TAKE m \in Nodes
  <2>1. t.fails[m] \in Nat /\ s.fails[m] \in Nat /\ X.most[m] \in Nat
    BY <1>1, <1>2, RouterBounds
  <2> QED
    BY <1>1, <1>2, <2>1
<1> QED
  BY <1>1, <1>2, <1>3, <1>4 DEF Sane

\* Where nothing is launched and no cooldown started, floods stay spaced.
LEMMA QuietOutcomes ==
  ASSUME NEW n, NEW X, NEW s, X.loud = FALSE, X.notify = {s.sinceNotify}, X.repair = {s.sinceRepair},
         NEW r \in Results(n, X)
  PROVE  r \in Outcomes(n, X, s)
<1>1. r = Result(r.st, r.out) /\ r.st \in Sane(n, X) /\ r.out \in SUBSET Decisions(n, X)
  BY DEF Results, Result
<1>2. r.st.sinceNotify = s.sinceNotify /\ r.st.sinceRepair = s.sinceRepair
  BY <1>1 DEF Sane, Routers
<1>3. \A x \in r.out : x.ant # NoAnt => ~ IsLaunch(n, x.ant)
  BY <1>1 DEF Decisions
<1>4. Result(r.st, r.out) \in Outcomes(n, X, s)
  BY <1>1, <1>2, <1>3, OutcomesQuiet
<1> QED
  BY <1>1, <1>4

\* A quiet handler after another.
LEMMA QuietThen ==
  ASSUME NEW n, NEW X, NEW s, NEW r \in Outcomes(n, X, s), NEW q \in Results(n, Own(r.st))
  PROVE  Result(q.st, r.out \cup q.out) \in Outcomes(n, X, s)
<1>1. r.st \in Sane(n, X) /\ q.st \in Sane(n, Own(r.st)) /\ q.out \in SUBSET Decisions(n, Own(r.st))
  BY DEF Outcomes, Results
<1>2. q.st \in Sane(n, X) /\ q.st.sinceNotify = r.st.sinceNotify /\ q.st.sinceRepair = r.st.sinceRepair
  BY <1>1, FromOwn
<1>3. q.out \in SUBSET Decisions(n, X) /\ \A x \in q.out : x.ant # NoAnt => ~ IsLaunch(n, x.ant)
  BY <1>1 DEF Decisions, Own
<1>4. q \in Outcomes(n, X, r.st)
  <2>1. Result(q.st, q.out) \in Outcomes(n, X, r.st)
    BY <1>2, <1>3, OutcomesQuiet
  <2>2. q = Result(q.st, q.out)
    BY DEF Results, Result
  <2> QED
    BY <2>1, <2>2
<1>5. Then(r, q) \in Outcomes(n, X, s)
  BY <1>4, OutcomesThen
<1> QED
  BY <1>5 DEF Then

\* A fresh router is sane, with no failure on its count.
LEMMA InitRouterType ==
  ASSUME NEW n \in Nodes, NEW cap \in Int
  PROVE  IsSane(n, InitRouter(n, cap)) /\ \A m \in Nodes : InitRouter(n, cap).fails[m] = 0
<1> DEFINE s == InitRouter(n, cap)
<1>1. EmptyTable \in Tables /\ EmptyTable.nbrs = {}
  BY EmptyTableType
<1>2. SeqModulus - 1 \in Nat /\ 0 \in 0 .. TxFailureThreshold - 1
  BY RouterBounds
<1>3. s \in Routers(n, Own(s))
  BY <1>1, <1>2 DEF InitRouter, Routers, Clocks, Ages, Own
<1>4. s.table = EmptyTable /\ Known(s) = {} /\ \A m \in Nodes : s.fails[m] = 0
  BY DEF InitRouter, Known
<1> HIDE DEF s
<1>5. \A m \in Nodes : Own(s).most[m] \in Nat /\ s.fails[m] <= Own(s).most[m]
  BY <1>4 DEF Own
<1>6. s \in Sane(n, Own(s))
  BY <1>1, <1>3, <1>4, <1>5 DEF Sane, Own
<1>7. IsSane(n, s)
  BY <1>6 DEF IsSane
<1> QED
  BY <1>4, <1>7 DEF s

\* A node starts with the neighbours it has heard, and no failure on its count.
LEMMA WarmType ==
  ASSUME NEW n \in Nodes, scenario \in Scenarios
  PROVE  IsSane(n, Warm(n)) /\ \A m \in Nodes : Warm(n).fails[m] <= 0
<1> DEFINE S == {m \in Nodes : <<n, m>> \in Heard}
           s0 == InitRouter(n, FloodCap)
           X == Own(s0)
           near == ForEach(S, s0, LearnNeighbor)
           Entries(d, m) == {r \in Routes : r[1] = n /\ r[2] = d /\ r[3] = m}
           reg == [d \in Nodes |-> [m \in Nodes |->
                     IF Entries(d, m) = {} THEN near.table.reg[d][m]
                     ELSE Reinforce(near.table.reg[d][m], Deposit((CHOOSE r \in Entries(d, m) : TRUE)[4]))]]
           t == [near.table EXCEPT !.reg = reg]
<1>1. /\ FloodCap \in Int /\ S \in SUBSET Nodes /\ n \notin S
      /\ \A r \in Routes : r[4] \in Nat \ {0} /\ <<r[1], r[3]>> \in Heard
  BY ScenarioAssumption DEF FloodCap, Heard, Routes
<1>2. s0 \in Sane(n, X) /\ \A m \in Nodes : X.most[m] = 0
  BY <1>1, InitRouterType DEF IsSane, Own
<1>3. Warm(n) = [near EXCEPT !.table.reg = reg]
  BY DEF Warm
<1> HIDE DEF s0, X
<1>4. near \in Sane(n, X) /\ S \subseteq near.table.nbrs
  <2>1. near \in Sane(n, X) /\ S \ {n} \subseteq near.table.nbrs
    BY <1>1, <1>2, LearnAllType
  <2> QED
    BY <1>1, <2>1
<1>5. \A d, m \in Nodes : Entries(d, m) # {} => m \in S /\ (CHOOSE r \in Entries(d, m) : TRUE)[4] \in Nat \ {0}
  <2> TAKE d, m \in Nodes
  <2> HAVE Entries(d, m) # {}
  <2>1. (CHOOSE r \in Entries(d, m) : TRUE) \in Entries(d, m)
    OBVIOUS
  <2> QED
    BY <1>1, <2>1
<1> HIDE DEF near, S, Entries
<1>6. near.table \in [nbrs : SUBSET Nodes, reg : Rows, virt : Rows] /\ NoOrphans(near.table)
  BY <1>4 DEF Sane, Routers, Tables
<1>7. \A d, m \in Nodes : /\ reg[d][m] \in Values
                          /\ m \notin S => reg[d][m] = near.table.reg[d][m]
  <2> TAKE d, m \in Nodes
  <2>1. near.table.reg[d][m] \in Values
    BY <1>6 DEF Rows
  <2>2. CASE Entries(d, m) = {}
    BY <2>1, <2>2
  <2>3. CASE Entries(d, m) # {}
    <3>1. m \in S /\ Deposit((CHOOSE r \in Entries(d, m) : TRUE)[4]) \in Values
      BY <1>5, <2>3, ValueTypes
    <3>2. Reinforce(near.table.reg[d][m], Deposit((CHOOSE r \in Entries(d, m) : TRUE)[4])) \in Values
      BY <2>1, <3>1, ValueTypes
    <3> QED
      BY <2>3, <3>1, <3>2
  <2> QED
    BY <2>2, <2>3
<1>8. reg \in Rows
  <2>1. reg = [d \in Nodes |-> [m \in Nodes |-> reg[d][m]]]
    OBVIOUS
  <2> HIDE DEF reg
  <2> QED
    BY <1>7, <2>1 DEF Rows
<1> HIDE DEF reg
<1>9. t \in [nbrs : SUBSET Nodes, reg : Rows, virt : Rows] /\ t.nbrs = near.table.nbrs
  BY <1>6, <1>8
<1>10. NoOrphans(t)
  BY <1>4, <1>6, <1>7 DEF NoOrphans
<1>11. t \in Tables
  BY <1>9, <1>10 DEF Tables
<1>12. Warm(n) = [near EXCEPT !.table = t]
  BY <1>3, <1>4 DEF Sane, Routers
<1> HIDE DEF t
<1>13. Warm(n) \in Sane(n, X)
  BY <1>4, <1>9, <1>11, <1>12, SameNeighbors
<1>14. \A m \in Nodes : Warm(n).fails[m] <= 0
  BY <1>2, <1>13 DEF Sane
<1> QED
  BY <1>13, <1>14, SaneIs

\* The invariant holds at the start.
LEMMA InitIInv == Init => IInv
<1> SUFFICES ASSUME Init PROVE IInv
  OBVIOUS
<1>1. /\ scenario \in Scenarios /\ radio = {} /\ links = InRange /\ origins = {}
      /\ node = [n \in Nodes |-> Warm(n)] /\ streak = [n \in Nodes |-> [m \in Nodes |-> 0]]
  BY DEF Init
<1>2. NodesSane(node)
  BY <1>1, WarmType DEF NodesSane
<1>3. held \in [Nodes -> SUBSET Nodes]
  BY DEF Init
<1>4. links \in SUBSET Links
  BY <1>1, ScenarioAssumption DEF Links, InRange
<1>5. ports \in Ports /\ \A n \in Nodes : ports[n].up
  BY DEF Init, FreshPort, Ports
<1>6. StreaksCount(node, streak)
  BY <1>1, WarmType DEF StreaksCount
<1>7. OriginsTimed(node, origins)
  BY <1>1 DEF OriginsTimed
<1> QED
  BY <1>1, <1>2, <1>3, <1>4, <1>5, <1>6, <1>7 DEF IInv

-----------------------------------------------------------------------------
(* What decisions make of the radio and of the history *)

\* What a node sends stays on track.
LEMMA SentType ==
  ASSUME NEW n \in Nodes, NEW X, NEW out \in SUBSET Decisions(n, X), links \in SUBSET Links
  PROVE  Sent(n, out) \in SUBSET AirFrames
<1>1. ASSUME NEW d \in out, d.ant # NoAnt, NEW f \in Frames(n, d)
      PROVE  f \in AirFrames
  <2>1. /\ d.ant \in Ants /\ d.next \in Nodes \cup {NoNode} /\ OnTrack(d.ant, n, d.next)
        /\ d.act = "broadcast" => d.ant.dir = "up"
    BY <1>1 DEF Decisions
  <2>2. CASE d.act = "broadcast"
    <3>1. PICK m \in Nodes : f = [from |-> n, to |-> m, mac |-> "broadcast", ant |-> d.ant]
      BY <1>1, <2>2 DEF Frames
    <3>2. OnTrack(d.ant, n, m)
      BY <2>1, <2>2 DEF OnTrack
    <3> QED
      BY <2>1, <3>1, <3>2 DEF AirFrames
  <2>3. CASE d.act # "broadcast"
    <3>1. f \in {[from |-> n, to |-> d.next, mac |-> "wire", ant |-> d.ant],
                 [from |-> n, to |-> d.next, mac |-> "unicast", ant |-> d.ant]}
      BY <1>1, <2>3 DEF Frames
    <3> QED
      BY <2>1, <3>1 DEF AirFrames
  <2> QED
    BY <2>2, <2>3
<1>2. ASSUME NEW f \in Sent(n, out) PROVE f \in AirFrames
  <2>1. \E d \in out : d.ant # NoAnt /\ f \in Frames(n, d)
    BY <1>2 DEF Sent
  <2> QED
    BY <1>1, <2>1
<1> QED
  BY <1>2

\* The history records a flood as its ant was launched.
LEMMA LaunchedType ==
  ASSUME NEW n \in Nodes, NEW X, NEW out \in SUBSET Decisions(n, X), NEW o \in Launched(n, out)
  PROVE  /\ o \in Floods /\ o.node = n /\ o.age = 0
         /\ o.type \in Limited => /\ o.dest \in Nodes
                                  /\ \E a \in Launches(n, out, o.type, o.dest) : o.seq = a.seq
<1>1. PICK x \in out :
        LET a == x.ant
        IN \/ /\ a.type = "linkfail" /\ a.budget = RepairMaxBroadcasts - 1
              /\ \E d \in DOMAIN a.dests : o = [node |-> n, type |-> "linkfail", dest |-> d, seq |-> a.seq, age |-> 0]
           \/ /\ a.type \in {"repair", "reactive"} /\ a.dir = "up" /\ a.visited = <<n>>
              /\ o = [node |-> n, type |-> a.type, dest |-> a.dst, seq |-> a.seq, age |-> 0]
  BY DEF Launched
<1> DEFINE a == x.ant
<1>2. a.type \in {"linkfail", "repair", "reactive"}
  BY <1>1
<1>3. a # NoAnt
  BY <1>2 DEF NoAnt
<1>4. a \in Ants /\ (IsLaunch(n, a) => (a.type = "repair" => a.dst \in Nodes))
  BY <1>3 DEF Decisions
<1>5. a \in {y.ant : y \in {z \in out : z.ant # NoAnt}}
  BY <1>3
<1>6. /\ a.seq \in Nat /\ a.dst \in Nodes \cup {NoNode} /\ a.dests \in Adverts
  BY <1>4 DEF Ants
<1>7. CASE /\ a.type = "linkfail" /\ a.budget = RepairMaxBroadcasts - 1
           /\ \E d \in DOMAIN a.dests : o = [node |-> n, type |-> "linkfail", dest |-> d, seq |-> a.seq, age |-> 0]
  <2>1. PICK d \in DOMAIN a.dests : o = [node |-> n, type |-> "linkfail", dest |-> d, seq |-> a.seq, age |-> 0]
    BY <1>7
  <2>2. d \in Nodes
    BY <1>6, AdvertsType
  <2> HIDE DEF a
  <2>3. a \in Launches(n, out, "linkfail", d)
    BY <1>5, <1>7 DEF Launches, IsLaunch
  <2> QED
    BY <1>6, <2>1, <2>2, <2>3 DEF Floods
<1>8. CASE /\ a.type \in {"repair", "reactive"} /\ a.dir = "up" /\ a.visited = <<n>>
           /\ o = [node |-> n, type |-> a.type, dest |-> a.dst, seq |-> a.seq, age |-> 0]
  <2> HIDE DEF a
  <2>1. a.type = "repair" => a.dst \in Nodes /\ a \in Launches(n, out, "repair", a.dst)
    BY <1>4, <1>5, <1>8 DEF Launches, IsLaunch
  <2> QED
    BY <1>6, <1>8, <2>1 DEF Floods, Limited
<1> QED
  BY <1>1, <1>7, <1>8

\* A cooldown that has not run for its interval is not over.
LEMMA NotOver ==
  ASSUME NotifyInterval # 0, NEW s, NEW type \in Limited, NEW d,
         Since(s, type)[d] \in Nat, Since(s, type)[d] < Interval(type)
  PROVE  ~ Ready(s, type, d)
  BY RouterAssumption DEF Limited, Since, Ready, MayNotify, Cooled, Never, Interval

\* Every router goes from nd to nd1 with the decisions out, its floods spaced.
StepsSpaced(nd, nd1, out) ==
  \A m \in Nodes : /\ Spaced(m, nd[m], nd1[m], out[m])
                   /\ \E Y : out[m] \in SUBSET Decisions(m, Y)

\* The history goes from os to os1 by the floods that out launches.
Records(os, os1, out) == os1 \subseteq os \cup UNION {Launched(m, out[m]) : m \in Nodes}

\* Routers that space their floods keep the history of the floods and their cooldowns in step.
LEMMA OriginsStay ==
  ASSUME NEW nd, NEW os, OriginsTimed(nd, os), NEW nd1, NEW out, NEW os1,
         StepsSpaced(nd, nd1, out), Records(os, os1, out)
  PROVE  OriginsTimed(nd1, os1)
<1>1. ASSUME NEW o \in os1, o \notin os
      PROVE  /\ o \in Floods /\ o.age = 0
             /\ o.type \in Limited => /\ o.dest \in Nodes
                                      /\ \E a \in Launches(o.node, out[o.node], o.type, o.dest) : o.seq = a.seq
  <2>1. PICK m \in Nodes : o \in Launched(m, out[m])
    BY <1>1 DEF Records
  <2>2. PICK Y : out[m] \in SUBSET Decisions(m, Y)
    BY DEF StepsSpaced
  <2> QED
    BY <2>1, <2>2, LaunchedType
<1>2. os1 \in SUBSET Floods
  BY <1>1 DEF OriginsTimed
<1>3. ASSUME NotifyInterval # 0, NEW o \in os1, o.type \in Limited, o \notin os
      PROVE  /\ o.node \in Nodes /\ o.dest \in Nodes /\ o.age < Interval(o.type)
             /\ Since(nd1[o.node], o.type)[o.dest] = o.age
             /\ Ready(nd[o.node], o.type, o.dest)
             /\ \E a \in Launches(o.node, out[o.node], o.type, o.dest) : o.seq = a.seq
  <2>1. o.node \in Nodes
    BY <1>2 DEF Floods
  <2>2. PICK a \in Launches(o.node, out[o.node], o.type, o.dest) : o.seq = a.seq
    BY <1>1, <1>3
  <2>3. o.dest \in Nodes /\ o.age = 0
    BY <1>1, <1>3
  <2>4. Spaced(o.node, nd[o.node], nd1[o.node], out[o.node])
    BY <2>1 DEF StepsSpaced
  <2>5. Since(nd1[o.node], o.type)[o.dest] = 0 /\ Ready(nd[o.node], o.type, o.dest)
    BY <1>3, <2>2, <2>3, <2>4 DEF Spaced
  <2>6. 0 < Interval(o.type)
    BY <1>3, RouterAssumption DEF Interval, Limited
  <2> QED
    BY <2>1, <2>2, <2>3, <2>5, <2>6
<1>4. ASSUME NotifyInterval # 0, NEW o \in os1, o.type \in Limited, o \in os
      PROVE  /\ o.node \in Nodes /\ o.dest \in Nodes /\ o.age < Interval(o.type)
             /\ Since(nd1[o.node], o.type)[o.dest] = o.age
             /\ ~ Ready(nd[o.node], o.type, o.dest)
  <2>1. /\ o.node \in Nodes /\ o.dest \in Nodes /\ o.age \in Nat /\ o.age < Interval(o.type)
        /\ Since(nd[o.node], o.type)[o.dest] = o.age
    BY <1>2, <1>4 DEF OriginsTimed, Floods
  <2>2. ~ Ready(nd[o.node], o.type, o.dest)
    BY <1>4, <2>1, NotOver
  <2>3. Spaced(o.node, nd[o.node], nd1[o.node], out[o.node])
    BY <2>1 DEF StepsSpaced
  <2>4. Since(nd1[o.node], o.type)[o.dest] = Since(nd[o.node], o.type)[o.dest]
    BY <1>4, <2>1, <2>2, <2>3 DEF Spaced
  <2> QED
    BY <2>1, <2>2, <2>4
<1>5. ASSUME NotifyInterval # 0, NEW o \in os1, NEW p \in os1,
             o.type \in Limited, o.type = p.type, o.node = p.node, o.dest = p.dest
      PROVE  o.seq = p.seq
  <2>1. CASE o \in os /\ p \in os
    BY <1>5, <2>1 DEF OriginsTimed
  <2>2. CASE o \notin os /\ p \notin os
    <3>1. PICK a \in Launches(o.node, out[o.node], o.type, o.dest) : o.seq = a.seq
      BY <1>3, <1>5, <2>2
    <3>2. PICK b \in Launches(o.node, out[o.node], o.type, o.dest) : p.seq = b.seq
      BY <1>3, <1>5, <2>2
    <3>3. o.node \in Nodes /\ o.dest \in Nodes
      BY <1>3, <1>5, <2>2
    <3>4. Spaced(o.node, nd[o.node], nd1[o.node], out[o.node])
      BY <3>3 DEF StepsSpaced
    <3> QED
      BY <1>5, <3>1, <3>2, <3>3, <3>4 DEF Spaced
  <2>3. CASE (o \in os) # (p \in os)
    BY <1>3, <1>4, <1>5, <2>3
  <2> QED
    BY <2>1, <2>2, <2>3
<1> QED
  BY <1>2, <1>3, <1>4, <1>5 DEF OriginsTimed

\* What EvictionJustified says of a step.
Justified ==
  \A n \in Nodes :
    LET before == node[n].table.nbrs
        after  == node'[n].table.nbrs
        cut    == ports[n].up /\ ~ ports'[n].up
    IN /\ \A m \in before \ after : node[n].idle[m] > MaxIdle \/ streak'[n][m] >= TxFailureThreshold \/ cut
       /\ cut /\ EnableMacFailureDetector => ports[n].heard \cap after = {}

\* What the invariant says of one node.
LEMMA NodeIs ==
  ASSUME IInv, NEW n \in Nodes
  PROVE  /\ IsSane(n, node[n]) /\ node[n] \in Sane(n, Own(node[n])) /\ held[n] \in SUBSET Nodes
         /\ \A m \in Nodes : /\ node[n].fails[m] \in 0 .. TxFailureThreshold - 1 /\ streak[n][m] \in Nat
                             /\ node[n].fails[m] <= streak[n][m]
  BY DEF IInv, NodesSane, IsSane, StreaksCount, Sane, Routers, Own

\* A node that has handled an event acts on the decisions: X bounds the failures it counts by
\* the history, and names the neighbours it keeps; the others had to go.
LEMMA PerformSafe ==
  ASSUME IInv, NEW n \in Nodes, NEW X, NEW r \in Outcomes(n, X, node[n]), NEW h \in SUBSET Nodes,
         NEW f \in SUBSET AirFrames, Perform(n, r, h, f),
         streak' \in [Nodes -> [Nodes -> Nat]],
         \A m \in Nodes : X.most[m] <= streak'[n][m],
         \A k \in Nodes \ {n}, m \in Nodes : streak'[k][m] = streak[k][m],
         \A m \in node[n].table.nbrs \ X.near :
            node[n].idle[m] > MaxIdle \/ streak'[n][m] >= TxFailureThreshold,
         links' = links, ports' \in Ports, \A k \in Nodes : ports'[k].up = ports[k].up
  PROVE  IInv' /\ Justified
<1>1. r.st \in Sane(n, X) /\ r.out \in SUBSET Decisions(n, X) /\ Spaced(n, node[n], r.st, r.out)
  BY DEF Outcomes, Results
<1>2. /\ node' = [k \in Nodes |-> IF k = n THEN r.st ELSE node[k]]
      /\ NodesSane(node)
  BY DEF Perform, IInv, NodesSane
<1>3. NodesSane(node')
  <2>1. IsSane(n, r.st)
    BY <1>1, SaneIs
  <2> QED
    BY <1>2, <2>1 DEF NodesSane
<1>4. radio' \in SUBSET AirFrames
  <2>1. Sent(n, r.out) \in SUBSET AirFrames
    BY <1>1, SentType DEF IInv
  <2> QED
    BY <2>1 DEF Perform
<1>5. held' \in [Nodes -> SUBSET Nodes]
  BY DEF Perform, IInv
<1>6. scenario' = scenario /\ scenario' \in Scenarios
  BY DEF Perform, IInv
<1>7. StreaksCount(node', streak')
  <2>1. ASSUME NEW k \in Nodes, NEW m \in Nodes PROVE node'[k].fails[m] <= streak'[k][m]
    <3>1. CASE k = n
      <4>1. r.st.fails[m] \in 0 .. TxFailureThreshold - 1 /\ X.most[m] \in Nat /\ r.st.fails[m] <= X.most[m]
        BY <1>1 DEF Sane, Routers
      <4>2. streak'[n][m] \in Nat /\ X.most[m] <= streak'[n][m] /\ TxFailureThreshold \in Nat
        BY RouterBounds
      <4> QED
        BY <1>2, <3>1, <4>1, <4>2
    <3>2. CASE k # n
      BY <1>2, <3>2, NodeIs
    <3> QED
      BY <3>1, <3>2
  <2> QED
    BY <2>1 DEF StreaksCount
<1>8. OriginsTimed(node', origins')
  <2> DEFINE out == [m \in Nodes |-> IF m = n THEN r.out ELSE {}]
  <2>1. OriginsTimed(node, origins)
    BY DEF IInv
  <2>2. ASSUME NEW m \in Nodes
        PROVE  Spaced(m, node[m], node'[m], out[m]) /\ \E Y : out[m] \in SUBSET Decisions(m, Y)
    <3>1. CASE m = n
      BY <1>1, <1>2, <3>1
    <3>2. CASE m # n
      <4>1. out[m] = {} /\ node'[m] = node[m]
        BY <1>2, <3>2
      <4>2. \A type, d : Launches(m, {}, type, d) = {}
        BY DEF Launches
      <4>3. Spaced(m, node[m], node[m], {})
        BY <4>2 DEF Spaced
      <4> QED
        BY <4>1, <4>3
    <3> QED
      BY <3>1, <3>2
  <2>3. out[n] = r.out
    OBVIOUS
  <2>4. origins' = origins \cup Launched(n, out[n])
    BY <2>3 DEF Perform
  <2> HIDE DEF out
  <2>5. StepsSpaced(node, node', out) /\ Records(origins, origins', out)
    BY <2>2, <2>4 DEF StepsSpaced, Records
  <2> QED
    BY <2>1, <2>5, OriginsStay
<1>9. \A k \in Nodes : ~ ports'[k].up => scenario'.wired /\ links' = {}
  BY <1>6 DEF IInv, Wired
<1>10. Justified
  <2>1. X.near \subseteq node'[n].table.nbrs
    BY <1>1, <1>2 DEF Sane
  <2>2. \A k \in Nodes \ {n} : node'[k] = node[k]
    BY <1>2
  <2> QED
    BY <2>1, <2>2 DEF Justified
<1> QED
  BY <1>3, <1>4, <1>5, <1>6, <1>7, <1>8, <1>9, <1>10 DEF IInv, Wired

\* The same of a handler that evicts no one, launches no flood with a cooldown and is told of
\* no failure.
LEMMA QuietSafe ==
  ASSUME IInv, NEW n \in Nodes, NEW r \in Results(n, Own(node[n])), NEW h \in SUBSET Nodes,
         NEW f \in SUBSET AirFrames, Perform(n, r, h, f),
         streak' = streak, links' = links, ports' = ports
  PROVE  IInv' /\ Justified
<1> DEFINE X == Own(node[n])
<1>1. r \in Outcomes(n, X, node[n])
  BY QuietOutcomes DEF Own
<1>2. /\ \A m \in Nodes : X.most[m] <= streak'[n][m]
      /\ \A m \in node[n].table.nbrs \ X.near :
           node[n].idle[m] > MaxIdle \/ streak'[n][m] >= TxFailureThreshold
  BY NodeIs DEF Own
<1>3. /\ streak' \in [Nodes -> [Nodes -> Nat]] /\ ports' \in Ports
      /\ \A k \in Nodes, m \in Nodes : streak'[k][m] = streak[k][m]
      /\ \A k \in Nodes : ports'[k].up = ports[k].up
  BY DEF IInv, StreaksCount
<1> HIDE DEF X
<1> QED
  BY <1>1, <1>2, <1>3, PerformSafe

\* The radio, the queue or the links may change under routers that do nothing.
LEMMA IdleSafe ==
  ASSUME IInv, scenario' = scenario, node' = node, radio' \in SUBSET AirFrames, held' \in [Nodes -> SUBSET Nodes],
         links' \in SUBSET Links, ports' \in Ports, streak' = streak, origins' = origins,
         \A n \in Nodes : /\ ~ ports'[n].up => Wired /\ links' = {}
                          /\ ports[n].up => ports'[n].up
  PROVE  IInv' /\ Justified
<1>1. IInv'
  BY DEF IInv, Wired
<1>2. Justified
  BY DEF Justified
<1> QED
  BY <1>1, <1>2

-----------------------------------------------------------------------------
(* The actions *)

\* A queue that is flushed, or refilled, holds no other destinations.
LEMMA FlushQueueType ==
  ASSUME NEW h \in SUBSET Nodes, NEW s, NEW d
  PROVE  FlushQueue(h, s, d) \in SUBSET Nodes
  BY DEF FlushQueue

\* OriginateData evicts no one and launches no limited flood.
LEMMA OriginateDataSafe ==
  ASSUME IInv, NEW n \in Nodes, NEW d \in Nodes, OriginateData(n, d)
  PROVE  IInv' /\ Justified
<1> DEFINE s == NoteDataSession(node[n], d)
           X == Own(node[n])
           h == IF RouteExists(s, d) THEN held[n] ELSE held[n] \cup {d}
<1>1. PICK r \in DataPacket(s, d, NoNode) : Perform(n, r, h, radio)
  BY DEF OriginateData
<1>2. links' = links /\ ports' = ports /\ streak' = streak
  BY DEF OriginateData, Untimed
<1>3. s \in Sane(n, X) /\ h \in SUBSET Nodes
  BY NodeIs, NoteDataSessionType
<1> HIDE DEF s, h
<1>4. r \in Results(n, X)
  BY <1>3, DataPacketType
<1>5. radio \in SUBSET AirFrames
  BY DEF IInv
<1> QED
  BY <1>1, <1>2, <1>3, <1>4, <1>5, QuietSafe

\* A failure of next, which the history counts, costs the neighbour only as the last of a streak.
LEMMA FailedStreak ==
  ASSUME IInv, NEW n \in Nodes, NEW next \in Nodes, Failed(n, next)
  PROVE  LET near == IF node[n].fails[next] + 1 < TxFailureThreshold
                     THEN node[n].table.nbrs ELSE node[n].table.nbrs \ {next}
             X == Loud(node[n], near, streak'[n])
         IN /\ node[n] \in Sane(n, X) /\ Free(X)
            /\ IF node[n].fails[next] + 1 < TxFailureThreshold
               THEN node[n].fails[next] + 1 <= X.most[next] ELSE next \notin X.near
            /\ streak' \in [Nodes -> [Nodes -> Nat]]
            /\ \A m \in Nodes : X.most[m] <= streak'[n][m]
            /\ \A k \in Nodes \ {n}, m \in Nodes : streak'[k][m] = streak[k][m]
            /\ \A m \in node[n].table.nbrs \ X.near :
                 node[n].idle[m] > MaxIdle \/ streak'[n][m] >= TxFailureThreshold
<1> DEFINE near == IF node[n].fails[next] + 1 < TxFailureThreshold
                   THEN node[n].table.nbrs ELSE node[n].table.nbrs \ {next}
           X == Loud(node[n], near, streak'[n])
<1>1. /\ streak \in [Nodes -> [Nodes -> Nat]]
      /\ streak' = [streak EXCEPT ![n][next] = Lesser(streak[n][next] + 1, TxFailureThreshold)]
  BY DEF IInv, StreaksCount, Failed
<1>2. Lesser(streak[n][next] + 1, TxFailureThreshold) \in Nat
  BY <1>1, RouterBounds DEF Lesser
<1>3. /\ streak' \in [Nodes -> [Nodes -> Nat]]
      /\ streak'[n][next] = Lesser(streak[n][next] + 1, TxFailureThreshold)
      /\ \A m \in Nodes \ {next} : streak'[n][m] = streak[n][m]
      /\ \A k \in Nodes \ {n}, m \in Nodes : streak'[k][m] = streak[k][m]
  BY <1>1, <1>2
<1>4. \A m \in Nodes : /\ node[n].fails[m] \in Nat /\ node[n].fails[m] <= TxFailureThreshold - 1
                       /\ streak[n][m] \in Nat /\ node[n].fails[m] <= streak[n][m]
  BY NodeIs, RouterBounds
<1>5. /\ node[n].fails[next] + 1 < TxFailureThreshold => node[n].fails[next] + 1 <= streak'[n][next]
      /\ ~ (node[n].fails[next] + 1 < TxFailureThreshold) => streak'[n][next] >= TxFailureThreshold
      /\ node[n].fails[next] <= streak'[n][next]
  BY <1>3, <1>4, RouterBounds DEF Lesser
<1>6. \A m \in Nodes : streak'[n][m] \in Nat /\ node[n].fails[m] <= streak'[n][m]
  BY <1>3, <1>4, <1>5
<1>7. near \in SUBSET node[n].table.nbrs /\ IsSane(n, node[n])
  BY NodeIs
<1>8. node[n] \in Sane(n, X) /\ Free(X)
  BY <1>6, <1>7, LoudType
<1>9. X.near = near /\ X.most = streak'[n]
  BY DEF Loud
<1> HIDE DEF X
<1>10. IF node[n].fails[next] + 1 < TxFailureThreshold
       THEN node[n].fails[next] + 1 <= X.most[next] ELSE next \notin X.near
  BY <1>5, <1>9
<1>11. \A m \in node[n].table.nbrs \ X.near : streak'[n][m] >= TxFailureThreshold
  BY <1>5, <1>9
<1>12. \A m \in Nodes : X.most[m] <= streak'[n][m]
  BY <1>6, <1>9
<1> HIDE DEF near
<1> QED
  BY <1>3, <1>8, <1>10, <1>11, <1>12 DEF X, near

\* DataTxError evicts the next hop only as the last failure of a streak.
LEMMA DataTxErrorSafe ==
  ASSUME IInv, NEW n \in Nodes, NEW d \in Nodes, DataTxError(n, d)
  PROVE  IInv' /\ Justified
<1>1. PICK next \in DataChoices(node[n], d, NoNode) \ {NoNode} :
        /\ LET r == TxFailure(node[n], next, d)
           IN Perform(n, r,
                      FlushQueue((held[n] \ {x.next : x \in {y \in r.out : y.act = "discard"}}) \cup {d}, r.st, d),
                      radio)
        /\ Failed(n, next)
  BY DEF DataTxError
<1> DEFINE near == IF node[n].fails[next] + 1 < TxFailureThreshold
                   THEN node[n].table.nbrs ELSE node[n].table.nbrs \ {next}
           X == Loud(node[n], near, streak'[n])
           r == TxFailure(node[n], next, d)
           h == FlushQueue((held[n] \ {x.next : x \in {y \in r.out : y.act = "discard"}}) \cup {d}, r.st, d)
<1>2. links' = links /\ ports' = ports
  BY DEF DataTxError, Untimed
<1>3. next \in Nodes
  BY NodeIs, ChoicesType, NeighborsAreNodes DEF DataChoices
<1>4. /\ node[n] \in Sane(n, X) /\ Free(X)
      /\ IF node[n].fails[next] + 1 < TxFailureThreshold
         THEN node[n].fails[next] + 1 <= X.most[next] ELSE next \notin X.near
      /\ streak' \in [Nodes -> [Nodes -> Nat]]
      /\ \A m \in Nodes : X.most[m] <= streak'[n][m]
      /\ \A k \in Nodes \ {n}, m \in Nodes : streak'[k][m] = streak[k][m]
      /\ \A m \in node[n].table.nbrs \ X.near :
           node[n].idle[m] > MaxIdle \/ streak'[n][m] >= TxFailureThreshold
  BY <1>1, <1>3, FailedStreak
<1> HIDE DEF X
<1>5. r \in Outcomes(n, X, node[n])
  BY <1>3, <1>4, TxFailureType
<1>6. h \in SUBSET Nodes
  BY NodeIs, FlushQueueType
<1>7. radio \in SUBSET AirFrames /\ ports \in Ports
  BY DEF IInv
<1>8. Perform(n, r, h, radio)
  BY <1>1
<1> HIDE DEF r, h
<1> QED
  BY <1>2, <1>4, <1>5, <1>6, <1>7, <1>8, PerformSafe

\* The retry timer floods reactive ants alone.
LEMMA ReactiveRetryTimerExpireSafe ==
  ASSUME IInv, NEW n \in Nodes, ReactiveRetryTimerExpire(n)
  PROVE  IInv' /\ Justified
<1> DEFINE X == Own(node[n])
           lost == {d \in held[n] : ~ RouteExists(node[n], d)}
           r0 == Result(node[n], {})
           r == FloodsAgain(lost, r0)
<1>1. Perform(n, r, lost, radio)
  BY DEF ReactiveRetryTimerExpire, FloodsAgain
<1>2. links' = links /\ ports' = ports /\ streak' = streak
  BY DEF ReactiveRetryTimerExpire
<1>3. lost \in SUBSET Nodes
  BY NodeIs
<1> HIDE DEF lost
<1>4. r0 \in Results(n, X)
  BY NodeIs, ResultType
<1> HIDE DEF r0
<1>5. r \in Results(n, X)
  BY <1>3, <1>4, FloodsAgainType
<1>6. radio \in SUBSET AirFrames
  BY DEF IInv
<1> HIDE DEF r
<1> QED
  BY <1>1, <1>2, <1>3, <1>5, <1>6, QuietSafe

\* Purge touches the queue alone.
LEMMA PurgeSafe ==
  ASSUME IInv, NEW n \in Nodes, NEW d, Purge(n, d)
  PROVE  IInv' /\ Justified
<1>1. held' \in [Nodes -> SUBSET Nodes]
  BY DEF IInv, Purge
<1> QED
  BY <1>1, IdleSafe DEF IInv, Purge, Untimed

\* RecvAnt: an accepted ant ends the streak of its sender in the router and in the history; a
\* note or a hello received evicts no one.
LEMMA RecvAntSafe ==
  ASSUME IInv, NEW f \in radio, RecvAnt(f)
  PROVE  IInv' /\ Justified
<1> DEFINE n == f.to
           X == Own(node[n])
           h(r) == IF f.ant.dir = "down" THEN FlushQueue(held[n], r.st, f.ant.src) ELSE held[n]
           most == [m \in Nodes |-> IF m = f.from THEN 0 ELSE X.most[m]]
<1>1. f \in AirFrames /\ <<f.from, f.to>> \in Links
  BY DEF IInv, RecvAnt
<1>2. f.from \in Nodes \ {n} /\ n \in Nodes /\ f.ant \in Ants /\ OnTrack(f.ant, f.from, n)
  BY <1>1 DEF AirFrames, Links
<1>3. PICK dt \in Delays : \E r \in ReceiveAnt(node[n], f.ant, f.from, dt) : Perform(n, r, h(r), radio \ {f})
  BY DEF RecvAnt
<1>4. PICK r \in ReceiveAnt(node[n], f.ant, f.from, dt) : Perform(n, r, h(r), radio \ {f})
  BY <1>3
<1>5. /\ links' = links
      /\ ports' \in {ports, [ports EXCEPT ![n].heard = @ \cup {f.from, f.ant.src}]}
      /\ IF Accepts(node[n], f.ant) THEN Reset(n, f.from) ELSE streak' = streak
  BY DEF RecvAnt
<1>6. dt \in Int
  BY ScenarioAssumption
<1>7. IsSane(n, node[n]) /\ node[n] \in Sane(n, X) /\ held[n] \in SUBSET Nodes
  BY <1>2, NodeIs
<1>8. h(r) \in SUBSET Nodes /\ radio \ {f} \in SUBSET AirFrames
  BY <1>7, FlushQueueType DEF IInv
<1>9. ports' \in Ports /\ \A k \in Nodes : ports'[k].up = ports[k].up
  <2>1. ports \in Ports /\ n \in Nodes /\ f.from \in Nodes /\ f.ant.src \in Nodes
    BY <1>2 DEF IInv, Ants
  <2> DEFINE p == [ports EXCEPT ![n].heard = @ \cup {f.from, f.ant.src}]
  <2>2. p \in Ports /\ \A k \in Nodes : p[k].up = ports[k].up
    BY <2>1 DEF Ports
  <2> HIDE DEF p
  <2>3. ports' \in {ports, p}
    BY <1>5 DEF p
  <2> QED
    BY <2>1, <2>2, <2>3
<1> HIDE DEF h, n
<1>10. \/ ~ Accepts(node[n], f.ant) /\ r \in Results(n, X)
       \/ \E H, G : r \in Results(n, Renewed(AtMost(X, most), H, G))
  BY <1>2, <1>4, <1>6, <1>7, ReceiveAntType
<1>11. CASE ~ Accepts(node[n], f.ant) /\ r \in Results(n, X)
  <2>1. streak' = streak
    BY <1>5, <1>11
  <2>2. r \in Outcomes(n, X, node[n])
    BY <1>11, QuietOutcomes DEF Own
  <2>3. /\ \A m \in Nodes : X.most[m] <= streak'[n][m]
        /\ \A m \in node[n].table.nbrs \ X.near :
             node[n].idle[m] > MaxIdle \/ streak'[n][m] >= TxFailureThreshold
    BY <1>2, <2>1, NodeIs DEF Own
  <2>4. /\ streak' \in [Nodes -> [Nodes -> Nat]]
        /\ \A k \in Nodes \ {n}, m \in Nodes : streak'[k][m] = streak[k][m]
    BY <2>1 DEF IInv, StreaksCount
  <2>5. links' = links
    BY <1>5
  <2> HIDE DEF X, h
  <2> QED
    BY <1>2, <1>4, <1>8, <1>9, <2>2, <2>3, <2>4, <2>5, PerformSafe
<1>12. CASE \E H, G : r \in Results(n, Renewed(AtMost(X, most), H, G))
  <2>1. PICK H, G : r \in Results(n, Renewed(AtMost(X, most), H, G))
    BY <1>12
  <2> DEFINE Y == Renewed(AtMost(X, most), H, G)
  <2>2. /\ Y.loud = FALSE /\ Y.notify = {node[n].sinceNotify} /\ Y.repair = {node[n].sinceRepair}
        /\ Y.near = node[n].table.nbrs /\ Y.most = most
    BY DEF Renewed, AtMost, Own
  <2> HIDE DEF Y
  <2>3. r \in Outcomes(n, Y, node[n])
    BY <2>1, <2>2, QuietOutcomes DEF Y
  <2> DEFINE z == [streak EXCEPT ![n][f.from] = 0]
  <2>4. streak \in [Nodes -> [Nodes -> Nat]] /\ streak' \in {streak, z}
    BY <1>5 DEF IInv, StreaksCount, Reset
  <2>5. /\ streak' \in [Nodes -> [Nodes -> Nat]]
        /\ \A m \in Nodes \ {f.from} : streak'[n][m] = streak[n][m]
        /\ \A k \in Nodes \ {n}, m \in Nodes : streak'[k][m] = streak[k][m]
    <3>1. /\ z \in [Nodes -> [Nodes -> Nat]]
          /\ \A m \in Nodes \ {f.from} : z[n][m] = streak[n][m]
          /\ \A k \in Nodes \ {n}, m \in Nodes : z[k][m] = streak[k][m]
      BY <1>2, <2>4
    <3> HIDE DEF z
    <3> QED
      BY <2>4, <3>1
  <2>6. \A m \in Nodes : most[m] <= streak'[n][m]
    <3> TAKE m \in Nodes
    <3>1. CASE m = f.from
      <4>1. most[m] = 0 /\ streak'[n][m] \in Nat
        BY <1>2, <2>5, <3>1
      <4> QED
        BY <4>1
    <3>2. CASE m # f.from
      <4>1. most[m] = node[n].fails[m]
        BY <3>2 DEF Own
      <4> QED
        BY <1>2, <2>5, <3>2, <4>1, NodeIs
    <3> QED
      BY <3>1, <3>2
  <2> HIDE DEF most
  <2>7. /\ \A m \in Nodes : Y.most[m] <= streak'[n][m]
        /\ \A m \in node[n].table.nbrs \ Y.near :
             node[n].idle[m] > MaxIdle \/ streak'[n][m] >= TxFailureThreshold
    BY <2>2, <2>6
  <2> QED
    BY <1>2, <1>4, <1>5, <1>8, <1>9, <2>3, <2>5, <2>7, PerformSafe
<1> QED
  BY <1>10, <1>11, <1>12

\* A lost frame was on its track.
LEMMA LoseSafe ==
  ASSUME IInv, NEW f \in radio, Lose(f)
  PROVE  IInv' /\ Justified
  BY IdleSafe DEF IInv, Lose, Untimed

\* A failure that the history counts leaves it above the counters of the routers.
LEMMA FailedCounts ==
  ASSUME IInv, NEW n \in Nodes, NEW m \in Nodes \cup {NoNode}, Failed(n, m)
  PROVE  /\ streak' \in [Nodes -> [Nodes -> Nat]]
         /\ \A x \in Nodes : node[n].fails[x] <= streak'[n][x]
         /\ \A k \in Nodes \ {n}, x \in Nodes : streak'[k][x] = streak[k][x]
<1>1. CASE m \in Nodes
  <2> DEFINE near == IF node[n].fails[m] + 1 < TxFailureThreshold
                     THEN node[n].table.nbrs ELSE node[n].table.nbrs \ {m}
             X == Loud(node[n], near, streak'[n])
  <2>1. /\ node[n] \in Sane(n, X)
        /\ streak' \in [Nodes -> [Nodes -> Nat]]
        /\ \A k \in Nodes \ {n}, x \in Nodes : streak'[k][x] = streak[k][x]
    BY <1>1, FailedStreak
  <2>2. X.most = streak'[n]
    BY DEF Loud
  <2> HIDE DEF X
  <2> QED
    BY <2>1, <2>2 DEF Sane
<1>2. CASE m = NoNode
  <2>1. streak \in [Nodes -> [Nodes -> Nat]] /\ NoNode \notin Nodes
    BY PheromoneBounds DEF IInv, StreaksCount
  <2>2. streak' = streak
    BY <1>2, <2>1 DEF Failed
  <2> QED
    BY <2>1, <2>2, NodeIs
<1> QED
  BY <1>1, <1>2

\* AntTxError evicts as DataTxError does; where the detector is off, or the next hop is no
\* neighbour, the router is not told.
LEMMA AntTxErrorSafe ==
  ASSUME IInv, NEW f \in radio, AntTxError(f)
  PROVE  IInv' /\ Justified
<1> DEFINE n == f.from
           s == node[n]
           rest == radio \ {f}
           received == [f EXCEPT !.mac = "unacked"]
           r == IF EnableMacFailureDetector /\ f.to \in s.table.nbrs
                THEN TxFailure(s, f.to, NoNode) ELSE Result(s, {})
<1>1. f \in AirFrames /\ n \in Nodes /\ f.to \in Nodes \cup {NoNode}
  BY DEF IInv, AirFrames
<1>2. PICK left \in {rest} \cup (IF <<f.from, f.to>> \in links THEN {rest \cup {received}} ELSE {}) :
        Perform(n, r, held[n], left)
  BY DEF AntTxError
<1>3. /\ links' = links /\ ports' = ports
      /\ IF EnableMacFailureDetector THEN Failed(n, f.to) ELSE streak' = streak
  BY DEF AntTxError, Untimed
<1>4. /\ IsSane(n, node[n]) /\ node[n] \in Sane(n, Own(node[n])) /\ held[n] \in SUBSET Nodes
      /\ node[n].table.nbrs \subseteq Nodes
  BY <1>1, NodeIs, NeighborsAreNodes
<1>5. received \in AirFrames
  BY <1>1 DEF AirFrames
<1> HIDE DEF received
<1>6. left \in SUBSET AirFrames /\ ports \in Ports
  BY <1>2, <1>5 DEF IInv
<1>7. CASE EnableMacFailureDetector /\ f.to \in s.table.nbrs
  <2> DEFINE next == f.to
             near == IF node[n].fails[next] + 1 < TxFailureThreshold
                     THEN node[n].table.nbrs ELSE node[n].table.nbrs \ {next}
             X == Loud(node[n], near, streak'[n])
             q == TxFailure(node[n], next, NoNode)
  <2>1. next \in Nodes /\ Failed(n, next) /\ Perform(n, q, held[n], left)
    BY <1>2, <1>3, <1>4, <1>7
  <2> HIDE DEF r, n, next
  <2>2. /\ node[n] \in Sane(n, X) /\ Free(X)
        /\ IF node[n].fails[next] + 1 < TxFailureThreshold
           THEN node[n].fails[next] + 1 <= X.most[next] ELSE next \notin X.near
        /\ streak' \in [Nodes -> [Nodes -> Nat]]
        /\ \A m \in Nodes : X.most[m] <= streak'[n][m]
        /\ \A k \in Nodes \ {n}, m \in Nodes : streak'[k][m] = streak[k][m]
        /\ \A m \in node[n].table.nbrs \ X.near :
             node[n].idle[m] > MaxIdle \/ streak'[n][m] >= TxFailureThreshold
    BY <1>1, <2>1, FailedStreak
  <2> HIDE DEF X
  <2>3. q \in Outcomes(n, X, node[n])
    BY <1>1, <2>1, <2>2, TxFailureType
  <2> HIDE DEF q
  <2> QED
    BY <1>1, <1>3, <1>4, <1>6, <2>1, <2>2, <2>3, PerformSafe
<1>8. CASE ~ (EnableMacFailureDetector /\ f.to \in s.table.nbrs)
  <2> DEFINE X == Own(node[n])
             q == Result(node[n], {})
  <2>1. Perform(n, q, held[n], left)
    BY <1>2, <1>8
  <2>2. /\ streak' \in [Nodes -> [Nodes -> Nat]]
        /\ \A m \in Nodes : node[n].fails[m] <= streak'[n][m]
        /\ \A k \in Nodes \ {n}, m \in Nodes : streak'[k][m] = streak[k][m]
    <3>1. CASE EnableMacFailureDetector
      BY <1>1, <1>3, <3>1, FailedCounts
    <3>2. CASE ~ EnableMacFailureDetector
      BY <1>1, <1>3, <3>2, NodeIs DEF IInv, StreaksCount
    <3> QED
      BY <3>1, <3>2
  <2> HIDE DEF r, n
  <2>3. q \in Results(n, X)
    BY <1>4, ResultType
  <2>4. q \in Outcomes(n, X, node[n])
    BY <2>3, QuietOutcomes DEF Own
  <2>5. /\ \A m \in Nodes : X.most[m] <= streak'[n][m]
        /\ \A m \in node[n].table.nbrs \ X.near :
             node[n].idle[m] > MaxIdle \/ streak'[n][m] >= TxFailureThreshold
    BY <2>2 DEF Own
  <2> HIDE DEF X, q
  <2> QED
    BY <1>1, <1>3, <1>4, <1>6, <2>1, <2>2, <2>4, <2>5, PerformSafe
<1> QED
  BY <1>7, <1>8

\* HelloTimerExpire evicts the silent, launches what the cooldowns allow, and then only says
\* hello or vouches for those heard on a cable.
LEMMA HelloTimerExpireSafe ==
  ASSUME IInv, NEW n \in Nodes, HelloTimerExpire(n)
  PROVE  IInv' /\ Justified
<1> DEFINE s == node[n]
           near == {m \in s.table.nbrs : ~ (s.idle[m] > MaxIdle)}
           X == Loud(s, near, s.fails)
           r == MaintenanceTick(s)
           h == HelloAnt(r.st)
           all == ForEach(ports[n].heard, h.st, LearnNeighbor)
           st == IF ports[n].up THEN all ELSE h.st
           q1 == Result(h.st, {Flood(h.ant)})
           q2 == Result(st, {})
           p1 == Result(q1.st, r.out \cup q1.out)
           p2 == Result(q2.st, r.out \cup q2.out)
<1>1. Perform(n, p1, held[n], radio) \/ Perform(n, p2, held[n], radio)
  BY DEF HelloTimerExpire, Result
<1>2. /\ links' = links /\ streak' = streak
      /\ ports' = [ports EXCEPT ![n].ticks = (ports[n].ticks + 1) % HelloEvery]
  BY DEF HelloTimerExpire
<1>3. /\ IsSane(n, s) /\ held[n] \in SUBSET Nodes /\ ports[n].heard \in SUBSET Nodes
      /\ \A m \in Nodes : s.fails[m] \in Nat /\ s.fails[m] <= s.fails[m] /\ s.fails[m] <= streak[n][m]
  BY NodeIs, RouterBounds DEF IInv, Ports
<1>4. s \in Sane(n, X) /\ Free(X) /\ X.near = near /\ X.most = s.fails
  BY <1>3, LoudType DEF Loud
<1> HIDE DEF X
<1>5. r \in Outcomes(n, X, s)
  BY <1>4, MaintenanceTickType
<1> HIDE DEF r
<1>6. IsSane(n, r.st)
  BY <1>5, SaneIs DEF Outcomes, Results
<1>7. h.st \in Sane(n, Own(r.st)) /\ Flood(h.ant) \in Decisions(n, Own(r.st))
  BY <1>6, HelloAntType DEF IsSane
<1> HIDE DEF h
<1>8. all \in Sane(n, Own(r.st))
  BY <1>3, <1>7, LearnAllType
<1> HIDE DEF all
<1>9. st \in Sane(n, Own(r.st)) /\ {Flood(h.ant)} \in SUBSET Decisions(n, Own(r.st))
  BY <1>7, <1>8
<1> HIDE DEF st
<1>10. q1 \in Results(n, Own(r.st)) /\ q2 \in Results(n, Own(r.st))
  <2>1. {} \in SUBSET Decisions(n, Own(r.st))
    OBVIOUS
  <2> QED
    BY <1>7, <1>9, <2>1, ResultType
<1> HIDE DEF q1, q2
<1>11. p1 \in Outcomes(n, X, s) /\ p2 \in Outcomes(n, X, s)
  BY <1>5, <1>10, QuietThen
<1> HIDE DEF p1, p2
<1>12. radio \in SUBSET AirFrames /\ ports \in Ports
  BY DEF IInv
<1>13. ports' \in Ports /\ \A k \in Nodes : ports'[k].up = ports[k].up
  <2>1. HelloEvery \in Nat \ {0}
    BY ScenarioAssumption DEF IInv, HelloEvery
  <2>2. (ports[n].ticks + 1) % HelloEvery \in Nat
    BY <1>12, <2>1 DEF Ports
  <2> QED
    BY <1>2, <1>12, <2>2 DEF Ports
<1>14. /\ streak' \in [Nodes -> [Nodes -> Nat]]
       /\ \A k \in Nodes \ {n}, m \in Nodes : streak'[k][m] = streak[k][m]
       /\ \A m \in Nodes : X.most[m] <= streak'[n][m]
       /\ \A m \in node[n].table.nbrs \ X.near :
            node[n].idle[m] > MaxIdle \/ streak'[n][m] >= TxFailureThreshold
  BY <1>2, <1>3, <1>4 DEF IInv, StreaksCount
<1> HIDE DEF near
<1>15. CASE Perform(n, p1, held[n], radio)
  BY <1>2, <1>3, <1>11, <1>12, <1>13, <1>14, <1>15, PerformSafe
<1>16. CASE Perform(n, p2, held[n], radio)
  BY <1>2, <1>3, <1>11, <1>12, <1>13, <1>14, <1>16, PerformSafe
<1> QED
  BY <1>1, <1>15, <1>16

\* The proactive timer evicts no one and launches no limited flood.
LEMMA ProactiveTimerExpireSafe ==
  ASSUME IInv, NEW n \in Nodes, ProactiveTimerExpire(n)
  PROVE  IInv' /\ Justified
<1>1. PICK r \in ProactiveAnts(node[n]) : Perform(n, r, held[n], radio)
  BY DEF ProactiveTimerExpire
<1>2. links' = links /\ ports' = ports /\ streak' = streak
  BY DEF ProactiveTimerExpire
<1>3. r \in Results(n, Own(node[n])) /\ held[n] \in SUBSET Nodes
  BY <1>1, NodeIs, ProactiveAntsType
<1>4. radio \in SUBSET AirFrames
  BY DEF IInv
<1> QED
  BY <1>1, <1>2, <1>3, <1>4, QuietSafe

\* Every flood of the history ages with the cooldown it started.
LEMMA ElapseSafe ==
  ASSUME IInv, Elapse
  PROVE  IInv' /\ Justified
<1>1. /\ node' = [n \in Nodes |-> Aging(node[n])]
      /\ origins' = {o \in {[x EXCEPT !.age = x.age + 1] : x \in origins} : o.age < Interval(o.type)}
      /\ UNCHANGED <<scenario, radio, held, links, ports, streak>>
  BY DEF Elapse
<1>2. ASSUME NEW n \in Nodes
      PROVE  /\ IsSane(n, node'[n]) /\ node'[n].table = node[n].table /\ node'[n].fails = node[n].fails
             /\ \A type \in Limited, d \in Nodes :
                  Since(node'[n], type)[d] = Older(Since(node[n], type)[d], Interval(type))
  <2> DEFINE s == node[n]
             X == Loud(s, s.table.nbrs, s.fails)
  <2>1. IsSane(n, s) /\ \A m \in Nodes : s.fails[m] \in Nat /\ s.fails[m] <= s.fails[m]
    BY NodeIs, RouterBounds
  <2>2. s \in Sane(n, X) /\ X.notify = Clocks /\ X.repair = Clocks
    BY <2>1, LoudType DEF Loud
  <2>3. node'[n] = Aging(s)
    BY <1>1
  <2> HIDE DEF X, s
  <2>4. /\ Aging(s) \in Sane(n, X) /\ Aging(s).table = s.table /\ Aging(s).fails = s.fails
        /\ \A type \in Limited, d \in Nodes :
             Since(Aging(s), type)[d] = Older(Since(s, type)[d], Interval(type))
    BY <2>2, AgingType
  <2>5. IsSane(n, Aging(s))
    BY <2>4, SaneIs
  <2> QED
    BY <2>3, <2>4, <2>5 DEF s
<1>3. NodesSane(node')
  BY <1>1, <1>2 DEF NodesSane
<1>4. StreaksCount(node', streak')
  BY <1>1, <1>2 DEF IInv, StreaksCount
<1>5. OriginsTimed(node', origins')
  <2>1. origins \in SUBSET Floods
    BY DEF IInv, OriginsTimed
  <2>2. ASSUME NEW o \in origins'
        PROVE  \E x \in origins : /\ o \in Floods /\ o.node = x.node /\ o.type = x.type /\ o.dest = x.dest
                                  /\ o.seq = x.seq /\ o.age = x.age + 1 /\ o.age < Interval(o.type)
    <3>1. PICK x \in origins : o = [x EXCEPT !.age = x.age + 1] /\ o.age < Interval(o.type)
      BY <1>1
    <3>2. x \in Floods
      BY <2>1
    <3> QED
      BY <3>1, <3>2 DEF Floods
  <2>3. origins' \in SUBSET Floods
    BY <2>2
  <2>4. ASSUME NotifyInterval # 0, NEW o \in origins', o.type \in Limited
        PROVE  o.dest \in Nodes /\ o.age < Interval(o.type) /\ Since(node'[o.node], o.type)[o.dest] = o.age
    <3>1. PICK x \in origins : /\ o \in Floods /\ o.node = x.node /\ o.type = x.type /\ o.dest = x.dest
                               /\ o.seq = x.seq /\ o.age = x.age + 1 /\ o.age < Interval(o.type)
      BY <2>2
    <3>2. /\ x.dest \in Nodes /\ x.node \in Nodes /\ x.age \in Nat
          /\ Since(node[x.node], x.type)[x.dest] = x.age
      BY <2>1, <2>4, <3>1 DEF IInv, OriginsTimed, Floods
    <3>3. Interval(o.type) \in Nat
      BY <2>4, RouterAssumption DEF Interval
    <3>4. Older(x.age, Interval(o.type)) = x.age + 1
      BY <3>1, <3>2, <3>3 DEF Older, Never
    <3> QED
      BY <1>2, <2>4, <3>1, <3>2, <3>4
  <2>5. ASSUME NotifyInterval # 0, NEW o \in origins', NEW p \in origins',
               o.type \in Limited, o.type = p.type, o.node = p.node, o.dest = p.dest
        PROVE  o.seq = p.seq
    <3>1. PICK x \in origins : o.node = x.node /\ o.type = x.type /\ o.dest = x.dest /\ o.seq = x.seq
      BY <2>2
    <3>2. PICK y \in origins : p.node = y.node /\ p.type = y.type /\ p.dest = y.dest /\ p.seq = y.seq
      BY <2>2
    <3> QED
      BY <2>5, <3>1, <3>2 DEF IInv, OriginsTimed
  <2> QED
    BY <2>3, <2>4, <2>5 DEF OriginsTimed
<1>6. IInv'
  BY <1>1, <1>3, <1>4, <1>5 DEF IInv, Wired
<1>7. Justified
  BY <1>1, <1>2 DEF Justified
<1> QED
  BY <1>6, <1>7

\* Links of the radio change under routers that do not notice; no port of theirs is closed.
LEMMA ChangeLinkSafe ==
  ASSUME IInv, NEW n \in Nodes, NEW m \in Nodes, ChangeLink(n, m)
  PROVE  IInv' /\ Justified
<1>1. links' \in SUBSET Links
  <2>1. n # m /\ links \in SUBSET Links
    BY PheromoneBounds DEF ChangeLink, IInv
  <2>2. {<<n, m>>, <<m, n>>} \in SUBSET Links
    BY <2>1 DEF Links
  <2> QED
    BY <2>1, <2>2 DEF ChangeLink
<1>2. ~ Wired /\ UNCHANGED <<scenario, node, radio, held, ports, streak, origins>>
  BY DEF ChangeLink
<1>3. \A k \in Nodes : ports[k].up
  BY <1>2 DEF IInv
<1> QED
  BY <1>1, <1>2, <1>3, IdleSafe DEF IInv

\* A cable that is cut costs each end the neighbours heard on it, and no other.
LEMMA InterfaceDownType ==
  ASSUME IInv, NEW n \in Nodes
  PROVE  LET S == IF EnableMacFailureDetector THEN ports[n].heard ELSE {}
             X == Loud(node[n], node[n].table.nbrs \ S, node[n].fails)
         IN InterfaceDown(n) \in Outcomes(n, X, node[n]) /\ S \cap InterfaceDown(n).st.table.nbrs = {}
<1> DEFINE S == IF EnableMacFailureDetector THEN ports[n].heard ELSE {}
           s == node[n]
           X == Loud(s, s.table.nbrs \ S, s.fails)
           r == ForEach(S, Result(s, {}), LAMBDA q, m : Then(q, Severed(q.st, m)))
<1>1. InterfaceDown(n) = r
  BY DEF InterfaceDown
<1>2. /\ IsSane(n, s) /\ S \in SUBSET Nodes
      /\ \A m \in Nodes : s.fails[m] \in Nat /\ s.fails[m] <= s.fails[m]
  BY NodeIs, RouterBounds DEF IInv, Ports
<1>3. s \in Sane(n, X) /\ Free(X) /\ X.near = s.table.nbrs \ S
  BY <1>2, LoudType DEF Loud
<1> HIDE DEF S, X
<1>4. S \in SUBSET (Nodes \ X.near)
  BY <1>2, <1>3
<1>5. r \in Outcomes(n, X, s) /\ S \cap r.st.table.nbrs = {}
  BY <1>3, <1>4, SeverAllType, Zenon
<1>6. InterfaceDown(n) \in Outcomes(n, X, s) /\ S \cap InterfaceDown(n).st.table.nbrs = {}
  BY <1>1, <1>5, Zenon
<1> QED
  BY <1>6 DEF S, X

\* A port that is closed, and what is left heard on it.
Closed(port, heard) == [port EXCEPT !.up = FALSE, !.heard = heard]

\* Closing a port.
LEMMA ClosedType ==
  ASSUME NEW port \in [up : BOOLEAN, heard : SUBSET Nodes, ticks : Nat], NEW heard \in SUBSET Nodes
  PROVE  Closed(port, heard) \in [up : BOOLEAN, heard : SUBSET Nodes, ticks : Nat] /\ ~ Closed(port, heard).up
  BY DEF Closed

\* CutCable: both ends report whole streaks, and every flood that launches is recorded.
LEMMA CutCableSafe ==
  ASSUME IInv, CutCable
  PROVE  IInv' /\ Justified
<1> DEFINE S(n) == IF EnableMacFailureDetector THEN ports[n].heard ELSE {}
           X(n) == Loud(node[n], node[n].table.nbrs \ S(n), node[n].fails)
           down == [n \in Nodes |-> InterfaceDown(n)]
           out == [n \in Nodes |-> down[n].out]
<1>1. /\ Wired /\ links # {}
      /\ node' = [n \in Nodes |-> down[n].st]
      /\ origins' = origins \cup UNION {Launched(n, down[n].out) : n \in Nodes}
      /\ ports' = [n \in Nodes |-> [ports[n] EXCEPT !.up = FALSE,
                                      !.heard = IF EnableMacFailureDetector THEN {} ELSE ports[n].heard]]
      /\ links' = {}
      /\ UNCHANGED <<scenario, radio, held, streak>>
  BY DEF CutCable
<1>2. ASSUME NEW n \in Nodes
      PROVE  /\ down[n].st \in Sane(n, X(n)) /\ down[n].out \in SUBSET Decisions(n, X(n))
             /\ Spaced(n, node[n], down[n].st, down[n].out)
             /\ S(n) \cap down[n].st.table.nbrs = {}
  <2>1. InterfaceDown(n) \in Outcomes(n, X(n), node[n]) /\ S(n) \cap InterfaceDown(n).st.table.nbrs = {}
    BY InterfaceDownType
  <2>2. down[n] = InterfaceDown(n)
    OBVIOUS
  <2> HIDE DEF down, S, X
  <2> QED
    BY <2>1, <2>2 DEF Outcomes, Results
<1> HIDE DEF down
<1>3. ASSUME NEW n \in Nodes
      PROVE  /\ IsSane(n, node'[n]) /\ node[n].table.nbrs \ S(n) \subseteq node'[n].table.nbrs
             /\ \A m \in Nodes : node'[n].fails[m] <= node[n].fails[m]
             /\ node'[n].fails \in [Nodes -> 0 .. TxFailureThreshold - 1]
             /\ S(n) \cap node'[n].table.nbrs = {}
  <2>1. node'[n] = down[n].st
    BY <1>1
  <2>2. X(n).near = node[n].table.nbrs \ S(n) /\ X(n).most = node[n].fails
    BY DEF Loud
  <2> HIDE DEF S, X
  <2>3. IsSane(n, node'[n])
    BY <1>2, <2>1, SaneIs
  <2> QED
    BY <1>2, <2>1, <2>2, <2>3 DEF Sane, Routers
<1>4. NodesSane(node')
  BY <1>1, <1>3 DEF NodesSane
<1>5. StreaksCount(node', streak')
  <2>1. ASSUME NEW n \in Nodes, NEW m \in Nodes PROVE node'[n].fails[m] <= streak[n][m]
    <3>1. /\ node'[n].fails[m] \in Nat /\ node[n].fails[m] \in Nat /\ streak[n][m] \in Nat
          /\ node'[n].fails[m] <= node[n].fails[m] /\ node[n].fails[m] <= streak[n][m]
      BY <1>3, NodeIs, RouterBounds
    <3> QED
      BY <3>1
  <2> QED
    BY <1>1, <2>1 DEF IInv, StreaksCount
<1>6. OriginsTimed(node', origins')
  <2>1. \A n \in Nodes : out[n] = down[n].out /\ node'[n] = down[n].st
    BY <1>1
  <2> HIDE DEF out
  <2>2. StepsSpaced(node, node', out)
    <3> SUFFICES ASSUME NEW n \in Nodes
                 PROVE  /\ Spaced(n, node[n], node'[n], out[n])
                        /\ \E Y : out[n] \in SUBSET Decisions(n, Y)
      BY DEF StepsSpaced
    <3> HIDE DEF X, S
    <3> QED
      BY <1>2, <2>1
  <2>3. Records(origins, origins', out)
    BY <1>1, <2>1 DEF Records
  <2> QED
    BY <2>2, <2>3, OriginsStay DEF IInv
<1>7. ports' \in Ports /\ \A n \in Nodes : ~ ports'[n].up
  <2> DEFINE heard(n) == IF EnableMacFailureDetector THEN {} ELSE ports[n].heard
  <2>1. ASSUME NEW n \in Nodes
        PROVE  /\ ports[n] \in [up : BOOLEAN, heard : SUBSET Nodes, ticks : Nat] /\ heard(n) \in SUBSET Nodes
    BY DEF IInv, Ports
  <2>2. ports' = [n \in Nodes |-> [ports[n] EXCEPT !.up = FALSE, !.heard = heard(n)]]
    BY <1>1
  <2> HIDE DEF heard
  <2>3. \A n \in Nodes : Closed(ports[n], heard(n)) \in [up : BOOLEAN, heard : SUBSET Nodes, ticks : Nat]
    BY <2>1, ClosedType
  <2>4. \A n \in Nodes : ~ Closed(ports[n], heard(n)).up
    BY <2>1, ClosedType
  <2>5. ports' = [n \in Nodes |-> Closed(ports[n], heard(n))]
    BY <2>2 DEF Closed
  <2> QED
    BY <2>3, <2>4, <2>5 DEF Ports
<1>8. IInv'
  BY <1>1, <1>4, <1>5, <1>6, <1>7 DEF IInv, Wired
<1>9. \A n \in Nodes : ports[n].up
  BY <1>1 DEF IInv
<1>10. Justified
  BY <1>3, <1>7, <1>9 DEF Justified
<1> QED
  BY <1>8, <1>10

\* MendCable opens the ports and leaves the routers as they are.
LEMMA MendCableSafe ==
  ASSUME IInv, MendCable
  PROVE  IInv' /\ Justified
<1>1. /\ ports' = [n \in Nodes |-> [ports[n] EXCEPT !.up = TRUE]]
      /\ links' = InRange
      /\ UNCHANGED <<scenario, node, radio, held, streak, origins>>
  BY DEF MendCable
<1>2. links' \in SUBSET Links
  BY <1>1, ScenarioAssumption DEF Links, InRange, IInv
<1>3. ports' \in Ports /\ \A n \in Nodes : ports'[n].up
  <2>1. \A n \in Nodes : ports[n] \in [up : BOOLEAN, heard : SUBSET Nodes, ticks : Nat]
    BY DEF IInv, Ports
  <2>2. \A n \in Nodes : /\ [ports[n] EXCEPT !.up = TRUE] \in [up : BOOLEAN, heard : SUBSET Nodes, ticks : Nat]
                         /\ [ports[n] EXCEPT !.up = TRUE].up
    BY <2>1
  <2> QED
    BY <1>1, <2>2 DEF Ports
<1> QED
  BY <1>1, <1>2, <1>3, IdleSafe DEF IInv

\* A step that changes nothing.
LEMMA StutterSafe ==
  ASSUME IInv, UNCHANGED vars
  PROVE  IInv' /\ Justified
<1>1. UNCHANGED <<scenario, node, radio, held, links, ports, streak, origins>>
  BY DEF vars
<1> QED
  BY <1>1, IdleSafe DEF IInv

\* Every step keeps the invariant and evicts no one without cause: one case per action.
LEMMA NextSafe ==
  ASSUME IInv, [Next]_vars
  PROVE  IInv' /\ Justified
<1>1. ASSUME NEW flow \in Flows, OriginateData(flow[1], flow[2]) \/ DataTxError(flow[1], flow[2])
      PROVE  IInv' /\ Justified
  <2>1. flow[1] \in Nodes /\ flow[2] \in Nodes
    BY ScenarioAssumption DEF IInv, Flows
  <2> QED
    BY <1>1, <2>1, OriginateDataSafe, DataTxErrorSafe
<1>2. ASSUME NEW n \in Nodes, ReactiveRetryTimerExpire(n) PROVE IInv' /\ Justified
  BY <1>2, ReactiveRetryTimerExpireSafe
<1>3. ASSUME NEW n \in Nodes, HelloTimerExpire(n) PROVE IInv' /\ Justified
  BY <1>3, HelloTimerExpireSafe
<1>4. ASSUME NEW n \in Nodes, ProactiveTimerExpire(n) PROVE IInv' /\ Justified
  BY <1>4, ProactiveTimerExpireSafe
<1>5. ASSUME NEW n \in Nodes, NEW d \in held[n], Purge(n, d) PROVE IInv' /\ Justified
  BY <1>5, PurgeSafe
<1>6. ASSUME NEW n \in Nodes, NEW m \in Nodes, ChangeLink(n, m) PROVE IInv' /\ Justified
  BY <1>6, ChangeLinkSafe
<1>7. ASSUME NEW f \in radio, RecvAnt(f) PROVE IInv' /\ Justified
  BY <1>7, RecvAntSafe
<1>8. ASSUME NEW f \in radio, Lose(f) PROVE IInv' /\ Justified
  BY <1>8, LoseSafe
<1>9. ASSUME NEW f \in radio, AntTxError(f) PROVE IInv' /\ Justified
  BY <1>9, AntTxErrorSafe
<1>10. CASE Elapse
  BY <1>10, ElapseSafe
<1>11. CASE CutCable
  BY <1>11, CutCableSafe
<1>12. CASE MendCable
  BY <1>12, MendCableSafe
<1>13. CASE Finished
  BY <1>13, StutterSafe DEF Finished
<1>14. CASE UNCHANGED vars
  BY <1>14, StutterSafe
<1> QED
  BY <1>1, <1>2, <1>3, <1>4, <1>5, <1>6, <1>7, <1>8, <1>9, <1>10, <1>11, <1>12, <1>13, <1>14 DEF Next

-----------------------------------------------------------------------------
(* The theorems *)

\* Every router of every reachable state is sane: its tables are of one mind about its
\* neighbours, what is in the air was sent by such routers, and its counters and cooldowns are
\* those of what happened to it.
THEOREM RoutersStaySane == Spec => []IInv
<1>1. Init => IInv
  BY InitIInv
<1>2. IInv /\ [Next]_vars => IInv'
  BY NextSafe
<1> QED
  BY <1>1, <1>2, PTL DEF Spec

\* The sweep of onMaintenanceTick sees every neighbour of the pheromone table: whoever is in
\* the one is in the other.
THEOREM NeighborsTimed == Spec => []NeighborsAreTimed
<1>1. IInv => NeighborsAreTimed
  BY DEF IInv, NodesSane, IsSane, Sane, NeighborsAreTimed
<1> QED
  BY <1>1, RoutersStaySane, PTL

\* A route never outlives its neighbour: reportNeighborLoss erases all that went through it
\* and nothing writes it again, however late the ants that arrive.
THEOREM OrphansNever == Spec => []NoOrphanRoute
<1>1. IInv => NoOrphanRoute
  <2> SUFFICES ASSUME IInv, NEW n \in Nodes PROVE NoOrphans(node[n].table)
    BY DEF NoOrphanRoute, NoOrphans
  <2> QED
    BY DEF IInv, NodesSane, IsSane, Sane, Routers, Tables
<1> QED
  BY <1>1, RoutersStaySane, PTL

\* Where notes have an interval at all, no burst of losses, repairs and ticks makes a node
\* originate two LinkFails about a destination within it, nor two repair ants within theirs.
THEOREM FloodsStaySpaced ==
  ASSUME NotifyInterval # 0
  PROVE  Spec => []FloodsSpaced
<1>1. IInv => FloodsSpaced
  BY DEF IInv, OriginsTimed, FloodsSpaced, OncePer, Limited
<1> QED
  BY <1>1, RoutersStaySane, PTL

\* No step evicts a neighbour that was heard within the idle limit, unless it is the last of a
\* streak of failures that no reception broke, or cuts its cable; and that takes all of them.
THEOREM EvictionsJustified == Spec => EvictionJustified
<1>1. IInv /\ [Next]_vars => [Justified]_vars
  BY NextSafe
<1>2. EvictionJustified <=> [][Justified]_vars
  BY DEF EvictionJustified, Justified
<1> QED
  BY <1>1, <1>2, RoutersStaySane, PTL DEF Spec

=============================================================================
