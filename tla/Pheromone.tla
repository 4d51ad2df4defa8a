------------------------------- MODULE Pheromone -------------------------------
(***************************************************************************)
(* PheromoneTable and PheromoneEngine (core/src/pheromone_table.cpp and    *)
(* pheromone_engine.cpp) as operators on a table                           *)
(*     [nbrs, reg, virt]                                                   *)
(* nbrs is neighborTable_; reg[d][n] and virt[d][n] are the regular and    *)
(* virtual pheromone towards d via n, 0 when there is no entry.  The       *)
(* destination sets are not kept: they only select which entries a loop    *)
(* visits, and an absent entry reads as 0 in every one of them.            *)
(*                                                                         *)
(* Pheromone is a natural number: what the code does with a value is to    *)
(* compare it with another or with minPheromone, so the scale only keeps   *)
(* the order of the results: a reinforced value is a mean, an aged or      *)
(* discounted one is strictly smaller and may fall to or below the floor.  *)
(***************************************************************************)
EXTENDS Integers, FiniteSets

CONSTANTS
  Nodes,            \* node addresses, ordered as the code's maps order them
  NoNode,           \* kInvalidAddress
  MinPheromone,     \* Config::minPheromone
  MaxPheromone,     \* what one hop over an idle link deposits
  EnableProactive, EnableDiffusion,
  DrawMayBeZero     \* may IRng::uniform() return exactly 0? Its contract is [0, 1)

ASSUME PheromoneAssumption ==
  /\ IsFiniteSet(Nodes) /\ Nodes \subseteq Nat /\ NoNode \notin Nodes
  /\ MinPheromone \in Nat \ {0}
  /\ MaxPheromone \in Nat /\ MaxPheromone >= 2 * MinPheromone + 1
  /\ EnableProactive \in BOOLEAN /\ EnableDiffusion \in BOOLEAN
  /\ DrawMayBeZero \in BOOLEAN

Bigger(a, b) == IF a > b THEN a ELSE b

-----------------------------------------------------------------------------
(* PheromoneTable *)

EmptyTable ==
  [nbrs |-> {},
   reg  |-> [d \in Nodes |-> [n \in Nodes |-> 0]],
   virt |-> [d \in Nodes |-> [n \in Nodes |-> 0]]]

AddNeighbor(t, n) == [t EXCEPT !.nbrs = @ \cup {n}]

\* Storing a regular entry also makes its next hop a neighbour.
SetRegular(t, d, n, v) == [AddNeighbor(t, n) EXCEPT !.reg[d][n] = v]
RemoveRegular(t, d, n) == [t EXCEPT !.reg[d][n] = 0]

\* Storing a virtual entry does not.
SetVirtual(t, d, n, v) == [t EXCEPT !.virt[d][n] = v]

\* The best pheromone over the current neighbours only.
Best(row, nbrs) ==
  IF nbrs = {} THEN 0 ELSE CHOOSE v \in {row[n] : n \in nbrs} : \A n \in nbrs : row[n] <= v
BestRegular(t, d) == Best(t.reg[d], t.nbrs)

HasRoute(t, d) == BestRegular(t, d) > MinPheromone

\* What a neighbour weighs in the draw: proactive ants read both tables.
Weight(t, d, n, proactive) ==
  IF proactive THEN Bigger(t.reg[d][n], t.virt[d][n]) ELSE t.reg[d][n]

\* The neighbours the roulette wheel may stop at.  A draw of exactly 0 stops at
\* the first neighbour whatever its weight.
DrawFrom(t, d, proactive, candidates) ==
  {n \in candidates :
     \/ Weight(t, d, n, proactive) > 0
     \/ DrawMayBeZero /\ \A m \in candidates : n <= m}

\* nextNeighborNode: the possible next hops towards d, {NoNode} when there is
\* none.  The previous hop is considered when it is the only way on.
NextHopChoices(t, d, proactive, exclude) ==
  LET Live(S) == \E n \in S : Weight(t, d, n, proactive) > 0
  IN IF Live(t.nbrs \ {exclude}) THEN DrawFrom(t, d, proactive, t.nbrs \ {exclude})
     ELSE IF Live(t.nbrs) THEN DrawFrom(t, d, proactive, t.nbrs)
     ELSE {NoNode}

-----------------------------------------------------------------------------
(* PheromoneEngine *)

\* gamma * old + (1 - gamma) * update, as a mean rounded up.
Reinforce(old, update) == (old + update + 1) \div 2

\* One evaporation interval's worth of aging.
Aged(v) == v - 1

\* 1 / (1 / v + hopCost): the same path seen from one hop further away.
Discounted(v) == IF v > 1 THEN v - 1 ELSE v

\* ILinkMetric::pheromone of a retraced path of the given number of hops.
Deposit(hops) == Bigger(MaxPheromone + 1 - hops, 2 * MinPheromone + 1)

UpdateRegular(t, d, n, update) == SetRegular(t, d, n, Reinforce(t.reg[d][n], update))

EvaporateRow(row, nbrs) ==
  [n \in Nodes |->
     IF n \notin nbrs \/ row[n] = 0 THEN row[n]
     ELSE IF Aged(row[n]) < MinPheromone THEN 0 ELSE Aged(row[n])]

\* evaporateAll over one interval: both tables, the entries of neighbours only.
EvaporateAll(t) ==
  [t EXCEPT !.reg  = [d \in Nodes |-> EvaporateRow(@[d], t.nbrs)],
            !.virt = [d \in Nodes |-> EvaporateRow(@[d], t.nbrs)]]

\* updateVirtual: the adverts of a hello, bootstrapped one hop further.
UpdateVirtual(t, from, adverts) ==
  IF ~ (EnableProactive /\ EnableDiffusion) THEN t
  ELSE [t EXCEPT !.virt = [d \in Nodes |->
          IF d \in DOMAIN adverts
          THEN [t.virt[d] EXCEPT ![from] = Reinforce(@, IF adverts[d] > 0 THEN Discounted(adverts[d]) ELSE 0)]
          ELSE t.virt[d]]]

\* Mutant of CleanNeighbor: the virtual table is not cleaned.
CleanNeighborRegular(t, n) ==
  [t EXCEPT !.reg  = [d \in Nodes |-> [@[d] EXCEPT ![n] = IF @ < MinPheromone THEN @ ELSE 0]],
            !.nbrs = @ \ {n}]

\* cleanNeighbor: an entry below the floor is left behind.
CleanNeighbor(t, n) ==
  LET Clean(table) ==
        [d \in Nodes |-> [table[d] EXCEPT ![n] = IF @ < MinPheromone THEN @ ELSE 0]]
  IN [t EXCEPT !.reg = Clean(@), !.virt = Clean(@), !.nbrs = @ \ {n}]

=============================================================================
