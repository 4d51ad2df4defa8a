--------------------------- MODULE GenerationTracker ---------------------------
(***************************************************************************)
(* GenerationTracker (core/src/ant_history.cpp) as a state machine: the    *)
(* filter a reactive forward ant passes when multipath is on.  It admits   *)
(* several ants of one generation, so nothing but this filter keeps a      *)
(* flooded ant from circulating.  A refused ant changes nothing and is not *)
(* a step.                                                                 *)
(***************************************************************************)
EXTENDS AntHistory

CONSTANTS
  Keys,             \* (src, seq) generations
  Hops, Times,      \* hop counts and travel times an ant may carry
  FirstHops,        \* first hops after the source
  MaxBroadcasts     \* the cap callers pass to allowBroadcast

\* An ant that reaches accept() carries its source in visited, so at least one
\* hop; a1 is below 1 in Config and that is what the filter's promise rests on.
ASSUME GenerationAssumption ==
  /\ Hops \subseteq Nat \ {0} /\ Times \subseteq Nat
  /\ MaxBroadcasts \in Int
  /\ A1 < ADen

VARIABLES
  gens,    \* best_ and insertionOrder_
  trail    \* history variable: per resident generation, the ants admitted since
           \* it became resident

vars == <<gens, trail>>

Ant(hops, time, fh) == [hops |-> hops, time |-> time, firstHop |-> fh]

\* The trail of what is resident after the step, with ants appended to that of k.
TrailAfter(newGens, k, ants) ==
  [x \in DOMAIN newGens.best |->
     (IF x \in DOMAIN trail THEN trail[x] ELSE <<>>) \o (IF x = k THEN ants ELSE <<>>)]

Init == gens = EmptyGenerations /\ trail = [k \in {} |-> <<>>]

\* accept() returning true.
AcceptAnt(k, hops, time, fh) ==
  /\ Admits(gens, k, hops, time, fh)
  /\ gens' = Admit(gens, k, hops, time, fh)
  /\ trail' = TrailAfter(gens', k, <<Ant(hops, time, fh)>>)

\* allowBroadcast(), whether it grants the broadcast or not.
AllowBroadcast(k) ==
  /\ gens' = ClaimBroadcast(gens, k, MaxBroadcasts)
  /\ trail' = TrailAfter(gens', k, <<>>)

ClearTracker == gens' = EmptyGenerations /\ trail' = [k \in {} |-> <<>>]

Next ==
  \/ \E k \in Keys, h \in Hops, t \in Times, fh \in FirstHops : AcceptAnt(k, h, t, fh)
  \/ \E k \in Keys : AllowBroadcast(k)
  \/ ClearTracker

Spec == Init /\ [][Next]_vars

-----------------------------------------------------------------------------
Bests == [hops : Nat, time : Nat, broadcasts : Nat, firstHops : SUBSET FirstHops]

\* The types, and the caps on resident generations, on the first hops one of
\* them pins and on its broadcasts.
TypeOK ==
  /\ DOMAIN gens.best \subseteq Keys
  /\ gens.order \in Seq(Keys)
  /\ \A k \in DOMAIN gens.best : gens.best[k] \in Bests
  /\ MaxHistory # 0 => Len(gens.order) <= MaxHistory
  /\ \A k \in DOMAIN gens.best : Cardinality(gens.best[k].firstHops) <= MaxFirstHops
  /\ MaxBroadcasts >= 0 => \A k \in DOMAIN gens.best : gens.best[k].broadcasts <= MaxBroadcasts

\* The map and the deque that evicts from it hold the same generations, each
\* once, although two operations insert into them.
StoreAgrees ==
  LET q == gens.order
  IN /\ DOMAIN gens.best = {q[i] : i \in 1 .. Len(q)}
     /\ \A i, j \in 1 .. Len(q) : q[i] = q[j] => i = j
     /\ DOMAIN trail = DOMAIN gens.best

\* The recorded metrics are the minima over every ant admitted, metric by metric,
\* even when no single ant had both.
BestIsMinimum ==
  \A k \in DOMAIN trail : trail[k] # <<>> =>
    LET b == gens.best[k]
        T == trail[k]
    IN /\ \E i \in 1 .. Len(T) : T[i].hops = b.hops
       /\ \E i \in 1 .. Len(T) : T[i].time = b.time
       /\ \A i \in 1 .. Len(T) : b.hops <= T[i].hops /\ b.time <= T[i].time

\* Two ants of a generation admitted over the same first hop: the later one came
\* a strictly shorter way.  An ant that looped back comes with the first hop it
\* left with and more hops, so it is refused: this is the loop detection that
\* replaces (src, seq) dedup for reactive forward ants.
NoReturn ==
  \A k \in DOMAIN trail : \A i, j \in 1 .. Len(trail[k]) :
    i < j /\ trail[k][i].firstHop = trail[k][j].firstHop
      => trail[k][j].hops < trail[k][i].hops

\* Every admission after the first either spends a first hop or a hop of the
\* first ant's count, so a node forwards a generation a bounded number of times.
AdmissionsBounded ==
  \A k \in DOMAIN trail : trail[k] # <<>> =>
    Len(trail[k]) <= 1 + Cardinality(gens.best[k].firstHops)
                       + trail[k][1].hops - gens.best[k].hops

=============================================================================
