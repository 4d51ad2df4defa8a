----------------------------- MODULE ShortestPath -----------------------------
(***************************************************************************)
(* core/src/shortest_path.cpp: single-source shortest paths on a graph of  *)
(* weighted directed edges.  The queue may hold a node more than once; an  *)
(* equal distance with a smaller first hop is an improvement too.          *)
(***************************************************************************)
EXTENDS Integers, FiniteSets, FiniteSetsExt

NoNode      == -1
Unreachable == 10 ^ 6     \* above any distance of an instance

\* edges: a set of [from, to, w].  Nodes are integers, as in the code: their order breaks ties.
Before(p, q) == p[1] < q[1] \/ (p[1] = q[1] /\ p[2] <= q[2])
Top(queue)   == CHOOSE p \in queue : \A q \in queue : Before(p, q)

\* What an edge out of u offers its end, in the state s of the search.
Offer(s, source, u, e) ==
  [dist |-> s.dist[u] + e.w, hop |-> IF u = source THEN e.to ELSE s.hop[u]]
IsBetter(offer, dist, hop) ==
  offer.dist < dist \/ (offer.dist = dist /\ (hop = NoNode \/ offer.hop < hop))

Relax(s, source, u, e) ==
  LET o == Offer(s, source, u, e)
  IN  IF e.to # source /\ o.hop # NoNode /\ IsBetter(o, s.dist[e.to], s.hop[e.to])
      THEN [dist  |-> [s.dist EXCEPT ![e.to] = o.dist],
            hop   |-> [s.hop EXCEPT ![e.to] = o.hop],
            queue |-> s.queue \cup {<<o.dist, e.to>>}]
      ELSE s

\* One turn of the search: the top is popped and, unless it is stale, its edges are relaxed.
Turn(edges, source, s) ==
  LET p      == Top(s.queue)
      popped == [s EXCEPT !.queue = @ \ {p}]
      out    == {e \in edges : e.from = p[2]}
  IN  IF p[1] > s.dist[p[2]] THEN popped
      ELSE MapThenFoldSet(LAMBDA e, t : Relax(t, source, p[2], e), popped,
                          LAMBDA e : e, LAMBDA S : CHOOSE e \in S : TRUE, out)

\* computeFrom: the distance of every node and the first hop on a shortest path to it.
ComputeFrom(nodes, edges, source) ==
  LET search[s \in [dist : [nodes -> Nat], hop : [nodes -> Int], queue : SUBSET (Nat \X Int)]] ==
        IF s.queue = {} THEN s ELSE search[Turn(edges, source, s)]
  IN  search[[dist  |-> [n \in nodes |-> IF n = source THEN 0 ELSE Unreachable],
              hop   |-> [n \in nodes |-> NoNode],
              queue |-> {<<0, source>>}]]

-----------------------------------------------------------------------------
(* The distances it promises, as the fixpoint of Bellman's equations: of   *)
(* every node to one.                                                      *)
Nearer(nodes, edges, d) ==
  [n \in nodes |-> Min({d[n]} \cup {d[e.to] + e.w : e \in {x \in edges : x.from = n}})]
DistTo(nodes, edges, target) ==
  LET settled[d \in [nodes -> Nat]] ==
        LET next == Nearer(nodes, edges, d) IN IF next = d THEN d ELSE settled[next]
  IN  settled[[n \in nodes |-> IF n = target THEN 0 ELSE Unreachable]]
=============================================================================
