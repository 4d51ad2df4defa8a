---------------------------- MODULE OracleTopology ----------------------------
(***************************************************************************)
(* ns3/baselines/oracle/model/oracle-topology.cc: the edge set read off    *)
(* the simulator on a timer, each node's view of it, and the next hops.    *)
(* With current knowledge all rows are solved when the edge set changes;   *)
(* with predicted knowledge a row is solved at its node's next lookup,     *)
(* on the edge set without the links that node has learned are down.       *)
(***************************************************************************)
EXTENDS ShortestPath, SequencesExt

NoRoute == [to |-> NoNode, ch |-> 0]

\* edges: m_links, directed, [from, to, ch, w]; known: m_knownDown; dirty: m_rowDirty;
\* rows: m_nextHop.  A channel's number stands for the interface that leads to it.
NewTopology(nodes) ==
  [edges |-> {},
   known |-> [n \in nodes |-> {}],
   dirty |-> {},
   rows  |-> [n \in nodes |-> [d \in nodes |-> NoRoute]]]

\* FillRow: of several links to the first hop, the one on the lowest interface.
FillRow(nodes, edges, u, hop) ==
  [d \in nodes |->
    IF hop[d] = NoNode THEN NoRoute
    ELSE [to |-> hop[d], ch |-> Min({e.ch : e \in {x \in edges : x.from = u /\ x.to = hop[d]}})]]

\* SolveRow: the shortest paths of u on the edges that are not on a skipped channel.
SolveRow(nodes, edges, u, skip) ==
  FillRow(nodes, edges, u, ComputeFrom(nodes, {e \in edges : e.ch \notin skip}, u).hop)

\* The change test leaves the weights out; with the delay metric every rebuild counts as a change.
Shape(edges) == {[from |-> e.from, to |-> e.to, ch |-> e.ch] : e \in edges}

Recompute(topo, nodes, links, metric, knowledge) ==
  IF metric # "delay" /\ Shape(links) = Shape(topo.edges) THEN topo
  ELSE IF knowledge = "predicted"
  THEN [topo EXCEPT !.edges = links, !.dirty = nodes, !.rows = NewTopology(nodes).rows]
  ELSE [topo EXCEPT !.edges = links,
                    !.rows = [u \in nodes |-> SolveRow(nodes, links, u, {})]]

\* LearnLinkState: only this node's view changes.  Before the first recompute no row can be dirty.
LearnKeepingRow(topo, node, ch, down) ==
  [topo EXCEPT !.known[node] = IF down THEN @ \cup {ch} ELSE @ \ {ch}]
Learn(topo, node, ch, down) ==
  LET known   == IF down THEN topo.known[node] \cup {ch} ELSE topo.known[node] \ {ch}
      changed == known # topo.known[node]
  IN  [topo EXCEPT !.known[node] = known,
                   !.dirty = IF changed /\ topo.edges # {} THEN @ \cup {node} ELSE @]

LearnAll(topo, node, chs, down) ==
  MapThenFoldSet(LAMBDA c, t : Learn(t, node, c, down), topo, LAMBDA c : c,
                 LAMBDA S : CHOOSE c \in S : TRUE, chs)

\* Lookup: the topology after it, and the next hop is then in the row.
Looked(topo, nodes, u) ==
  IF u \in topo.dirty
  THEN [topo EXCEPT !.rows[u] = SolveRow(nodes, topo.edges, u, topo.known[u]),
                    !.dirty = @ \ {u}]
  ELSE topo

-----------------------------------------------------------------------------
(* The row of u leads to t along a shortest path of what u knows, and      *)
(* first to the smallest of the neighbours that do.                        *)
ViewOf(topo, u) == {e \in topo.edges : e.ch \notin topo.known[u]}
RowIsRight(topo, nodes, u, t) ==
  LET view == ViewOf(topo, u)
      d    == DistTo(nodes, view, t)
      good == {e.to : e \in {x \in view : x.from = u /\ x.w + d[x.to] = d[u]}}
  IN  topo.rows[u][t].to = IF u = t \/ d[u] >= Unreachable THEN NoNode ELSE Min(good)
=============================================================================
