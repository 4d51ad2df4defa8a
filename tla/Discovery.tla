------------------------------- MODULE Discovery -------------------------------
(***************************************************************************)
(* Route discovery in a network whose links do not change: what the ants   *)
(* of AntNetwork carry and what the routes they lay down are worth.        *)
(***************************************************************************)
EXTENDS AntNetwork

\* Frames are delivered and a lossless radio loses none: the liveness of a
\* discovery rests on this alone, no timer helps it.
DiscoverySpec == Spec /\ WF_vars(\E f \in radio : RecvAnt(f))

\* The route in a retraced or growing path is one of links, without a repeated node.
SimplePath(path) ==
  /\ \A i, j \in DOMAIN path : path[i] = path[j] => i = j
  /\ \A i \in 1 .. Len(path) - 1 : <<path[i], path[i + 1]>> \in InRange

\* Onward[sc][n][x]: the nodes that n reaches over the links of scenario sc without
\* passing through x.
Onward ==
  LET Grow(sc, S, x) == S \cup {m \in Nodes \ {x} : \E y \in S : <<y, m>> \in sc.inRange}
  IN [sc \in Scenarios |-> [n \in Nodes |-> [x \in Nodes |->
        FoldLeft(LAMBDA S, i : Grow(sc, S, x), {n}, [i \in 1 .. Cardinality(Nodes) |-> i])]]]

-----------------------------------------------------------------------------
(* Properties *)

\* An ant in flight carries a path of real links without a loop; a forward ant
\* has been stamped by the node that sent it, and a backward ant is on its way
\* to the node on top of its stack, coming from the one it retraced last.  This
\* is what advanceBackAnt takes for granted when it pops the stack unread.
AntsOnTrack ==
  \A f \in {x \in radio : x.ant.type \notin {"hello", "linkfail"}} :
    /\ f.ant.dir = "up" => SimplePath(f.ant.visited) /\ Last(f.ant.visited) = f.from
    /\ f.ant.dir = "down" => /\ SimplePath(f.ant.visited \o Reverse(f.ant.history))
                             /\ Last(f.ant.visited) = f.to
                             /\ Last(f.ant.history) = f.from

\* A regular entry leads somewhere: the next hop is in range and reaches the
\* destination without coming back through the node that holds the entry.
RoutesAreReal ==
  \A n, d, m \in Nodes :
    node[n].table.reg[d][m] > 0 => <<n, m>> \in InRange /\ d \in Onward[scenario][m][n]

\* With the per-generation cap on, a node never floods a generation it did not
\* originate more often than the cap, however many copies its filter admits.
FloodBounded ==
  FloodCap >= 0 =>
    \A n \in Nodes : \A k \in DOMAIN node[n].gens.best :
      Cardinality({x \in flooded : x.node = n /\ Key(x.ant) = k}) <= FloodCap

\* Held data leaves its queue: the flood it started finds the destination and a
\* backward ant comes home.
DiscoveryCompletes ==
  LET Waiting == \E flow \in Flows : flow[2] \in held[flow[1]]
  IN (~Lossy /\ Waiting) ~> ~Waiting

=============================================================================
