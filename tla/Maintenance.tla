------------------------------ MODULE Maintenance ------------------------------
(***************************************************************************)
(* AntNetwork while links break and return: neighbours are learned and     *)
(* evicted, routes pruned, losses announced, paths repaired.               *)
(***************************************************************************)
EXTENDS AntNetwork

\* Timers expire, time passes, and a frame is received or not: nothing else is
\* assumed, least of all that data is sent or that links return.
Fairness ==
  /\ \A n \in Nodes : WF_vars(HelloTimerExpire(n))
  /\ WF_vars(\E f \in radio : RecvAnt(f) \/ Lose(f) \/ AntTxError(f))
  /\ WF_vars(Elapse)

FairSpec == Spec /\ Fairness

-----------------------------------------------------------------------------
(* Properties *)

\* Every neighbour the router may send to has a liveness entry, and so can be
\* evicted for silence: table_.neighbors() and lastSeen_ hold the same nodes,
\* though setPheromoneRegular adds to the first without the second.
NeighborsAreTimed == \A n \in Nodes : node[n].table.nbrs = Known(node[n])

\* Pruning is complete: no usable entry of either table is left through a node
\* that is not a neighbour, to come back to life when it is heard again.
NoOrphanRoute ==
  \A n, d, m \in Nodes :
    m \notin node[n].table.nbrs =>
      /\ node[n].table.reg[d][m] <= MinPheromone
      /\ node[n].table.virt[d][m] <= MinPheromone

\* A neighbour is evicted only for having been silent longer than the idle limit, for
\* txFailureThreshold failures with no ant accepted from it in between (failures on either
\* side of a reception never add up), or with its cable; and a cable takes all of those heard
\* on it along, whatever failures had been counted and whether or not their loss is announced.
EvictionJustified ==
  [][\A n \in Nodes :
       LET before == node[n].table.nbrs
           after  == node'[n].table.nbrs
           cut    == ports[n].up /\ ~ ports'[n].up
       IN /\ \A m \in before \ after : node[n].idle[m] > MaxIdle \/ streak'[n][m] >= TxFailureThreshold \/ cut
          /\ cut /\ EnableMacFailureDetector => ports[n].heard \cap after = {}]_vars

\* However links flap and failures burst, a node originates one LinkFail about a
\* destination per linkfailNotifyInterval, from whichever of its two origins, and
\* launches one repair ant for it per reactiveRetryInterval.
FloodsSpaced == OncePer("linkfail") /\ OncePer("repair")

\* A repair that is waited for ends: its deadline is cancelled by a backward ant
\* or reached by a maintenance tick.
RepairsResolve ==
  \A n, d \in Nodes : node[n].deadline[d] # Never ~> node[n].deadline[d] = Never

\* A link that stays down costs both ends the neighbour for good.
SilentEvicted ==
  \A n, m \in Nodes :
    <>[](<<n, m>> \notin links) => <>[](m \notin node[n].table.nbrs)

\* A link that stays up makes each end a neighbour of the other for good.
LinkedLearned ==
  \A n, m \in Nodes :
    <>[](<<n, m>> \in links) => <>[](m \in node[n].table.nbrs)

=============================================================================
