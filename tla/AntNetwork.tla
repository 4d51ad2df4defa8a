------------------------------ MODULE AntNetwork ------------------------------
(***************************************************************************)
(* Several AntHocNet nodes, the ns-3 adapter of each (its timers, its MAC  *)
(* feedback and its pending queue, anthocnet-routing-protocol.cc) and the  *)
(* radio between them.                                                     *)
(*                                                                         *)
(* The radio holds frames [from, to, mac, ant]: a broadcast is one frame   *)
(* per node in range.  Frames are delivered in any order; a broadcast      *)
(* frame may be lost; a unicast frame that gets no acknowledgement makes   *)
(* the MAC report a failure to the sender, and the frame may have been     *)
(* received all the same.  A unit of time is one hello interval: within it *)
(* every node's hello timer expires once and every frame arrives or is     *)
(* lost.  The pending queue is represented by the destinations it holds    *)
(* packets for; RequestQueue models the queue itself.                      *)
(*                                                                         *)
(* In a wired scenario two nodes share a point-to-point cable: no MAC      *)
(* reports a lost frame, and cutting the cable takes down the one          *)
(* interface that each of them has.                                        *)
(***************************************************************************)
EXTENDS AntRouter

CONSTANTS
  Scenarios,   \* what a behaviour may be about: records with the fields below
  Delays,      \* travel times a hop may add to an ant
  Timed,       \* do timers expire and time pass?
  EnableMacFailureDetector

\* No node is in range of itself; what was heard came over a link of the start, and so did
\* what a route was learned from.
ASSUME ScenarioAssumption ==
  /\ Delays \subseteq Nat
  /\ \A sc \in Scenarios :
       /\ sc.inRange \subseteq {l \in Nodes \X Nodes : l[1] # l[2]}
       /\ sc.heard \subseteq sc.inRange
       /\ \A r \in sc.routes : /\ r[2] \in Nodes /\ r[4] \in Nat \ {0}
                             /\ <<r[1], r[3]>> \in sc.heard
       /\ sc.flows \subseteq Nodes \X Nodes
       /\ sc.floodCap \in Int /\ sc.helloEvery \in Nat \ {0}

VARIABLES
  scenario,  \* one of the Scenarios, chosen at the start
  node,      \* the AntRouterLogic of every node
  radio,     \* frames in flight
  held,      \* the destinations of every node's pending queue
  links,     \* pairs of nodes in range of each other
  ports,     \* every node's interface, see FreshPort
  due,       \* nodes whose hello timer has yet to expire in this unit of time
  timers,    \* expirations every node's other timers have left in this unit
  clock,     \* units of time passed, when Horizon bounds them
  changes,   \* link changes so far
  streak,    \* history: failures n was told of m since it last accepted an ant from m
  origins,   \* history: floods launched, with their age, within their interval
  flooded    \* history: reactive ants each node broadcast for others under a cap

vars == <<scenario, node, radio, held, links, ports, due, timers, clock, changes, streak, origins, flooded>>

-----------------------------------------------------------------------------
(* The scenario *)

Present     == scenario.nodes        \* the others are switched off
InRange     == scenario.inRange      \* the links up at the start, a symmetric relation
Heard       == scenario.heard        \* <<node, neighbour>> known at the start
Routes      == scenario.routes       \* regular entries at the start: <<node, dest, next, hops>>
Flows       == scenario.flows        \* <<source, dest>> of the data sessions
Lossy       == scenario.lossy        \* may frames between linked nodes be lost?
FloodCap    == scenario.floodCap     \* reactiveMaxBroadcasts of every node
LinkChanges == scenario.linkChanges  \* bound: how many links may go up or down
Horizon     == scenario.horizon      \* bound: units of time, 0 for none
Retries     == scenario.retries      \* reactive-retry expirations per node and unit of time
Proactives  == scenario.proactives   \* proactive-timer expirations per node and unit of time
Prompt      == scenario.prompt       \* bound: does every frame land before the next hello timer?
Wired       == scenario.wired        \* a cable between two nodes in place of the radio
HelloEvery  == scenario.helloEvery   \* P2pHelloEvery: which of the hellos a cable carries

-----------------------------------------------------------------------------
(* The radio and the adapter *)

Frames(n, d) ==
  IF d.act = "broadcast"
  THEN {[from |-> n, to |-> m, mac |-> "broadcast", ant |-> d.ant] : m \in {x \in Nodes : <<n, x>> \in links}}
  ELSE {[from |-> n, to |-> d.next, mac |-> IF Wired THEN "wire" ELSE "unicast", ant |-> d.ant]}

\* The frames ExecuteDecisions sends; none without a socket.
Sent(n, out) == IF ~ ports[n].up THEN {} ELSE UNION {Frames(n, d) : d \in {x \in out : x.ant # NoAnt}}

RouteExists(s, d) == DataChoices(s, d, NoNode) # {NoNode}

\* FlushQueue: the packets for d leave if the router now has a next hop for them.
FlushQueue(h, s, d) == IF RouteExists(s, d) THEN h \ {d} ELSE h

\* The interval within which a flood for the same destination may not be repeated.
Interval(type) == IF type = "linkfail" THEN NotifyInterval ELSE RetryInterval

\* The floods node n launches with the decisions out.  A LinkFail it passes on has
\* lost more of its budget than one it originates.
Launched(n, out) ==
  UNION {LET a == x.ant IN
         CASE a.type = "linkfail" /\ a.budget = RepairMaxBroadcasts - 1 ->
                {[node |-> n, type |-> "linkfail", dest |-> d, seq |-> a.seq, age |-> 0] : d \in DOMAIN a.dests}
           [] a.type \in {"repair", "reactive"} /\ a.dir = "up" /\ a.visited = <<n>> ->
                {[node |-> n, type |-> a.type, dest |-> a.dst, seq |-> a.seq, age |-> 0]}
           [] OTHER -> {} : x \in out}

\* The reactive ants of others that node n broadcasts with the decisions out,
\* where their number is capped.
Relayed(n, out) ==
  IF FloodCap < 0 THEN {}
  ELSE {[node |-> n, ant |-> d.ant] :
          d \in {x \in out : /\ x.act = "broadcast" /\ x.ant.type = "reactive"
                            /\ Len(x.ant.visited) >= 2}}

\* Node n goes to r.st and acts on r.out; h is its queue before DiscardQueue, f
\* the frames that stay in flight.
Perform(n, r, h, f) ==
  /\ node' = [node EXCEPT ![n] = r.st]
  /\ radio' = f \cup Sent(n, r.out)
  /\ held' = [held EXCEPT ![n] = h \ {x.next : x \in {y \in r.out : y.act = "discard"}}]
  /\ origins' = origins \cup Launched(n, r.out)
  /\ flooded' = flooded \cup Relayed(n, r.out)
  /\ UNCHANGED scenario

\* What the history says of m once n was told of a failure, or heard m.
Failed(n, m) == streak' = [streak EXCEPT ![n][m] = Lesser(@ + 1, TxFailureThreshold)]
Reset(n, m)  == streak' = [streak EXCEPT ![n][m] = 0]

Untimed == UNCHANGED <<links, ports, due, timers, clock, changes>>

-----------------------------------------------------------------------------
(* Initial states *)

\* up: has the interface its sockets?  heard: the neighbours whose hellos came in on it
\* (m_ifaceNeighbors); ticks: hello timers since it last carried a hello (m_helloTicks).  Only
\* a point-to-point interface uses the last two.
FreshPort(n) == [up |-> TRUE, heard |-> IF Wired THEN {m \in Nodes : <<n, m>> \in Heard} ELSE {}, ticks |-> 0]

FreshTimers == [n \in Nodes |-> [retry |-> Retries, proactive |-> Proactives]]

\* A node that has heard its neighbours and been reinforced along its Routes.
Warm(n) ==
  LET near == ForEach({m \in Nodes : <<n, m>> \in Heard}, InitRouter(n, FloodCap), LearnNeighbor)
      Entries(d, m) == {r \in Routes : r[1] = n /\ r[2] = d /\ r[3] = m}
  IN [near EXCEPT !.table.reg = [d \in Nodes |-> [m \in Nodes |->
        IF Entries(d, m) = {} THEN @[d][m]
        ELSE Reinforce(@[d][m], Deposit((CHOOSE r \in Entries(d, m) : TRUE)[4]))]]]

Init ==
  /\ scenario \in Scenarios
  /\ node = [n \in Nodes |-> Warm(n)]
  /\ radio = {}
  /\ held = [n \in Nodes |-> {}]
  /\ links = InRange
  /\ ports = [n \in Nodes |-> FreshPort(n)]
  /\ due = IF Timed THEN Present ELSE {}
  /\ timers = FreshTimers
  /\ clock = 0
  /\ changes = 0
  /\ streak = [n \in Nodes |-> [m \in Nodes |-> 0]]
  /\ origins = {}
  /\ flooded = {}

-----------------------------------------------------------------------------
(* Data *)

\* RouteOutput, and for a packet without a route RouteInput and
\* DeferredRouteOutput behind the loopback bounce.  Without an interface it refuses the packet.
OriginateData(n, d) ==
  /\ ports[n].up
  /\ LET s == NoteDataSession(node[n], d)
     IN \E r \in DataPacket(s, d, NoNode) :
          Perform(n, r, IF RouteExists(s, d) THEN held[n] ELSE held[n] \cup {d}, radio)
  /\ Untimed /\ UNCHANGED streak

\* NotifyTxError for a data packet to d: the MAC gave up on next, the router is
\* told, the packet is queued again and flushed if a route is left.
DataTxError(n, d) ==
  /\ EnableMacFailureDetector /\ ~ Wired
  /\ \E next \in DataChoices(node[n], d, NoNode) \ {NoNode} :
       /\ Lossy \/ <<n, next>> \notin links
       /\ LET r == TxFailure(node[n], next, d)
          IN Perform(n, r,
                     FlushQueue((held[n] \ {x.next : x \in {y \in r.out : y.act = "discard"}}) \cup {d},
                                r.st, d),
                     radio)
       /\ Failed(n, next)
  /\ Untimed

\* ReactiveRetryTimerExpire: flood again for every held destination without a
\* route, flush the others.
ReactiveRetryTimerExpire(n) ==
  /\ held[n] # {} /\ timers[n].retry > 0
  /\ LET lost == {d \in held[n] : ~ RouteExists(node[n], d)}
         Emit(r, d) == LET t == NextSeq(r.st)
                       IN Result(t, r.out \cup {Flood(ForwardAnt(t, "reactive", d))})
         r == ForEach(lost, Result(node[n], {}), Emit)
     IN Perform(n, r, lost, radio)
  /\ timers' = [timers EXCEPT ![n].retry = @ - 1]
  /\ UNCHANGED <<links, ports, due, clock, changes, streak>>

\* RequestQueue::Purge: the packets for d have waited for the queue timeout.
Purge(n, d) ==
  /\ Timed
  /\ held' = [held EXCEPT ![n] = @ \ {d}]
  /\ UNCHANGED <<scenario, node, radio, origins, flooded, streak>>
  /\ Untimed

-----------------------------------------------------------------------------
(* Ants *)

\* RecvAnt: a hello's sender is noted with the cable, the router handles the ant, a
\* backward ant flushes the queue for its origin, then the decisions are executed.
RecvAnt(f) ==
  /\ <<f.from, f.to>> \in links
  /\ \E dt \in Delays : \E r \in ReceiveAnt(node[f.to], f.ant, f.from, dt) :
       Perform(f.to, r,
               IF f.ant.dir = "down" THEN FlushQueue(held[f.to], r.st, f.ant.src) ELSE held[f.to],
               radio \ {f})
  /\ IF Accepts(node[f.to], f.ant) THEN Reset(f.to, f.from) ELSE UNCHANGED streak
  /\ ports' = IF Wired /\ f.ant.type = "hello"
              THEN [ports EXCEPT ![f.to].heard = @ \cup {f.from, f.ant.src}] ELSE ports
  /\ UNCHANGED <<links, due, timers, clock, changes>>

\* A frame nobody waits an acknowledgement for is not received.
Lose(f) ==
  /\ f.mac # "unicast"
  /\ Lossy \/ <<f.from, f.to>> \notin links
  /\ radio' = radio \ {f}
  /\ UNCHANGED <<scenario, node, held, origins, flooded, streak>>
  /\ Untimed

\* NotifyTxError for an ant: no acknowledgement, whether or not the frame was
\* received; a next hop that is not a neighbour any more is not resolved.
AntTxError(f) ==
  /\ f.mac = "unicast"
  /\ Lossy \/ <<f.from, f.to>> \notin links
  /\ LET s == node[f.from]
         rest == radio \ {f}
         received == [f EXCEPT !.mac = "unacked"]
     IN \E left \in {rest} \cup (IF <<f.from, f.to>> \in links THEN {rest \cup {received}} ELSE {}) :
          Perform(f.from,
                  IF EnableMacFailureDetector /\ f.to \in s.table.nbrs
                  THEN TxFailure(s, f.to, NoNode) ELSE Result(s, {}),
                  held[f.from], left)
  /\ IF EnableMacFailureDetector THEN Failed(f.from, f.to) ELSE UNCHANGED streak
  /\ Untimed

-----------------------------------------------------------------------------
(* Timers and time *)

\* HelloTimerExpire: the maintenance tick, then a hello.  Where a cable carries only some
\* of them, the cable itself vouches at the others for the neighbours heard on it.
HelloTimerExpire(n) ==
  /\ n \in due /\ (Prompt => radio = {})
  /\ \E r \in {MaintenanceTick(node[n])} : \E h \in {HelloAnt(r.st)} :
       IF ports[n].ticks = 0
       THEN Perform(n, Result(h.st, r.out \cup {Flood(h.ant)}), held[n], radio)
       ELSE Perform(n, Result(IF ports[n].up THEN ForEach(ports[n].heard, h.st, LearnNeighbor) ELSE h.st, r.out),
                    held[n], radio)
  /\ ports' = [ports EXCEPT ![n].ticks = (@ + 1) % HelloEvery]
  /\ due' = due \ {n}
  /\ UNCHANGED <<links, timers, clock, changes, streak>>

\* ProactiveTimerExpire: an ant for every active session; without any it sends
\* nothing and changes nothing.
ProactiveTimerExpire(n) ==
  /\ timers[n].proactive > 0 /\ ActiveDestinations(node[n]) # {}
  /\ \E r \in ProactiveAnts(node[n]) : Perform(n, r, held[n], radio)
  /\ timers' = [timers EXCEPT ![n].proactive = @ - 1]
  /\ UNCHANGED <<links, ports, due, clock, changes, streak>>

\* A unit of time passes once its timers have expired and its frames are gone.
Elapse ==
  /\ Timed /\ due = {} /\ radio = {}
  /\ Horizon = 0 \/ clock < Horizon
  /\ node' = [n \in Nodes |-> Aging(node[n])]
  /\ due' = Present
  /\ timers' = FreshTimers
  /\ clock' = IF Horizon = 0 THEN 0 ELSE clock + 1
  /\ origins' = {o \in {[x EXCEPT !.age = @ + 1] : x \in origins} : o.age < Interval(o.type)}
  /\ UNCHANGED <<scenario, radio, held, links, ports, changes, streak, flooded>>

-----------------------------------------------------------------------------
(* Mobility: a link goes down or comes up, a cable is cut and mended. *)

ChangeLink(n, m) ==
  /\ n < m /\ {n, m} \subseteq Present /\ changes < LinkChanges /\ ~ Wired
  /\ LET pair == {<<n, m>>, <<m, n>>}
     IN links' = IF <<n, m>> \in links THEN links \ pair ELSE links \cup pair
  /\ changes' = changes + 1
  /\ UNCHANGED <<scenario, node, radio, held, ports, due, timers, clock, streak, origins, flooded>>

\* Mutant of Severed: the failure is reported once.
SeveredOnce(s, m) == TxFailure(s, m, NoNode)

\* The loss of a neighbour for certain: the failures of a whole streak are reported, or as
\* many of them as it takes to hear of a decision.
Severed(s, m) ==
  LET told[k \in 0 .. TxFailureThreshold] ==
        IF k = 0 THEN Result(s, {})
        ELSE IF told[k - 1].out # {} THEN told[k - 1] ELSE TxFailure(told[k - 1].st, m, NoNode)
  IN told[TxFailureThreshold]

\* NotifyInterfaceDown, the sockets closed: what the decisions send goes nowhere.
InterfaceDown(n) ==
  ForEach(IF EnableMacFailureDetector THEN ports[n].heard ELSE {}, Result(node[n], {}),
          LAMBDA r, m : Then(r, Severed(r.st, m)))

\* BreakIsl: both interfaces go down.
CutCable ==
  /\ Wired /\ links # {} /\ changes < LinkChanges
  /\ \E down \in {[n \in Nodes |-> InterfaceDown(n)]} :
       /\ node' = [n \in Nodes |-> down[n].st]
       /\ origins' = origins \cup UNION {Launched(n, down[n].out) : n \in Nodes}
  /\ ports' = [n \in Nodes |-> [ports[n] EXCEPT !.up = FALSE, !.heard = IF EnableMacFailureDetector THEN {} ELSE @]]
  /\ links' = {}
  /\ changes' = changes + 1
  /\ UNCHANGED <<scenario, radio, held, due, timers, clock, streak, flooded>>

\* NotifyInterfaceUp at both ends: the sockets are opened again, the router and its timers
\* are as they were.
MendCable ==
  /\ Wired /\ links = {} /\ changes < LinkChanges
  /\ ports' = [n \in Nodes |-> [ports[n] EXCEPT !.up = TRUE]]
  /\ links' = InRange
  /\ changes' = changes + 1
  /\ UNCHANGED <<scenario, node, radio, held, due, timers, clock, streak, origins, flooded>>

\* The bounds are used up.
Finished ==
  /\ radio = {}
  /\ IF Timed THEN Horizon # 0 /\ clock = Horizon /\ due = {} ELSE TRUE
  /\ UNCHANGED vars

Next ==
  \/ \E flow \in Flows : OriginateData(flow[1], flow[2]) \/ DataTxError(flow[1], flow[2])
  \/ \E n \in Nodes : \/ ReactiveRetryTimerExpire(n)
                      \/ HelloTimerExpire(n)
                      \/ ProactiveTimerExpire(n)
                      \/ \E d \in held[n] : Purge(n, d)
                      \/ \E m \in Nodes : ChangeLink(n, m)
  \/ \E f \in radio : RecvAnt(f) \/ Lose(f) \/ AntTxError(f)
  \/ Elapse \/ CutCable \/ MendCable
  \/ Finished

Spec == Init /\ [][Next]_vars

-----------------------------------------------------------------------------
(* What the code says of itself, checked by the runs that refute it. *)

\* A flood of one type for one destination is launched once per interval.
OncePer(type) ==
  \A x, y \in origins :
    x.type = type /\ y.type = type /\ x.node = y.node /\ x.dest = y.dest => x.seq = y.seq

\* The multipath churn bound: a node that keeps quiet about a lost next hop still
\* has a path for the data, once no frame is in flight and no dead link is left
\* in a neighbour table.
RoutesLead ==
  LET Usable(d) == {p \in Nodes \X Nodes : node[p[1]].table.reg[d][p[2]] > MinPheromone}
      Step(S, d) == S \cup {y \in Nodes : \E x \in S : <<x, y>> \in Usable(d)}
      Closure(n, d) == FoldLeft(LAMBDA S, i : Step(S, d), {n}, [i \in 1 .. Cardinality(Nodes) |-> i])
  IN radio = {} /\ (\A n \in Nodes : \A m \in node[n].table.nbrs : <<n, m>> \in links) =>
       \A n, d \in Nodes : n # d /\ HasRoute(node[n].table, d) => d \in Closure(n, d)

=============================================================================
