--------------------------------- MODULE Demo ---------------------------------
(***************************************************************************)
(* The browser demo (web/src/sim.cpp): the router core under the second    *)
(* adapter of this repository, which carries real packets, lets a user or  *)
(* an empty battery switch nodes off, and calls back into a node that may  *)
(* have changed since the call was scheduled.                              *)
(*                                                                         *)
(* A node is a record: st (its AntRouterLogic), up, pending, ever          *)
(* (everRouted_), charge, lost (packets dropped at it, with the reason)    *)
(* and air, its transmissions under way in the order they end: an ant or a *)
(* packet at one receiver, or the MAC's report that a unicast failed.  A   *)
(* handler maps a node to the set of nodes it may become.  near is who     *)
(* hears the node, if it is on.                                            *)
(*                                                                         *)
(* A unit of time is one hello interval and one leg of a trajectory, and   *)
(* transmissions end within the unit they began in.  A scenario names the  *)
(* nodes whose hellos are sent.                                            *)
(***************************************************************************)
EXTENDS AntRouter, DemoWorld

CONSTANTS
  Scenarios,       \* what a behaviour may be about: records with the fields read below
  QueueTimeout,    \* kQueueTimeout
  ReconvHoldCap,   \* kReconvHoldCap
  QueueLen,        \* kQueueLen
  Ttl              \* kTtl

VARIABLES
  scenario,  \* one of the Scenarios, chosen at the start
  now,       \* units of time passed
  mob,       \* every node's mobility
  isl,       \* the inter-satellite links
  node,      \* the nodes
  wakes,     \* calls of purge that are scheduled: <<node, time>>
  due,       \* nodes whose hello timer has yet to expire in this unit
  timers,    \* expirations every node's other timers have left in this unit
  sent,      \* packets every flow has originated
  arrived,   \* packets delivered
  left       \* what the user may still do

vars == <<scenario, now, mob, isl, node, wakes, due, timers, sent, arrived, left>>

Mains == -1    \* the charge of a node without a battery

Places       == [n \in Nodes |-> mob[n].p]
Linked(a, b) == node[a].up /\ node[b].up /\ LinkUpAt(scenario.world, isl, Places, a, b, now)
Near(n)      == {m \in Nodes : Linked(n, m)}

\* Runs a set-valued handler after another, and over a sequence.
Chain(S, Step(_))      == UNION {Step(x) : x \in S}
Each(Step(_, _), x, s) == FoldLeft(LAMBDA S, e : UNION {Step(y, e) : y \in S}, {x}, s)

-----------------------------------------------------------------------------
(* The transmitter *)

Drop(x, p, why) == [x EXCEPT !.lost = @ \cup {<<p.id, why>>}]

\* setNodeUp(false)
SwitchOff(x) ==
  [x EXCEPT !.up = FALSE, !.pending = << >>, !.lost = @ \cup {<<p.id, "node off">> : p \in Range(x.pending)}]

\* drainBattery: what a transmission or a unit of idling takes; empty, the device stops.
DrainBattery(x) ==
  IF x.charge = Mains \/ ~x.up THEN x
  ELSE IF x.charge > 1 THEN [x EXCEPT !.charge = @ - 1]
  ELSE SwitchOff([x EXCEPT !.charge = 0])

\* batteryTimer, once a unit: idling takes as much.
BatteryTimer(x) == DrainBattery(x)

Event(x, kind, from, to, load) ==
  [x EXCEPT !.air = Append(@, [kind |-> kind, from |-> from, to |-> to, load |-> load])]

\* The receivers a broadcast may reach; whether a unicast may reach and may miss its receiver.
Hearers(x, near) == IF ~x.up THEN {{}} ELSE IF scenario.lossy THEN SUBSET near ELSE {near}
Outcomes(x, near, to) ==
  (IF x.up /\ to \in near THEN {TRUE} ELSE {}) \cup (IF ~x.up \/ to \notin near \/ scenario.lossy THEN {FALSE} ELSE {})

\* sendAnt
SendAnt(x, near, d) ==
  LET y == DrainBattery(x)
  IN IF ~x.up THEN {x}
     ELSE IF d.act = "broadcast"
     THEN {ForEach(S, y, LAMBDA z, m : Event(z, "ant", x.st.self, m, d.ant)) : S \in Hearers(y, near)}
     ELSE {Event(y, IF ok THEN "ant" ELSE "ant failed", x.st.self, d.next, d.ant) : ok \in Outcomes(y, near, d.next)}

\* sendData
Transmit(x, near, packet, next) ==
  LET p == [packet EXCEPT !.ttl = @ - 1]
      y == DrainBattery(x)
  IN IF p.ttl <= 0 THEN {Drop(x, p, "ttl")}
     ELSE {Event(y, IF ok THEN "data" ELSE "data failed", x.st.self, next, p) : ok \in Outcomes(y, near, next)}

-----------------------------------------------------------------------------
(* The pending queue *)

\* purge
PurgeAt(x, t) ==
  [x EXCEPT !.pending = SelectSeq(@, LAMBDA p : p.expire > t),
            !.lost = @ \cup {<<p.id, IF p.reconv THEN "hold cap" ELSE "timeout">> :
                               p \in {q \in Range(x.pending) : q.expire <= t}}]

\* The time a packet put in line now leaves at the latest.
Expiry(p) ==
  IF p.reconv /\ p.first + ReconvHoldCap < now + QueueTimeout
  THEN p.first + ReconvHoldCap ELSE now + QueueTimeout

\* enqueue
Enqueue(x, packet) ==
  LET y == PurgeAt(x, now)
      q == IF packet.first = 0 THEN [packet EXCEPT !.first = now] ELSE packet
      p == [q EXCEPT !.expire = Expiry(q)]
      z == IF Len(y.pending) >= QueueLen
           THEN Drop([y EXCEPT !.pending = Tail(@)], Head(y.pending), "timeout") ELSE y
  IN [z EXCEPT !.pending = Append(@, p)]

\* discardQueue
DiscardQueue(x, d) ==
  [x EXCEPT !.pending = SelectSeq(@, LAMBDA p : p.dst # d),
            !.lost = @ \cup {<<p.id, "repair">> : p \in {q \in Range(x.pending) : q.dst = d}}]

\* flushQueue
FlushOne(x, near, p) ==
  UNION {IF next = NoNode THEN {Enqueue(x, p)}
         ELSE Transmit([x EXCEPT !.ever = @ \cup {p.dst}], near, p, next) : next \in DataChoices(x.st, p.dst, NoNode)}
FlushQueue(x, near, d) ==
  LET y == PurgeAt(x, now)
  IN Each(LAMBDA z, p : FlushOne(z, near, p), [y EXCEPT !.pending = SelectSeq(@, LAMBDA p : p.dst # d)],
          SelectSeq(y.pending, LAMBDA p : p.dst = d))

-----------------------------------------------------------------------------
(* The adapter's contract with the core *)

\* execute; the order among the decisions of one handler is not kept.
Execute(x, near, out) ==
  Each(LAMBDA y, d : IF d.act = "discard" THEN {DiscardQueue(y, d.next)}
                     ELSE IF d.ant # NoAnt THEN SendAnt(y, near, d) ELSE {y},
       x, SetToSeq(out))

\* The node once its router has handled something with the result r.
Handled(x, near, r) == Execute([x EXCEPT !.st = r.st], near, r.out)

\* routeData
RouteData(x, near, packet, prev) ==
  LET p == [packet EXCEPT !.prev = prev]
      Held == Enqueue(x, [p EXCEPT !.reconv = p.dst \in x.ever])
  IN UNION {IF next # NoNode THEN Transmit([x EXCEPT !.ever = @ \cup {p.dst}], near, p, next)
            ELSE UNION {Handled(Held, near, r) : r \in DataPacket(x.st, p.dst, NoNode)} :
              next \in DataChoices(x.st, p.dst, prev)}

\* recvAnt
RecvAnt(x, near, ant, from) ==
  IF ~x.up THEN {x}
  ELSE UNION {LET y == [x EXCEPT !.st = r.st]
                  found == ant.dir = "down" \/ \E d \in r.out : d.act = "deliver"
              IN Chain(IF found THEN FlushQueue(y, near, ant.src) ELSE {y},
                       LAMBDA z : Execute(z, near, r.out)) : r \in ReceiveAnt(x.st, ant, from, 1)}

\* recvData short of the destination
RelayData(x, near, p, from) == IF ~x.up THEN {Drop(x, p, "node off")} ELSE RouteData(x, near, p, from)

\* The callback of sendAnt's failure
AntFailed(x, near, to) == IF ~x.up THEN {x} ELSE Handled(x, near, TxFailure(x.st, to, NoNode))

\* Mutant of DataFailed: the callback does not look whether the node is still on.
DataFailedBlind(x, near, p, to) ==
  Chain(Handled(x, near, TxFailure(x.st, to, p.dst)), LAMBDA y : RouteData(y, near, p, p.prev))

\* The callback of sendData's failure: the router is told, the packet starts over here.
DataFailed(x, near, p, to) ==
  IF ~x.up THEN {Drop(x, p, "node off")}
  ELSE Chain(Handled(x, near, TxFailure(x.st, to, p.dst)), LAMBDA y : RouteData(y, near, p, p.prev))

\* helloTimer
HelloTimer(x, near) ==
  IF ~x.up THEN {x}
  ELSE Chain(Handled(x, near, MaintenanceTick(x.st)),
             LAMBDA y : LET h == HelloAnt(y.st) IN SendAnt([y EXCEPT !.st = h.st], near, Flood(h.ant)))

\* proactiveTimer
ProactiveTimer(x, near) ==
  IF ~x.up THEN {x} ELSE UNION {Handled(x, near, r) : r \in ProactiveAnts(x.st)}

\* retryTimer
RetryOne(x, near, d) ==
  UNION {IF next # NoNode THEN FlushQueue(x, near, d)
         ELSE LET t == NextSeq(x.st)
              IN SendAnt([x EXCEPT !.st = t], near, Flood(ForwardAnt(t, "reactive", d))) :
           next \in DataChoices(x.st, d, NoNode)}
Destinations(q) == FoldLeft(LAMBDA s, p : IF p.dst \in Range(s) THEN s ELSE Append(s, p.dst), << >>, q)
RetryTimer(x, near) ==
  IF ~x.up THEN {x}
  ELSE LET y == PurgeAt(x, now)
       IN Each(LAMBDA z, d : RetryOne(z, near, d), y, Destinations(y.pending))

-----------------------------------------------------------------------------
(* Initial states *)

Timers == [n \in Nodes |-> [retry |-> scenario.retries, proactive |-> scenario.proactives]]

Warm(n) == ForEach({m \in Nodes : <<n, m>> \in scenario.heard}, InitRouter(n, -1), LearnNeighbor)

AddNode(n) == [st |-> Warm(n), up |-> n \notin scenario.off, pending |-> << >>, ever |-> {},
               charge |-> scenario.charge[n], lost |-> {}, air |-> << >>]

Init ==
  /\ scenario \in Scenarios
  /\ now = 0
  /\ mob = [n \in Nodes |-> Placed(scenario.world, scenario.mobility[n])]
  /\ isl = scenario.isl
  /\ node = [n \in Nodes |-> AddNode(n)]
  /\ wakes = {}
  /\ due = scenario.hellos
  /\ timers = Timers
  /\ sent = [f \in DOMAIN scenario.flows |-> 0]
  /\ arrived = {}
  /\ left = scenario.user

-----------------------------------------------------------------------------
(* Actions *)

\* Mutant of Scheduled: a packet that is put back does not ask for another look.
ScheduledOnce(n, x) == {<<n, p.expire>> : p \in {q \in Range(x.pending) : q.first = now}}

\* The purges enqueue schedules.
Scheduled(n, x) == {<<n, p.expire>> : p \in Range(x.pending) \ Range(node[n].pending)}

\* Node n becomes one of S.
Becomes(n, S) ==
  \E x \in S : /\ node' = [node EXCEPT ![n] = x]
               /\ wakes' = wakes \cup Scheduled(n, x)

\* Nothing is on the air: a transmission lasts microseconds, and hellos and proactive ants, which
\* are seconds apart, come between them.
Quiet == \A n \in Nodes : node[n].air = << >>

Untimed == UNCHANGED <<scenario, now, mob, isl, due, timers, left>>

\* flowTick
FlowTick(f) ==
  LET fl == scenario.flows[f]
      p == [id |-> <<f, sent[f] + 1>>, dst |-> fl.dst, ttl |-> Ttl, prev |-> NoNode,
            first |-> 0, expire |-> 0, reconv |-> FALSE]
      x == node[fl.src]
  IN /\ sent[f] < fl.packets
     /\ sent' = [sent EXCEPT ![f] = @ + 1]
     /\ Becomes(fl.src, IF x.up THEN RouteData([x EXCEPT !.st = NoteDataSession(@, fl.dst)], Near(fl.src), p, NoNode)
                        ELSE {Drop(x, p, "node off")})
     /\ Untimed /\ UNCHANGED arrived

\* What the first transmission of n to end does where it ends: recvAnt, recvData or the
\* callback of a failure.
Arrive(n) ==
  LET e  == Head(node[n].air)
      at == IF e.kind \in {"ant", "data"} THEN e.to ELSE n
      x  == IF at = n THEN [node[n] EXCEPT !.air = Tail(@)] ELSE node[at]
      S  == CASE e.kind = "ant"         -> RecvAnt(x, Near(at), e.load, n)
              [] e.kind = "ant failed"  -> AntFailed(x, Near(at), e.to)
              [] e.kind = "data failed" -> DataFailed(x, Near(at), e.load, e.to)
              [] e.kind = "data"        ->
                   IF x.up /\ e.load.dst = at THEN {x} ELSE RelayData(x, Near(at), e.load, n)
  IN /\ node[n].air # << >>
     /\ \E y \in S :
          /\ node' = [[node EXCEPT ![n].air = Tail(@)] EXCEPT ![at] = y]
          /\ wakes' = wakes \cup Scheduled(at, y)
     /\ arrived' = IF e.kind = "data" /\ x.up /\ e.load.dst = at THEN arrived \cup {e.load.id} ELSE arrived
     /\ Untimed /\ UNCHANGED sent

Hello(n) ==
  /\ n \in due /\ Quiet
  /\ due' = due \ {n}
  /\ Becomes(n, HelloTimer(node[n], Near(n)))
  /\ UNCHANGED <<scenario, now, mob, isl, timers, sent, arrived, left>>

Proactive(n) ==
  /\ Quiet /\ timers[n].proactive > 0 /\ ActiveDestinations(node[n].st) # {}
  /\ timers' = [timers EXCEPT ![n].proactive = @ - 1]
  /\ Becomes(n, ProactiveTimer(node[n], Near(n)))
  /\ UNCHANGED <<scenario, now, mob, isl, due, sent, arrived, left>>

Retry(n) ==
  /\ timers[n].retry > 0 /\ node[n].pending # << >>
  /\ timers' = [timers EXCEPT ![n].retry = @ - 1]
  /\ Becomes(n, RetryTimer(node[n], Near(n)))
  /\ UNCHANGED <<scenario, now, mob, isl, due, sent, arrived, left>>

\* A purge enqueue scheduled.  Its time may be past when the packet was queued elsewhere
\* before: the clock then shows that time for the length of the call.
Purge(w) ==
  /\ w[2] <= now
  /\ node' = [node EXCEPT ![w[1]] = PurgeAt(@, w[2])]
  /\ wakes' = wakes \ {w}
  /\ Untimed /\ UNCHANGED <<sent, arrived>>

\* The user or a script switches a node off or on, cuts a link, drags a node.
SetNodeUp(n) ==
  /\ left.switch > 0
  /\ node' = [node EXCEPT ![n] = IF @.up THEN SwitchOff(@) ELSE [@ EXCEPT !.up = TRUE]]
  /\ left' = [left EXCEPT !.switch = @ - 1]
  /\ UNCHANGED <<scenario, now, mob, isl, wakes, due, timers, sent, arrived>>

CutIslLink(pair) ==
  /\ left.cut > 0
  /\ isl' = isl \ {pair}
  /\ left' = [left EXCEPT !.cut = @ - 1]
  /\ UNCHANGED <<scenario, now, mob, node, wakes, due, timers, sent, arrived>>

MoveNode(n, p) ==
  /\ left.drag > 0
  /\ mob' = [mob EXCEPT ![n] = Pinned(@, p)]
  /\ left' = [left EXCEPT !.drag = @ - 1]
  /\ UNCHANGED <<scenario, now, isl, node, wakes, due, timers, sent, arrived>>

\* A unit of time passes: nodes move, batteries idle, tables age.
Elapse ==
  /\ now < scenario.horizon
  /\ due = {} /\ Quiet
  /\ \A w \in wakes : w[2] > now
  /\ now' = now + 1
  /\ mob' \in {m \in [Nodes -> UNION {NextLegs(scenario.world, mob[n]) : n \in Nodes}] :
                 \A n \in Nodes : m[n] \in NextLegs(scenario.world, mob[n])}
  /\ node' = [n \in Nodes |-> BatteryTimer([node[n] EXCEPT !.st = Aging(@)])]
  /\ due' = scenario.hellos
  /\ timers' = Timers
  /\ UNCHANGED <<scenario, isl, wakes, sent, arrived, left>>

\* The bounds are used up.
Finished ==
  /\ now = scenario.horizon /\ due = {} /\ Quiet
  /\ UNCHANGED vars

Next ==
  \/ \E f \in DOMAIN scenario.flows : FlowTick(f)
  \/ \E n \in Nodes : \/ Arrive(n)
                      \/ Hello(n)
                      \/ Proactive(n)
                      \/ Retry(n)
                      \/ n \in scenario.shaky /\ SetNodeUp(n)
                      \/ \E p \in scenario.drops : MoveNode(n, p)
  \/ \E w \in wakes : Purge(w)
  \/ \E pair \in isl : CutIslLink(pair)
  \/ Elapse
  \/ Finished

Spec == Init /\ [][Next]_vars

-----------------------------------------------------------------------------
(* Properties *)

Packets    == UNION {{<<f, k>> : k \in 1 .. sent[f]} : f \in DOMAIN scenario.flows}
Flying(id) == {<<n, i>> \in Nodes \X (1 .. 100) :
                 /\ i <= Len(node[n].air) /\ node[n].air[i].kind \in {"data", "data failed"}
                 /\ node[n].air[i].load.id = id}
Held(id)   == {<<n, i>> \in Nodes \X (1 .. QueueLen) : i <= Len(node[n].pending) /\ node[n].pending[i].id = id}
Lost(id)   == UNION {{<<n, x>> : x \in {y \in node[n].lost : y[1] = id}} : n \in Nodes}

\* Every packet a flow originated is in one place: on the air, held by one node, delivered or
\* dropped for one reason, through flushes, failures called back and nodes switched off.  A node
\* that is off holds none, unless its battery emptied while it told the router of a failure.
\* (sendData, recvData, routeData, flushQueue, setNodeUp)
Accounted ==
  /\ \A id \in Packets :
       Cardinality(Flying(id)) + Cardinality(Held(id)) + Cardinality(Lost(id))
         + (IF id \in arrived THEN 1 ELSE 0) = 1
  /\ \A n \in Nodes : ~node[n].up /\ node[n].charge # 0 => node[n].pending = << >>

\* A held packet has a purge ahead of it, no later than its time is up: nothing waits for a route
\* longer than kQueueTimeout from the last time it was put in line.  (enqueue, purge)
HoldsEnd ==
  \A n \in Nodes : \A p \in Range(node[n].pending) :
    <<n, p.expire>> \in wakes /\ p.expire <= now + QueueTimeout

=============================================================================
