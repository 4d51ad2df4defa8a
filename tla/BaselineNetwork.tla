---------------------------- MODULE BaselineNetwork ----------------------------
(***************************************************************************)
(* Nodes that all run one of the baseline protocols, and the radio, MAC    *)
(* and ARP under them.  The radio holds frames in any order.  A broadcast  *)
(* may be lost; a unicast is lost silently (a full device queue), or the   *)
(* MAC gives it up, though it may have been received, or ARP never         *)
(* resolves its neighbour.  The timer of a search expires when nothing is  *)
(* left in the air, or early, ahead of a late answer.  A behaviour is one  *)
(* of the Scenarios: an arm, a topology, the packets the applications send *)
(* and a budget for each kind of disturbance.                              *)
(***************************************************************************)
EXTENDS AraArm, TermiteArm, QRoutingArm, BeeAdHocArm, AomdvArm, GpsrArm

CONSTANT Scenarios   \* [arm, links, flaky, packets, budget, mode, at, moves]: the links at the start
                     \* and those that may change; packets a set of <<id, source, dest>>; and for
                     \* GPSR the mode, where the nodes are, and a set of <<node, place>> to move to

VARIABLES
  scenario,
  node,        \* the RoutingBase and the arm of every node
  radio,       \* frames in flight, and packets on their way through loopback
  links,       \* pairs of nodes in range
  budget,      \* disturbances left, by kind
  unsent,      \* packets the applications have yet to send
  ended        \* history: <<packet, how it ended>>

vars == <<scenario, node, radio, links, budget, unsent, ended>>

Unicast(f) == f.kind # "loop" /\ ~f.cast
Airborne(o) ==
  CASE o.kind = "loop" -> {o}
    [] o.kind # "loop" /\ o.to = AllNodes ->
         {[o EXCEPT !.to = m] @@ [cast |-> TRUE] : m \in {x \in Nodes : <<o.from, x>> \in links}}
    [] OTHER -> {o @@ [cast |-> FALSE]}

\* Node n becomes r and sends r.out; inFlight is what stays in the air.  What an
\* application sent has an id, a protocol's own packet has none.
Commit(n, r, inFlight) ==
  /\ node' = [node EXCEPT ![n] = [r EXCEPT !.out = {}, !.ended = {}]]
  /\ radio' = inFlight \cup UNION {Airborne(o) : o \in r.out}
  /\ ended' = ended \cup {x \in r.ended : x[1] # 0}
  /\ UNCHANGED scenario

Spend(kind) == budget[kind] > 0 /\ budget' = [budget EXCEPT ![kind] = @ - 1]

-----------------------------------------------------------------------------
NewNode(arm, n) ==
  [arm |-> arm, me |-> n, queue |-> <<>>, out |-> {}, ended |-> {}, dead |-> {}, iface |-> "up",
   pol |-> CASE arm = "aomdv" -> NewAomdv
             [] arm = "gpsr"  -> NewGpsr(scenario.mode, scenario.at[n])
             [] OTHER -> NewPolicy(arm)]
Places == [n \in Nodes |-> node[n].pol.at]

Init ==
  /\ scenario \in Scenarios
  /\ node = [n \in Nodes |-> NewNode(scenario.arm, n)]
  /\ radio = {}
  /\ links = scenario.links
  /\ budget = scenario.budget
  /\ unsent = scenario.packets
  /\ ended = {}

-----------------------------------------------------------------------------
(* Packets *)

Originate(k) ==
  /\ k \in unsent
  /\ unsent' = unsent \ {k}
  /\ LET s == node[k[2]]
         p == Packet(k[1], k[2], k[3], InitialTtl)
     IN \E r \in CASE s.iface # "up" -> {End(s, p, "refused")}
                   [] s.arm = "aomdv" -> {AomdvOutput(s, p)}
                   [] s.arm = "gpsr"  -> GpsrOutput(s, Places, p)
                   [] OTHER -> RouteOutput(s, p) : Commit(k[2], r, radio)
  /\ UNCHANGED <<links, budget>>

OnDataReceived(s, p) ==
  CASE s.arm = "ara"      -> AraReceived(s, p)
    [] s.arm = "termite"  -> TermiteReceived(s, p)
    [] s.arm = "qrouting" -> QReceived(s, p)
    [] s.arm = "beeadhoc" -> BeeReceived(s, p)

\* RouteInput of a packet from the radio.
RouteInput(s, p) ==
  LET Onto(c) == CASE ~c.keep -> {c.s}
                   [] c.keep /\ p.dst = s.me -> {End(c.s, p, "delivered")}
                   [] OTHER -> Forward(c.s, p, p.prev)
  IN CASE s.arm = "aomdv" -> {AomdvInput(s, p)}
       [] s.arm = "gpsr"  -> GpsrInput(s, Places, p)
       [] OTHER -> UNION {Onto(c) : c \in OnDataReceived(s, p)}

RecvControl(s, from, m) ==
  CASE s.arm = "ara"      -> AraRecvControl(s, from, m)
    [] s.arm = "termite"  -> TermiteRecvControl(s, from, m)
    [] s.arm = "qrouting" -> QRecvControl(s, from, m)
    [] s.arm = "beeadhoc" -> BeeRecvControl(s, from, m)
    [] s.arm = "aomdv"    -> {RecvAomdv(s, from, m)}
    [] s.arm = "gpsr"     -> {RecvGpsr(s, from, m)}

Loopback(f) ==
  /\ f \in radio /\ f.kind = "loop"
  /\ LET s == node[f.to]
     IN \E r \in CASE s.iface # "up" -> {End(s, f.body, "refused")}
                   [] s.arm = "aomdv" -> {DeferredRouteOutput(s, f.body)}
                   [] s.arm = "gpsr"  -> {GpsrDeferred(s, f.body)}
                   [] OTHER -> LoopedBack(s, f.body) :
          Commit(f.to, r, radio \ {f})
  /\ UNCHANGED <<links, budget, unsent>>

\* At a node that is not up the packet ends with IP.
Receive(f) ==
  /\ f \in radio /\ f.kind # "loop" /\ <<f.from, f.to>> \in links
  /\ node[f.to].iface = "up"
  /\ \E r \in IF f.kind = "data" THEN RouteInput(node[f.to], f.body)
              ELSE RecvControl(node[f.to], f.from, f.body) :
       Commit(f.to, r, radio \ {f})
  /\ UNCHANGED <<links, budget, unsent>>

ReceivedInVain(f) ==
  /\ f \in radio /\ f.kind # "loop" /\ <<f.from, f.to>> \in links
  /\ node[f.to].iface # "up"
  /\ Commit(f.to, IF f.kind = "data" THEN End(node[f.to], f.body, "interface") ELSE node[f.to], radio \ {f})
  /\ UNCHANGED <<links, budget, unsent>>

-----------------------------------------------------------------------------
(* Disturbances *)

\* A frame is lost and nobody is told: a broadcast that found no receiver, or a
\* frame the device refused.
Lose(f) ==
  /\ f \in radio /\ f.kind # "loop"
  /\ IF f.cast /\ <<f.from, f.to>> \notin links THEN UNCHANGED budget ELSE Spend("loss")
  /\ Commit(f.from, IF f.kind = "data" THEN End(node[f.from], f.body, "mac") ELSE node[f.from], radio \ {f})
  /\ UNCHANGED <<links, unsent>>

\* The MAC gives up on a frame; where the link is up it may be received all the same.
MacDrop(f) ==
  /\ f \in radio /\ Unicast(f)
  /\ IF <<f.from, f.to>> \notin links THEN UNCHANGED budget ELSE Spend("loss")
  /\ \E r \in CASE node[f.from].arm = "aomdv" -> AomdvTxError(node[f.from], f)
                [] node[f.from].arm = "gpsr"  -> {GpsrTxError(node[f.from], f)}
                [] OTHER -> TxError(node[f.from], f),
        received \in BOOLEAN :
       /\ received => <<f.from, f.to>> \in links
       /\ Commit(f.from, r, IF received THEN radio ELSE radio \ {f})
  /\ UNCHANGED <<links, unsent>>

\* The neighbour does not answer ARP: the packet is dropped, its entry is dead.
ArpTimeout(f) ==
  /\ f \in radio /\ Unicast(f) /\ <<f.from, f.to>> \notin links
  /\ Spend("arp")
  /\ LET s == [node[f.from] EXCEPT !.dead = @ \cup {f.to}]
     IN \E r \in CASE f.kind # "data" -> {s}
                   [] f.kind = "data" /\ s.arm \in {"aomdv", "gpsr"} -> {End(s, f.body, "arp")}
                   [] OTHER -> ArpDrop(s, f.body) : Commit(f.from, r, radio \ {f})
  /\ UNCHANGED <<links, unsent>>

ArpForgets(n, m) ==
  /\ m \in node[n].dead
  /\ Commit(n, [node[n] EXCEPT !.dead = @ \ {m}], radio)
  /\ UNCHANGED <<links, budget, unsent>>

LinkChange(a, b) ==
  /\ Spend("link")
  /\ links' = IF <<a, b>> \in links THEN links \ {<<a, b>>, <<b, a>>} ELSE links \cup {<<a, b>>, <<b, a>>}
  /\ UNCHANGED <<scenario, node, radio, unsent, ended>>

\* Ipv4::SetDown and SetUp of a node's interface; messages a node was about to send are
\* lost with its sockets.
Jittered(n) == {f \in radio : f.kind = "control" /\ f.from = n /\ f.cast}
InterfaceDown(n) ==
  /\ node[n].iface = "up" /\ Spend("outage")
  /\ \E lost \in {{}, Jittered(n)} :
       Commit(n, CASE node[n].arm = "aomdv" -> AomdvDown(node[n])
                   [] node[n].arm = "gpsr"  -> GpsrDown(node[n])
                   [] OTHER -> BaseDown(node[n]), radio \ lost)
  /\ UNCHANGED <<links, unsent>>
InterfaceUp(n) ==
  /\ node[n].iface = "down"
  /\ Commit(n, CASE node[n].arm = "aomdv" -> AomdvUp(node[n])
                [] node[n].arm = "gpsr"  -> GpsrUp(node[n])
                [] OTHER -> BaseUp(node[n]), radio)
  /\ UNCHANGED <<links, budget, unsent>>

\* RemoveAddress and AddAddress, which the adaptive arms do not follow.
AddressRemoved(n) ==
  /\ node[n].arm \in {"aomdv", "gpsr"} /\ node[n].iface = "up" /\ Spend("address")
  /\ Commit(n, IF node[n].arm = "aomdv" THEN AomdvRemoveAddress(node[n]) ELSE GpsrRemoveAddress(node[n]), radio)
  /\ UNCHANGED <<links, unsent>>
AddressAdded(n) ==
  /\ node[n].iface = "bare"
  /\ Commit(n, IF node[n].arm = "aomdv" THEN AomdvAddAddress(node[n]) ELSE GpsrAddAddress(node[n]), radio)
  /\ UNCHANGED <<links, budget, unsent>>

\* A packet has been held too long.
Purge(n, id) ==
  /\ \E i \in DOMAIN node[n].queue : node[n].queue[i].id = id
  /\ Spend("purge")
  /\ Commit(n, PurgeQueue(node[n], {id}), radio)
  /\ UNCHANGED <<links, unsent>>

-----------------------------------------------------------------------------
(* Timers of the arms *)

Fire(n, R) == /\ \E r \in R : Commit(n, r, radio)
              /\ UNCHANGED <<links, unsent>>
FireOnce(n, kind, R) == Spend(kind) /\ Fire(n, R)

Searching(s, d) == CASE s.arm = "aomdv" -> d \in s.pol.timers
                     [] s.arm = "gpsr"  -> FALSE
                     [] OTHER -> IsPending(s, d)

SearchTimeout(n, d) ==
  /\ Searching(node[n], d)
  /\ IF radio = {} THEN UNCHANGED budget ELSE Spend("early")
  /\ Fire(n, CASE node[n].arm = "ara"      -> AraDiscoveryTimeout(node[n], d)
               [] node[n].arm = "termite"  -> RreqTimeout(node[n], d)
               [] node[n].arm = "beeadhoc" -> {ScoutTimeout(node[n], d)}
               [] node[n].arm = "aomdv"    -> {RouteRequestTimerExpire(node[n], d)})

AraFades(n) ==
  /\ node[n].arm = "ara"
  /\ \E e \in node[n].pol.trails : FireOnce(n, "fade", {Evaporate(node[n], e)})

TermiteHello(n) ==
  /\ node[n].arm = "termite" /\ node[n].pol.table.nbs = {}
  /\ FireOnce(n, "hello", {HelloIfAlone(node[n])})
TermiteSeed(n)  == node[n].arm = "termite" /\ FireOnce(n, "seed", SeedTimer(node[n]))
TermitePrune(n) == /\ node[n].arm = "termite" /\ PruneTimer(node[n]) # node[n]
                   /\ Fire(n, {PruneTimer(node[n])}) /\ UNCHANGED budget
TermiteFades(n) ==
  /\ node[n].arm = "termite"
  /\ \E c \in node[n].pol.table.live : FireOnce(n, "fade", {Decay(node[n], c)})

\* Node n hears a frame between two others.
Overhears(n, f) ==
  /\ node[n].arm = "termite" /\ f \in radio /\ Unicast(f)
  /\ n \notin {f.from, f.to} /\ <<f.from, n>> \in links
  /\ FireOnce(n, "overhear", {Overhear(node[n], f)})

QHelloTimer(n) == node[n].arm = "qrouting" /\ FireOnce(n, "hello", {QHello(node[n])})
QPurge(n) ==
  /\ node[n].arm = "qrouting"
  /\ \E id \in DOMAIN node[n].pol.pending : FireOnce(n, "purge", {PurgePending(node[n], id)})
QFades(n) ==
  /\ node[n].arm = "qrouting"
  /\ \E m \in node[n].pol.nbs \ node[n].pol.stale : FireOnce(n, "fade", {Fade(node[n], m)})

BeeAges(n) == node[n].arm = "beeadhoc" /\ FireOnce(n, "fade", {Age(node[n])})

AomdvHelloTimer(n) == node[n].arm = "aomdv" /\ node[n].pol.hellos /\ FireOnce(n, "hello", {AomdvHello(node[n])})
AomdvSecond(n) == /\ node[n].arm = "aomdv" /\ NewSecond(node[n]) # node[n]
                  /\ FireOnce(n, "second", {NewSecond(node[n])})
AomdvFades(n) ==
  /\ node[n].arm = "aomdv"
  /\ \E d \in DOMAIN node[n].pol.rt : FireOnce(n, "fade", {RouteExpires(node[n], d)})
AomdvUnheard(n) ==
  /\ node[n].arm = "aomdv"
  /\ \E m \in node[n].pol.nbs : FireOnce(n, "fade", {NeighborGone(node[n], m)})

GpsrHelloTimer(n) == node[n].arm = "gpsr" /\ FireOnce(n, "hello", {GpsrHello(node[n], Places)})
CheckQueueTimer(n) == /\ node[n].arm = "gpsr" /\ node[n].pol.check
                      /\ Fire(n, CheckQueue(node[n], Places)) /\ UNCHANGED budget
GpsrFades(n) ==
  /\ node[n].arm = "gpsr"
  /\ \E m \in DOMAIN node[n].pol.nbs \ node[n].pol.stale : FireOnce(n, "fade", {Outdated(node[n], m)})
Move(n, to) == node[n].arm = "gpsr" /\ FireOnce(n, "move", {MovedTo(node[n], to)})

Next ==
  \/ \E k \in unsent : Originate(k)
  \/ \E f \in radio : Loopback(f) \/ Receive(f) \/ ReceivedInVain(f) \/ Lose(f) \/ MacDrop(f) \/ ArpTimeout(f)
  \/ \E n, m \in Nodes : ArpForgets(n, m) \/ SearchTimeout(n, m)
  \/ \E n \in Nodes : InterfaceDown(n) \/ InterfaceUp(n) \/ AddressRemoved(n) \/ AddressAdded(n)
  \/ \E l \in scenario.flaky : LinkChange(l[1], l[2])
  \/ \E n \in Nodes : \/ \E id \in {p.id : p \in Range(node[n].queue)} : Purge(n, id)
                      \/ AraFades(n) \/ TermiteHello(n) \/ TermiteSeed(n) \/ TermitePrune(n)
                      \/ TermiteFades(n) \/ QHelloTimer(n) \/ QPurge(n) \/ QFades(n) \/ BeeAges(n)
                      \/ AomdvHelloTimer(n) \/ AomdvSecond(n) \/ AomdvFades(n) \/ AomdvUnheard(n)
                      \/ GpsrHelloTimer(n) \/ CheckQueueTimer(n) \/ GpsrFades(n)
                      \/ \E f \in radio : Overhears(n, f)
  \/ \E m \in scenario.moves : Move(m[1], m[2])

Spec == Init /\ [][Next]_vars

-----------------------------------------------------------------------------
(* Properties *)

Ids(S) == {p.id : p \in S}
Arms   == {"ara", "termite", "qrouting", "beeadhoc", "aomdv", "gpsr"}
OfArm(a) == {n \in Nodes : node[n].arm = a}

Heeded(s) == CASE s.arm = "aomdv" -> s.pol.nbs
               [] s.arm = "gpsr"  -> DOMAIN s.pol.nbs
               [] OTHER -> KnownNeighbors(s)

\* No packet vanishes: one that an application sent is held by a node, on the air,
\* or has come to an end that is booked; it is lost without an end only where a node of
\* an adaptive arm sends it on although its interface has gone down.
Conserved ==
  /\ \A k \in scenario.packets \ unsent :
       \/ k[1] \in {e[1] : e \in ended}
       \/ \E n \in Nodes : k[1] \in Ids(Range(node[n].queue))
       \/ \E f \in radio : f.kind # "control" /\ f.body.id = k[1]
  /\ \A e \in ended : e[2] = "lost" => budget.outage < scenario.budget.outage

\* What is held is searched for.  ARA: only the source of a packet holds it, and a
\* search is pending, as long as no ARP entry has died (a packet that ARP drops while
\* a backward ant releases it is held again too early).  AOMDV: a request runs or
\* waits for the rate limit.  GPSR: the timer that sends it again runs.
HeldIsSought ==
  /\ \A n \in OfArm("ara") : \A p \in Range(node[n].queue) :
       p.src = n /\ (budget.arp = scenario.budget.arp => IsPending(node[n], p.dst))
  /\ \A n \in OfArm("aomdv") : \A p \in Range(node[n].queue) :
       p.dst \in node[n].pol.timers \cup Range(node[n].pol.delayed)
  /\ \A n \in OfArm("gpsr") : node[n].queue # <<>> => node[n].pol.check

\* AOMDV: a packet is sent over the first path of a valid entry, so there is one, and
\* the paths of an entry share neither a next nor a last hop.
PathsDisjoint ==
  \A n \in OfArm("aomdv") : \A d \in DOMAIN node[n].pol.rt :
     LET paths == node[n].pol.rt[d].paths IN
     /\ ValidRoute(node[n], d) => paths # <<>>
     /\ \A i, j \in DOMAIN paths :
          i # j => paths[i].next # paths[j].next /\ paths[i].last # paths[j].last

\* What an ant leaves behind is a way.  ARA: the trail a forward ant left leads back
\* to its source.  BeeAdHoc: a forager a node keeps holds a route from the node itself
\* to the destination it is kept for, which passes no node twice.
RECURSIVE LeadsBack(_, _, _)
LeadsBack(n, key, N) ==
  \/ n = key[1]
  \/ /\ n \notin N
     /\ key \in DOMAIN node[n].pol.fantFrom
     /\ LeadsBack(node[n].pol.fantFrom[key], key, N \cup {n})
AntsLeaveWays ==
  /\ \A n \in OfArm("ara") : \A key \in DOMAIN node[n].pol.fantFrom : LeadsBack(n, key, {})
  /\ \A n \in OfArm("beeadhoc"), d \in Nodes :
       \A f \in Range(node[n].pol.hive[d].own) \cup Range(node[n].pol.hive[d].foreign) :
          f.path[1] = n /\ Last(f.path) = d /\ Cardinality(Range(f.path)) = Len(f.path)

\* Nothing is kept about a neighbour that was lost, which would be believed again
\* once it is heard: no cell and no estimate over the lost link; and an AOMDV or GPSR
\* node that lost its interface keeps no neighbour and no way to anybody.
LostIsForgotten ==
  /\ \A n \in OfArm("termite") : node[n].pol.table.live \subseteq node[n].pol.table.cols \X node[n].pol.table.nbs
  /\ \A n \in OfArm("qrouting") : \A x \in DOMAIN node[n].pol.q : x[2] \in node[n].pol.nbs
  /\ \A n \in OfArm("aomdv") \cup OfArm("gpsr") :
       node[n].iface # "up" =>
         /\ Heeded(node[n]) = {}
         /\ node[n].arm = "aomdv" => \A d \in Nodes : ~ValidRoute(node[n], d)

\* GPSR: while nobody moves, a packet is closer to its destination at each node it
\* leaves greedily or begins a walk at than at every such node before, for a walk ends
\* only where it is closer than where it began.  So it is where positions are whole
\* metres; a node that is told closer than it stands can draw the packet back, and a
\* walk from one told farther than it stands can end too early.  The source must have
\* told the destination as it is.
GreedyNeverReturns ==
  budget.move = scenario.budget.move =>
    \A f \in {x \in radio : x.kind = "data" /\ node[x.from].arm = "gpsr" /\ node[x.from].pol.mode # "gpcr"} :
       LET where(n) == God(node[f.from], Places, n)
           goal == where(f.body.dst)
           path == f.body.path
           stands(i) == Dist2(where(path[i]), goal)
           told(i)   == Dist2(Told(where(path[i])), goal)
       IN goal = Narrow(goal) =>
            \A j \in DOMAIN path : \A i \in 1..(j - 1) :
               \/ stands(j) < stands(i)
               \/ \E k \in (i + 1)..j : told(k) < stands(k)
               \/ \E k \in i..(j - 1) : told(k) > stands(k)
=============================================================================
