------------------------------- MODULE LinkState ------------------------------
(***************************************************************************)
(* The control arms of the satellite scenarios at work: the oracle and     *)
(* opspf (oracle-topology.cc, oracle-routing-protocol.cc) over the         *)
(* constellation of leo-walker.cc, or over the fixed grid of isl-grid.cc   *)
(* with its scripted break.  Timers and failures may come in any order; a  *)
(* flood takes the time its links take, so of two floods the order in      *)
(* which they arrive is not the order in which they were sent.             *)
(***************************************************************************)
EXTENDS LeoWorld

CONSTANT Plans    \* plans, each with [shaky, flips, storm, victims, breaks, phases, sends, flow, hops]:
                  \* the links that may fail and how often, the satellites the storm takes, the links
                  \* the script may cut, and bounds on the phases of the orbits, on the sends of the
                  \* flow and on the hops of a packet

\* Nodes and links are numbered.  With an air layer the access nodes are HAPS, each above a city.
ASSUME PlanAssumption ==
  \A p \in Plans :
    /\ p.sats \cup p.ground \cup p.access \cup ChannelsOf(p.isls) \subseteq Nat
    /\ IsFiniteSet(p.sats) /\ IsFiniteSet(p.ground) /\ IsFiniteSet(p.access)
    /\ IsFiniteSet(ChannelsOf(p.isls))
    /\ p.phases \in Nat \ {0} /\ p.minElev \in Int
    /\ \A t \in 1 .. p.phases, g \in p.access, s \in p.sats : p.elev[t][g][s] \in Int
    /\ Sagin(p) => p.access \cap p.ground = {} /\ \A g \in p.access : p.city[g] \in p.ground

VARIABLES
  plan,
  world,
  topo,
  lsas,     \* on their way: [id, node, chs, down, left]
  down,     \* links whose next turn in the failure overlay is a repair
  left,     \* [flips, sends, storm, breaks]: what may still happen
  floods,   \* g_lsaFloods
  packet,   \* [at, hops] of the flow, or NoPacket
  excused   \* history: <<n, ch>> where no flood can have told n the last of link ch

vars == <<plan, world, topo, lsas, down, left, floods, packet, excused>>

Metric    == IF plan.arm = "oracle-delay" THEN "delay" ELSE "hops"
Knowledge == IF Opspf(plan) THEN "predicted" ELSE "current"
All       == Nodes(plan)
Source    == plan.flow[1]
Sink      == plan.flow[2]
NoPacket  == [at |-> NoNode, hops |-> 0]

Init ==
  /\ plan \in Plans
  /\ LET bare == UpdateDelays(plan, NewWorld(plan))   \* the topology starts before the service
     IN  /\ topo = Recompute(NewTopology(All), All, BuildLinks(plan, bare, Metric), Metric, Knowledge)
         /\ world = StartService(plan, bare)
  /\ lsas = {} /\ down = {} /\ floods = 0 /\ packet = NoPacket /\ excused = {}
  /\ left = [flips |-> plan.flips, sends |-> plan.sends, storm |-> plan.victims # {},
             breaks |-> plan.breaks]

-----------------------------------------------------------------------------
(* Link state updates *)

\* What is due is learned in the order in which the floods began.
Due(ms)      == {m \in ms : m.left = 0}
Apply(t, ms) ==
  ForEach({m.id : m \in Due(ms)}, t,
          LAMBDA s, i :
            MapThenFoldSet(LAMBDA m, r : LearnAll(r, m.node, m.chs, m.down), s, LAMBDA m : m,
                           LAMBDA S : CHOOSE m \in S : TRUE, {m \in Due(ms) : m.id = i}))
Pending(ms)  == {m \in ms : m.left > 0}

\* Floods [origin, chs, down] begin, the world being w; an originator knows at once.
FloodButFirst(w, fs) ==
  LET all == UNION {FloodLsa(plan, w, floods + i, fs[i].origin, fs[i].chs, fs[i].down) : i \in 2 .. Len(fs)}
  IN  /\ floods' = floods + Len(fs)
      /\ topo' = Apply(topo, all)
      /\ lsas' = lsas \cup Pending(all)
Flood(w, fs) ==
  LET all == UNION {FloodLsa(plan, w, floods + i, fs[i].origin, fs[i].chs, fs[i].down) : i \in DOMAIN fs}
  IN  /\ floods' = floods + Len(fs)
      /\ topo' = Apply(topo, all)
      /\ lsas' = lsas \cup Pending(all)

NoFlood == UNCHANGED <<topo, lsas, floods>>

\* Time passes for the updates on their way.
Tick ==
  /\ lsas # {}
  /\ LET later == {[m EXCEPT !.left = @ - 1] : m \in lsas}
     IN  topo' = Apply(topo, later) /\ lsas' = Pending(later)
  /\ UNCHANGED <<plan, world, down, left, floods, packet, excused>>

\* History.  Of a change of link ch nobody can tell a node with no way to a living end of it, and
\* an update that is still on its way may be overtaken.
InReach(w, n, ch) ==
  \E s \in {IslOf(plan, ch).a, IslOf(plan, ch).b} \cap w.satUp :
    DistTo(All, FloodLinks(plan, w), s)[n] < Unreachable
Raced(ch)          == \E m \in lsas : ch \in m.chs
Excuse(w, changed) ==
  excused' = {p \in excused : p[2] \notin changed}
    \cup {p \in All \X changed : Raced(p[2]) \/ ~InReach(w, p[1], p[2])}

-----------------------------------------------------------------------------
(* Failures *)

\* IslFail: the overlay takes a link down and up again whatever its satellites do meanwhile.
Live(ch) == {IslOf(plan, ch).a, IslOf(plan, ch).b} \subseteq world.satUp

IslFail(ch) ==
  LET fails == ch \notin down
      after == IF Live(ch) THEN SetIsl(plan, world, ch, ~fails, FALSE) ELSE world
      l     == IslOf(plan, ch)
  IN  /\ fails => left.flips > 0
      /\ left' = [left EXCEPT !.flips = IF fails THEN @ - 1 ELSE @]
      /\ down' = IF fails THEN down \cup {ch} ELSE down \ {ch}
      /\ world' = after
      /\ IF Opspf(plan) /\ Live(ch)
         THEN /\ Flood(after, <<[origin |-> l.a, chs |-> {ch}, down |-> fails],
                                [origin |-> l.b, chs |-> {ch}, down |-> fails]>>)
              /\ Excuse(after, {ch})
         ELSE NoFlood /\ UNCHANGED excused
      /\ UNCHANGED <<plan, packet>>

\* MassFail: the links of the victims go, and each surviving neighbour tells of those it lost.
MassFail ==
  LET w0     == [world EXCEPT !.satUp = @ \ plan.victims]
      cut    == {l \in plan.isls : ~({l.a, l.b} \subseteq w0.satUp)}
      after  == ForEach(ChannelsOf(cut), w0, LAMBDA w, c : SetIsl(plan, w, c, FALSE, FALSE))
      LostBy(s) == {l.ch : l \in {x \in cut : x.ch \in world.islUp /\ s \in {x.a, x.b}}}
      tellers   == SetToSortSeq({s \in w0.satUp : LostBy(s) # {}}, LAMBDA a, b : a < b)
  IN  /\ left.storm
      /\ left' = [left EXCEPT !.storm = FALSE]
      /\ world' = after
      /\ IF Opspf(plan)
         THEN /\ Flood(after, [i \in DOMAIN tellers |->
                   [origin |-> tellers[i], chs |-> LostBy(tellers[i]), down |-> TRUE]])
              /\ Excuse(after, ChannelsOf(cut) \cap world.islUp)
         ELSE NoFlood /\ UNCHANGED excused
      /\ UNCHANGED <<plan, down, packet>>

\* BreakIsl of isl-grid.cc: both interfaces go down for good.
BreakIsl(ch) ==
  /\ ch \in left.breaks
  /\ left' = [left EXCEPT !.breaks = @ \ {ch}]
  /\ world' = [world EXCEPT !.islUp = @ \ {ch}, !.ifDown = @ \cup {ch}]
  /\ NoFlood
  /\ UNCHANGED <<plan, down, packet, excused>>

-----------------------------------------------------------------------------
(* Timers *)

Orbit ==
  /\ world.phase < plan.phases
  /\ world' = [world EXCEPT !.phase = @ + 1]
  /\ NoFlood
  /\ UNCHANGED <<plan, down, left, packet, excused>>

Delays  == world' = UpdateDelays(plan, world)
Clock   == world' = HandoverClock(plan, world)
Watch   == world' = VisibilityWatch(plan, world)

WorldTimer ==
  /\ Delays \/ Clock \/ Watch
  /\ world' # world
  /\ NoFlood
  /\ UNCHANGED <<plan, down, left, packet, excused>>

RecomputeTimer ==
  /\ topo' = Recompute(topo, All, BuildLinks(plan, world, Metric), Metric, Knowledge)
  /\ topo' # topo
  /\ UNCHANGED <<plan, world, lsas, down, left, floods, packet, excused>>

-----------------------------------------------------------------------------
(* Data *)

\* Resolve: the arm's next hop at node n.
Resolved(n) == IF plan.arm = "geo-greedy" THEN GeoNext(plan, world, n, Sink)
               ELSE Looked(topo, All, n).rows[n][Sink]
LookUp(n)   == topo' = IF plan.arm = "geo-greedy" THEN topo ELSE Looked(topo, All, n)

\* The packet leaves n for the next hop; it ends where there is none, where the link is dead and
\* where it has made all its hops.
Moves(n, hops) ==
  LET nh == Resolved(n)
  IN  packet' = IF nh = NoRoute \/ hops = 0 \/ nh.to = Sink \/ ~Carries(plan, world, n, nh.to, nh.ch)
                THEN NoPacket
                ELSE [at |-> nh.to, hops |-> hops - 1]

RouteOutput ==
  /\ left.sends > 0
  /\ packet = NoPacket
  /\ left' = [left EXCEPT !.sends = @ - 1]
  /\ LookUp(Source)
  /\ Moves(Source, plan.hops)
  /\ UNCHANGED <<plan, world, lsas, down, floods, excused>>

RouteInput ==
  /\ packet # NoPacket
  /\ LookUp(packet.at)
  /\ Moves(packet.at, packet.hops)
  /\ UNCHANGED <<plan, world, lsas, down, left, floods, excused>>

Next ==
  \/ Tick
  \/ \E ch \in plan.shaky : IslFail(ch)
  \/ MassFail
  \/ \E ch \in plan.breaks : BreakIsl(ch)
  \/ Orbit
  \/ WorldTimer
  \/ RecomputeTimer
  \/ RouteOutput
  \/ RouteInput

Spec == Init /\ [][Next]_vars

-----------------------------------------------------------------------------
(* Properties *)

\* When no update is on its way, every node's idea of which links are down is right, but for what
\* nobody could tell it: a change while it had no way to a living end of the link, or one that
\* followed another on the same link before that one's flood had ended.  (FloodLsa, IslFail,
\* MassFail, LearnLinkState)
ViewsSettle ==
  Opspf(plan) /\ lsas = {} =>
    \A n \in All : \A ch \in ChannelsOf(plan.isls) :
      <<n, ch>> \notin excused => (ch \in topo.known[n] <=> ch \notin world.islUp)

\* A row that is served without being solved again leads to the sink on a shortest path of what its
\* node knows, by the smallest neighbour, whatever was learned or rebuilt since it was solved.
\* (Recompute, SolveRow, LearnLinkState, Lookup, computeFrom)
RowsFollowViews ==
  \A u \in All \ topo.dirty : RowIsRight(topo, All, u, Sink)

\* An access node has one link up, the one to the satellite that serves it, and the location
\* service that geo-greedy reads names that satellite, or in the air layer the one of the city's
\* first HAPS that is served; a node without a satellite goes up by that HAPS.
\* (Handover, HandoverClock, VisibilityWatch, SaginService)
ServiceAgrees ==
  LET FirstOf(c) == {g \in plan.access : plan.city[g] = c /\ world.serving[g] # None}
  IN  /\ \A g \in plan.access :
           {p[2] : p \in {x \in world.gslUp : x[1] = g}} = {world.serving[g]} \ {None}
      /\ \A g \in plan.access : world.served[g] = world.serving[g]
      /\ Sagin(plan) => \A c \in plan.ground :
           /\ world.served[c] = IF FirstOf(c) = {} THEN None ELSE world.serving[Min(FirstOf(c))]
           /\ world.uplink[c] = IF FirstOf(c) = {} THEN None ELSE Min(FirstOf(c))
           /\ \A g \in plan.access : plan.city[g] = c =>
                world.uplink[g] = IF g \in FirstOf(c) THEN world.serving[g] ELSE world.uplink[c]

=============================================================================
