------------------------------- MODULE LeoWorld -------------------------------
(***************************************************************************)
(* The satellite scenarios: the link plans of isl-grid.cc and of           *)
(* leo-walker.cc, and the moving constellation of the latter.  Each        *)
(* access node (a ground station, or a HAPS above one) holds at most one   *)
(* link to a satellite and hands it over on a clock or when the satellite  *)
(* sets or dies; links between satellites fail and are repaired without    *)
(* notice, and a storm may take several satellites at once.  The world is  *)
(* one record; an operation maps it to the next one.                       *)
(***************************************************************************)
EXTENDS OracleTopology, FiniteSets, SequencesExt

-----------------------------------------------------------------------------
(* The link plans: the +Grid of isl-grid.cc, an open grid or a torus, and  *)
(* the shell of leo-walker.cc.                                             *)

Idx(r, c, cols) == r * cols + c

\* The links to the next column and to the next row; a side of two is not wrapped.
GridLinks(rows, cols, torus) ==
  LET Along(r, c)  == IF c + 1 < cols THEN <<<<Idx(r, c, cols), Idx(r, c + 1, cols)>>>>
                      ELSE IF torus /\ cols > 2 THEN <<<<Idx(r, c, cols), Idx(r, 0, cols)>>>>
                      ELSE <<>>
      Across(r, c) == IF r + 1 < rows THEN <<<<Idx(r, c, cols), Idx(r + 1, c, cols)>>>>
                      ELSE IF torus /\ rows > 2 THEN <<<<Idx(r, c, cols), Idx(0, c, cols)>>>>
                      ELSE <<>>
  IN  FlattenSeq([i \in 1..(rows * cols) |->
        LET r == (i - 1) \div cols
            c == (i - 1) % cols
        IN  Along(r, c) \o Across(r, c)])

AxisLinks(n, torus) == IF n < 2 THEN 0 ELSE IF torus /\ n > 2 THEN n ELSE n - 1

Degree(links, n) == Len(SelectSeq(links, LAMBDA l : l[1] = n)) + Len(SelectSeq(links, LAMBDA l : l[2] = n))
Ends(l)          == {l[1], l[2]}

\* CheckTopology: the number of links by the closed form, no loop, no parallel link, and every
\* node of a full torus has four.
CheckTopology(rows, cols, torus) ==
  LET links == GridLinks(rows, cols, torus)
  IN  /\ Len(links) = rows * AxisLinks(cols, torus) + cols * AxisLinks(rows, torus)
      /\ \A l \in ToSet(links) : l[1] # l[2]
      /\ Cardinality({Ends(l) : l \in ToSet(links)}) = Len(links)
      /\ torus /\ rows > 2 /\ cols > 2 => \A n \in 0..(rows * cols - 1) : Degree(links, n) = 4

\* RemoveIsls: a pair that names no link stops the program.
RemoveIsls(links, removed) ==
  SelectSeq(links, LAMBDA l : Ends(l) \notin removed)
RemovedAreBuilt(links, removed) == removed \subseteq {Ends(l) : l \in ToSet(links)}

\* The shell: satellite p * S + s in slot s of plane p.  A ring along each plane, and to the next
\* plane with one shift; the last plane closes the shell with the satellite that Nearest names,
\* and two planes have one cross link per slot.
ShellLinks(planes, S, shift, Nearest) ==
  FlattenSeq([i \in 1..(planes * S) |->
    LET p == (i - 1) \div S
        s == (i - 1) % S
        ring  == <<i - 1, p * S + ((s + 1) % S)>>
        cross == IF p + 1 < planes THEN <<i - 1, (p + 1) * S + ((s + shift) % S)>>
                 ELSE <<i - 1, Nearest[s]>>
    IN  IF planes < 2 \/ (planes = 2 /\ p = 1) THEN <<ring>> ELSE <<ring, cross>>])

-----------------------------------------------------------------------------
(* The constellation *)

None == NoNode    \* no satellite, no HAPS

(* The plan [sats, ground, access, city, isls, air, elev, minElev, far,    *)
(* unit, arm]: isls and air are sets of [ch, a, b], the links between      *)
(* satellites and the fixed ones of the air layer; elev and far are the    *)
(* elevations and distances of each phase of the orbits; a link's delay is *)
(* its length in units, rounded up.                                        *)
Nodes(plan)    == plan.sats \cup plan.ground \cup plan.access
Sagin(plan)    == plan.air # {}
GslChannel(g)  == 1000 + g
IslOf(plan, i) == CHOOSE l \in plan.isls : l.ch = i
Span(plan, phase, a, b) == plan.far[phase][a][b] \div plan.unit + 1
ChannelsOf(ls) == {l.ch : l \in ls}

\* The arms that read link state off the interfaces; opspf only the changes that are predicted.
IpGate(plan)   == plan.arm \in {"oracle", "oracle-delay", "geo-greedy", "opspf"}
Opspf(plan)    == plan.arm = "opspf"

\* islUp, gslUp: Link.up; ifDown: links whose interfaces are down; served and uplink: what the
\* location service says; delay: of each channel.
NewWorld(plan) ==
  [phase   |-> 1,
   satUp   |-> plan.sats,
   islUp   |-> ChannelsOf(plan.isls),
   gslUp   |-> {},
   ifDown  |-> {},
   serving |-> [g \in plan.access |-> None],
   served  |-> [n \in plan.access \cup plan.ground |-> None],
   uplink  |-> [n \in plan.access \cup plan.ground |-> None],
   delay   |-> [c \in ChannelsOf(plan.isls \cup plan.air) \cup {GslChannel(g) : g \in plan.access} |-> 1]]
   \* a link of the air layer, which keeps its length, counts as the shortest

\* SetLink on a link between satellites.  A change that is not predicted reaches no interface
\* with the opspf arm.
SetIsl(plan, w, ch, up, gateIp) ==
  IF (ch \in w.islUp) = up THEN w
  ELSE [w EXCEPT !.islUp  = IF up THEN @ \cup {ch} ELSE @ \ {ch},
                 !.ifDown = IF ~IpGate(plan) \/ (Opspf(plan) /\ ~gateIp) THEN @
                            ELSE IF up THEN @ \ {ch} ELSE @ \cup {ch}]

\* SetLink on the link of access node g to satellite s: device and interface of the satellite.
SetGsl(w, g, s, up) == [w EXCEPT !.gslUp = IF up THEN @ \cup {<<g, s>>} ELSE @ \ {<<g, s>>}]

\* UpdateDelays: a link to a satellite that is down keeps the delay its channel had.
UpdateDelays(plan, w) ==
  [w EXCEPT !.delay =
     [c \in DOMAIN @ |->
        IF c \in ChannelsOf(plan.isls) THEN Span(plan, w.phase, IslOf(plan, c).a, IslOf(plan, c).b)
        ELSE IF \E p \in w.gslUp : c = GslChannel(p[1])
        THEN LET p == CHOOSE p \in w.gslUp : c = GslChannel(p[1]) IN Span(plan, w.phase, p[1], p[2])
        ELSE @[c]]]

\* BestGsl: the highest of the living satellites above the minimum elevation, of equal ones the last.
BestGsl(plan, w, g) ==
  LET el      == plan.elev[w.phase][g]
      visible == {s \in w.satUp : el[s] >= plan.minElev}
  IN  IF visible = {} THEN None
      ELSE CHOOSE s \in visible : \A r \in visible : el[r] < el[s] \/ (el[r] = el[s] /\ r <= s)

\* SaginService: a city's station is served through the first of its HAPS that is; a HAPS without
\* a satellite goes up by that first one.
SaginService(plan, w, c) ==
  LET own   == {g \in plan.access : plan.city[g] = c}
      up    == {g \in own : w.serving[g] # None}
      first == IF up = {} THEN None ELSE Min(up)
      sat   == IF up = {} THEN None ELSE w.serving[Min(up)]
  IN  [w EXCEPT !.served[c] = sat,
                !.uplink = [n \in DOMAIN @ |->
                  IF n = c THEN first
                  ELSE IF n \in own THEN IF w.serving[n] # None THEN w.serving[n] ELSE first
                  ELSE @[n]]]

HandoverBesideService(plan, w, g, to) ==
  LET dropped == IF w.serving[g] = None THEN w ELSE SetGsl(w, g, w.serving[g], FALSE)
      raised  == IF to = None THEN dropped ELSE SetGsl(dropped, g, to, TRUE)
  IN  [raised EXCEPT !.serving[g] = to]
Handover(plan, w, g, to) ==
  LET from    == w.serving[g]
      dropped == IF from = None THEN w ELSE SetGsl(w, g, from, FALSE)
      raised  == IF to = None THEN dropped ELSE SetGsl(dropped, g, to, TRUE)
      moved   == [raised EXCEPT !.serving[g] = to, !.served[g] = to]
  IN  IF from = to THEN w
      ELSE IF Sagin(plan) THEN SaginService(plan, moved, plan.city[g]) ELSE moved

\* The loops over nodes and links, which have numbers: Step is applied for every member of S to
\* what the steps before it left.
ForEach(S, base, Step(_, _)) ==
  LET done[n \in 0 .. Max({0} \cup S) + 1] ==
        IF n = 0 THEN base
        ELSE IF n - 1 \in S THEN Step(done[n - 1], n - 1) ELSE done[n - 1]
  IN done[Max({0} \cup S) + 1]

HandoverClock(plan, w) ==
  ForEach(plan.access, w, LAMBDA v, g : Handover(plan, v, g, BestGsl(plan, v, g)))

\* VisibilityWatch: only a node whose satellite has set or died, or that has none, hands over.
Lost(plan, w, g) ==
  \/ w.serving[g] = None
  \/ w.serving[g] \notin w.satUp
  \/ plan.elev[w.phase][g][w.serving[g]] < plan.minElev

VisibilityWatch(plan, w) ==
  ForEach(plan.access, w,
          LAMBDA v, g : IF Lost(plan, v, g) THEN Handover(plan, v, g, BestGsl(plan, v, g)) ELSE v)

\* The first assignment, at the start of the run.
StartService(plan, w) ==
  LET best == [g \in plan.access |-> BestGsl(plan, w, g)]
      set  == [w EXCEPT !.serving = best,
                        !.gslUp = {p \in plan.access \X plan.sats : best[p[1]] = p[2]},
                        !.served = [n \in DOMAIN @ |-> IF n \in plan.access THEN best[n] ELSE @[n]]]
  IN  IF Sagin(plan)
      THEN ForEach(plan.ground, set, LAMBDA v, c : SaginService(plan, v, c))
      ELSE set

-----------------------------------------------------------------------------
(* What the routing reads off the simulator *)

\* BuildLinks and AddWiredLinks: every two members of a channel whose interfaces are up.
Members(plan, w) ==
  {[ch |-> l.ch, of |-> {l.a, l.b}] : l \in {x \in plan.isls : x.ch \notin w.ifDown} \cup plan.air}
  \cup {[ch |-> GslChannel(g), of |-> {g} \cup {s \in plan.sats : <<g, s>> \in w.gslUp}] : g \in plan.access}

BuildLinks(plan, w, metric) ==
  UNION {{[from |-> p[1], to |-> p[2], ch |-> m.ch,
           w |-> IF metric = "delay" THEN w.delay[m.ch] ELSE 1] :
            p \in {q \in m.of \X m.of : q[1] # q[2]}} : m \in Members(plan, w)}

\* A frame from u on channel ch to v arrives: neither end drops it.
Carries(plan, w, u, v, ch) ==
  \/ ch \in w.islUp
  \/ ch \in ChannelsOf(plan.air)
  \/ \E g \in plan.access : ch = GslChannel(g) /\ {u, v} \cap plan.sats # {}
                            /\ \A s \in {u, v} \cap plan.sats : <<g, s>> \in w.gslUp

-----------------------------------------------------------------------------
(* The flood of a link state update *)

\* The links a flood crosses, with their delays: those that are up between living satellites, the
\* link of each access node to its satellite, the air layer.
FloodLinks(plan, w) ==
  LET Both(a, b, ch) == {[from |-> a, to |-> b, ch |-> ch, w |-> w.delay[ch]],
                         [from |-> b, to |-> a, ch |-> ch, w |-> w.delay[ch]]}
  IN  UNION ({Both(l.a, l.b, l.ch) : l \in {x \in plan.isls : x.ch \in w.islUp /\ {x.a, x.b} \subseteq w.satUp}}
        \cup {Both(g, w.serving[g], GslChannel(g)) : g \in {x \in plan.access : w.serving[x] # None}}
        \cup {Both(l.a, l.b, l.ch) : l \in plan.air})

\* FloodLsa: when each node that the flood reaches learns of it.
FloodLsa(plan, w, id, origin, chs, down) ==
  LET at == ComputeFrom(Nodes(plan), FloodLinks(plan, w), origin).dist
  IN  {[id |-> id, node |-> n, chs |-> chs, down |-> down, left |-> at[n]] :
         n \in {x \in Nodes(plan) : at[x] < Unreachable}}

-----------------------------------------------------------------------------
(* geo-greedy *)

SpacePeers(plan, w, u) ==
  {[to |-> e.to, ch |-> e.ch] : e \in {x \in BuildLinks(plan, w, "hops") : x.from = u}}

\* Next: the up neighbour nearest to the goal and nearer than the node itself; from the ground any
\* neighbour will do, and with the air layer only the destination or the uplink.
GeoNext(plan, w, u, dst) ==
  LET known == dst \in DOMAIN w.served
      goal  == IF known /\ w.served[dst] \notin {None, u} THEN w.served[dst] ELSE dst
      far   == plan.far[w.phase]
      ground == u \notin plan.sats
      IsDst(p) == p.to \in {dst, goal}
      Gap(p) == IF IsDst(p) THEN -1 ELSE far[p.to][goal]
      good  == {p \in SpacePeers(plan, w, u) :
                  /\ ground \/ Gap(p) < far[u][goal]
                  /\ (ground /\ Sagin(plan)) => (IsDst(p) \/ p.to = w.uplink[u])}
  IN  IF (known /\ w.served[dst] = None) \/ good = {} THEN NoRoute
      ELSE CHOOSE p \in good : \A q \in good : Gap(p) < Gap(q) \/ (Gap(p) = Gap(q) /\ p.ch <= q.ch)
=============================================================================
