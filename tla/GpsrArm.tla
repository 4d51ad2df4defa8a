-------------------------------- MODULE GpsrArm --------------------------------
(***************************************************************************)
(* GPSR (gpsr.cc, gpsr-ptable.cc) and its GPCR and three-dimensional       *)
(* modes: a packet goes to the neighbour closest to its destination, and   *)
(* where none is closer it walks round the void until it is closer than    *)
(* where the walk began.  pol is the state of a node:                      *)
(*   at       where it is: <<x, y, z>>, in units of which Metre are a      *)
(*            metre; the code has doubles                                  *)
(*   mode     "gpsr", "gpcr", "3d", "greedy" (Recovery is off) or "tcp"    *)
(*            (the packets are not UDP and carry no GPSR header)           *)
(*   nbs      neighbour -> the position its hello gave, in whole metres    *)
(*   stale    the neighbours whose lifetime has passed, until a purge      *)
(*   coord    the neighbours whose last hello said coordinator             *)
(*   check    does CheckQueueTimer run?  m_queuedAddresses holds the       *)
(*            destinations of the queue whenever it does                   *)
(* at[n] of a handler is where node n is (GetGodPosition).  A packet       *)
(* carries its header in msg; its path is a history of the nodes that      *)
(* forwarded it greedily or began a walk.  Where the code takes the first  *)
(* of equals in the order of the addresses, any of them is taken.          *)
(*   A hello and a header carry positions as uint64_t, cut to whole        *)
(* metres, and the header the source puts on has that of the destination   *)
(* through a uint16_t first; a node compares them with its own position    *)
(* and with God's of the destination, which nothing has cut.  No           *)
(* coordinate is negative: the conversion of one would be undefined.       *)
(***************************************************************************)
EXTENDS AomdvArm

CONSTANTS FaceTtl,
          Metre,     \* the units of a position that make a metre
          PosSpan    \* the metres a uint16_t counts: 2^16

NewGpsr(mode, at) == [at |-> at, mode |-> mode, nbs |-> <<>>, stale |-> {}, coord |-> {}, check |-> FALSE]

Here(s)    == IF s.pol.mode = "3d" THEN s.pol.at ELSE <<s.pol.at[1], s.pol.at[2], 0>>
God(s, at, d) == IF s.pol.mode = "3d" THEN at[d] ELSE <<at[d][1], at[d][2], 0>>

\* A double as a uint64_t, and by way of a uint16_t, of which every build keeps the
\* low bits.
Whole(c) == (c \div Metre) * Metre
Short(c) == Whole(c) % (PosSpan * Metre)
Told(v)   == <<Whole(v[1]), Whole(v[2]), Whole(v[3])>>
Narrow(v) == <<Short(v[1]), Short(v[2]), Whole(v[3])>>

-----------------------------------------------------------------------------
(* Geometry *)

Minus(v, w) == <<v[1] - w[1], v[2] - w[2], v[3] - w[3]>>
Dot(v, w)   == v[1] * w[1] + v[2] * w[2] + v[3] * w[3]
Cross(v, w) == v[1] * w[2] - v[2] * w[1]
Dist2(v, w) == Dot(Minus(v, w), Minus(v, w))
Nowhere     == <<0, 0, 0>>

\* GetAngle turns from the node to the reference, so the smaller of two angles is
\* the first one clockwise from the reference r: v before w, neither along r.
Ahead(r, v)       == Cross(r, v) = 0 /\ Dot(r, v) > 0
FirstHalf(r, v)   == Cross(r, v) < 0 \/ (Cross(r, v) = 0 /\ Dot(r, v) < 0)
Before(r, v, w)   == \/ FirstHalf(r, v) /\ ~FirstHalf(r, w)
                     \/ FirstHalf(r, v) = FirstHalf(r, w) /\ Cross(v, w) < 0

\* The neighbours N, at pos, with the smallest angle from ref seen from me; along
\* the reference edge the angle is 0 and not looked at, and an edge of length 0 has
\* none.
FirstEdges(me, ref, pos) ==
  LET r == Minus(ref, me)
      v(n) == Minus(pos[n], me)
      C == IF r = Nowhere THEN {} ELSE {n \in DOMAIN pos : v(n) # Nowhere /\ ~Ahead(r, v(n))}
  IN {n \in C : \A m \in C : ~Before(r, v(m), v(n))}

-----------------------------------------------------------------------------
(* The position table *)

IsNeighbour(s, d)          == d \in DOMAIN s.pol.nbs
GetKnownNeighbors(s)       == DOMAIN s.pol.nbs
AddPosition(s, n, pos)     == [s EXCEPT !.pol.nbs = With(@, n, pos), !.pol.stale = @ \ {n}]
DeletePosition(s, n)       == [s EXCEPT !.pol.nbs = Without(@, n), !.pol.stale = @ \ {n}]
\* GetPosition of the table does not look into the table: it is where the node is now.
GetPosition(at, n)         == at[n]

PurgeTable(s) == [s EXCEPT !.pol.nbs = [n \in DOMAIN @ \ s.pol.stale |-> @[n]], !.pol.stale = {}]

\* BestNeighbor, of a purged table: the neighbours closest to pos, if closer than us.
BestNeighbor(s, pos) ==
  LET nbs == s.pol.nbs
  IN {n \in DOMAIN nbs : /\ Dist2(nbs[n], pos) < Dist2(Here(s), pos)
                         /\ \A m \in DOMAIN nbs : Dist2(nbs[n], pos) <= Dist2(nbs[m], pos)}

BestAngle(s, me, last) ==
  LET B == FirstEdges(me, last, s.pol.nbs) IN IF B = {} THEN DOMAIN s.pol.nbs ELSE B

\* RouteOutput and SendPacketFromQueue ask for the destination itself first, of a
\* table that may be out of date.
GreedyHops(s, d, pos) == IF IsNeighbour(s, d) THEN {d} ELSE BestNeighbor(PurgeTable(s), pos)
AfterGreedy(s, d)     == IF IsNeighbour(s, d) THEN s ELSE PurgeTable(s)

-----------------------------------------------------------------------------
(* GPCR *)

\* IsCoordinator: the neighbours do not stand in a line.  The covariances are those
\* of the code times the square of the number of neighbours.
IsCoordinator(s, at) ==
  LET N == GetKnownNeighbors(s)
      k == Cardinality(N)
      dev(n, i) == k * GetPosition(at, n)[i] - MapThenSumSet(LAMBDA m : GetPosition(at, m)[i], N)
      cov(i, j) == MapThenSumSet(LAMBDA n : dev(n, i) * dev(n, j), N)
  IN k >= 3 /\ cov(1, 1) > 0 /\ cov(2, 2) > 0 /\ 100 * cov(1, 2) * cov(1, 2) < 81 * cov(1, 1) * cov(2, 2)

\* GpcrStreetNextHop: within 30 degrees of the line on from the previous hop.
StreetHops(s, at, me, last) ==
  LET d == Minus(me, <<last[1], last[2], 0>>)
      v(n) == Minus(<<GetPosition(at, n)[1], GetPosition(at, n)[2], 0>>, me)
      Q == {n \in GetKnownNeighbors(s) :
              v(n) # Nowhere /\ Dot(v(n), d) > 0 /\ 4 * Dot(v(n), d) * Dot(v(n), d) >= 3 * Dot(v(n), v(n)) * Dot(d, d)}
  IN CASE d = Nowhere -> {}
       [] Q \cap s.pol.coord # {} -> Q \cap s.pol.coord
       [] OTHER -> {n \in Q : \A m \in Q : Dot(v(m), v(m)) <= Dot(v(n), v(n))}

GpcrGreedy(s, at, d, pos, last) ==
  LET street == StreetHops(s, at, Here(s), last)
  IN CASE IsNeighbour(s, d) -> {d}
       [] ~IsNeighbour(s, d) /\ street # {} /\ ~IsCoordinator(s, at) /\ last # Here(s) -> street
       [] OTHER -> BestNeighbor(s, pos)

GpcrRepair(s, at, me, last) ==
  LET street == StreetHops(s, at, me, last)
  IN IF street # {} /\ ~IsCoordinator(s, at) THEN street ELSE BestAngle(s, me, last)

-----------------------------------------------------------------------------
(* Three dimensions: face routing on the Gabriel graph of a projection *)

Project(plane, v) == CASE plane = 0 -> <<v[1], v[2], 0>>
                       [] plane = 1 -> <<v[1], v[3], 0>>
                       [] plane = 2 -> <<v[2], v[3], 0>>

Face3d(s, at, plane, where, last) ==
  LET me == Project(plane, where)
      p  == [n \in GetKnownNeighbors(s) |-> Project(plane, GetPosition(at, n))]
      Twice(n, w) == <<2 * p[w][1] - me[1] - p[n][1], 2 * p[w][2] - me[2] - p[n][2], 0>>
      G  == {n \in DOMAIN p : /\ p[n] # me
                              /\ \A w \in DOMAIN p \ {n} : Dot(Twice(n, w), Twice(n, w)) >= Dist2(me, p[n])}
      B  == FirstEdges(me, Project(plane, last), [n \in G |-> p[n]])
  IN IF B = {} THEN G ELSE B

-----------------------------------------------------------------------------
(* Packets *)

Header(dst, rec, inRec, last) ==
  [type |-> "pos", dst |-> dst, rec |-> rec, inRec |-> inRec, last |-> last, plane |-> 0, hops |-> 0]
Marked(s, p) == [p EXCEPT !.path = Append(@, s.me)]
Greedily(s, p, pos) ==
  Marked(s, IF p.msg.type = "pos" THEN [p EXCEPT !.msg = Header(Told(pos), Nowhere, FALSE, Told(Here(s)))] ELSE p)
\* The walk that begins here, along the edge to ref: dst is what the header has of the
\* destination.
BeginsWalk(s, p, dst, ref) == Marked(s, [p EXCEPT !.msg = Header(dst, Told(Here(s)), TRUE, Told(ref))])

\* A plausible bug: the walk forgets where it began.
WalkOnForgetful(s, h) == [h EXCEPT !.last = Told(Here(s)), !.rec = Told(Here(s)), !.hops = @ + 1, !.inRec = TRUE]

\* The header a hop of the walk sends on; in three dimensions, FaceTtl hops on a
\* plane and then the next one, afresh.
WalkOn(s, h) ==
  LET turn == s.pol.mode = "3d" /\ h.hops + 1 > FaceTtl
  IN [h EXCEPT !.last = Told(Here(s)), !.inRec = TRUE, !.plane = IF turn THEN @ + 1 ELSE @,
               !.hops = IF turn THEN 1 ELSE IF s.pol.mode = "3d" THEN @ + 1 ELSE @]

\* A node on a walk takes its own x and y cut, too.
RecoveryMode(s0, at, p) ==
  LET s == PurgeTable(s0)
      me == [Told(Here(s)) EXCEPT ![3] = Here(s)[3]]
      h == WalkOn(s, p.msg)
      from == IF h.plane # p.msg.plane THEN p.msg.dst ELSE p.msg.last
      hops == CASE s.pol.mode = "3d" -> IF h.plane > 2 THEN {} ELSE Face3d(s, at, h.plane, me, from)
                [] s.pol.mode = "gpcr" -> GpcrRepair(s, at, me, from)
                [] OTHER -> BestAngle(s, me, from)
  IN IF s.pol.mode = "greedy" \/ hops = {} THEN {End(s, p, "refused")}
     ELSE {IpForward(s, n, [p EXCEPT !.msg = h]) : n \in hops}

\* A walk goes to the x and y the header has of the destination, and first looks along
\* the edge to where it is now.
Forwarding(s0, at, p) ==
  LET s   == PurgeTable(s0)
      pos == God(s, at, p.dst)
      h   == p.msg
      headed == h.type = "pos"
      walks  == headed /\ h.inRec /\ Dist2(Here(s), h.dst) >= Dist2(h.rec, h.dst)
      hops   == IF s.pol.mode = "gpcr" /\ headed THEN GpcrGreedy(s, at, p.dst, pos, h.last) ELSE BestNeighbor(s, pos)
      Stuck  == BeginsWalk(s, p, <<h.dst[1], h.dst[2], Whole(pos[3])>>, pos)
  IN CASE walks -> RecoveryMode(s, at, p)
       [] ~walks /\ hops # {} -> {IpForward(s, n, Greedily(s, p, pos)) : n \in hops}
       [] OTHER -> IF headed THEN RecoveryMode(s, at, Stuck) ELSE {End(s, p, "refused")}

GpsrInput(s, at, p) == IF p.dst = s.me THEN {End(s, p, "delivered")} ELSE Forwarding(s, at, p)

\* RouteOutput, and the header AddHeaders puts on.
GpsrOutput(s0, at, p) ==
  LET pos  == God(s0, at, p.dst)
      s    == AfterGreedy(s0, p.dst)
      hops == GreedyHops(s0, p.dst, pos)
      q    == IF s.pol.mode = "tcp" THEN p
              ELSE [p EXCEPT !.msg = Header(Narrow(pos), Nowhere, FALSE, Told(Here(s)))]
  IN IF hops = {} THEN {Emit(s, [kind |-> "loop", from |-> s.me, to |-> s.me, body |-> q])}
     ELSE {Transmit(s, n, Marked(s, q)) : n \in hops}

GpsrDeferred(s, p) == [AddEntry(s, p) EXCEPT !.pol.check = @ \/ s.queue = <<>>]

\* SendPacketFromQueue: the whole of what waits for d leaves, greedily or walking.
SendFromQueue(s0, at, d) ==
  LET pos  == God(s0, at, d)
      hops == GreedyHops(s0, d, pos)
      s    == Dequeued(AfterGreedy(s0, d), d)
      Walk(u, p) == IF p.msg.type # "pos" THEN {End(u, p, "refused")}
                    ELSE RecoveryMode(u, at, BeginsWalk(u, p, p.msg.dst, p.msg.dst))
      Leave(u, p) == IF hops = {} THEN Walk(u, p) ELSE {IpForward(u, n, Marked(u, p)) : n \in hops}
  IN FoldLeft(LAMBDA S, p : UNION {Leave(u, p) : u \in S}, {s}, Waiting(s0, d))

CheckQueue(s, at) ==
  FoldLeft(LAMBDA S, d : UNION {SendFromQueue(u, at, d) : u \in S}, {[s EXCEPT !.pol.check = FALSE]},
           SetToSeq({p.dst : p \in Range(s.queue)}))

-----------------------------------------------------------------------------
(* Hellos, the MAC and movement *)

GpsrHello(s0, at) ==
  LET s == IF s0.pol.mode = "gpcr" THEN PurgeTable(s0) ELSE s0
  IN Broadcast(s, [type |-> "hello", at |-> Told(Here(s)), coord |-> s.pol.mode = "gpcr" /\ IsCoordinator(s, at)])

RecvGpsr(s, from, m) ==
  [AddPosition(s, from, m.at) EXCEPT
            !.pol.coord = IF m.coord THEN @ \cup {from} ELSE @ \ {from}]

GpsrTxError(s, f) ==
  End(DeletePosition(s, f.to), f.body, "mac")

\* Without its only interface, or the address of it, a node forgets its neighbours, not
\* which of them were coordinators.
Forsaken(s, iface)    == [s EXCEPT !.iface = iface, !.pol.nbs = <<>>, !.pol.stale = {}]
GpsrDown(s)           == Forsaken(s, "down")
GpsrRemoveAddress(s)  == Forsaken(s, "bare")
GpsrUp(s)             == [s EXCEPT !.iface = "up"]
GpsrAddAddress(s)     == [s EXCEPT !.iface = "up"]

Outdated(s, n) == [s EXCEPT !.pol.stale = @ \cup {n}]
MovedTo(s, at) == [s EXCEPT !.pol.at = at]
=============================================================================
