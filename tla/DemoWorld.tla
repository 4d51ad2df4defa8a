------------------------------- MODULE DemoWorld -------------------------------
(***************************************************************************)
(* The field of the browser demo (web/src/sim.cpp): how nodes move and     *)
(* which pairs its teaching radio links.  Lengths are whole numbers, a     *)
(* point is <<x, y, z>>, a polygon a sequence of <<x, y>>, and where the   *)
(* code compares quotients or square roots the same comparison is made     *)
(* multiplied out.  One leg of a trajectory takes one unit of time.        *)
(*                                                                         *)
(* A world w is a record: channel, range, blocks (streets in x and y),     *)
(* block (length of a block), street, field (the points a random way leads *)
(* to), headings (of a Gauss-Markov walk), walls (the far corner), centre, *)
(* devices (own ranges, -1 for none), ground (the sine of the least        *)
(* elevation in percent, 200 for no ground station), sats, zones and jams. *)
(***************************************************************************)
EXTENDS Integers, Sequences, FiniteSets, FiniteSetsExt, SequencesExt

Plus(a, b)  == [i \in 1 .. 3 |-> a[i] + b[i]]
Less(a, b)  == [i \in 1 .. 3 |-> a[i] - b[i]]
Times(a, b) == a[1] * b[1] + a[2] * b[2] + a[3] * b[3]
Square(a)   == Times(a, a)
Abs(x)      == IF x < 0 THEN -x ELSE x
Edges(xy)   == {<<xy[i], xy[IF i = 1 THEN Len(xy) ELSE i - 1]>> : i \in DOMAIN xy}

-----------------------------------------------------------------------------
(* Mobility: m is a node's [kind, p, way, at, dir, paused]. *)

\* East, north, west, south: 0 .. 3.
Corner(w, p, dir) ==
  Plus(p, CASE dir = 0 -> <<w.block, 0, 0>> [] dir = 1 -> <<0, w.block, 0>>
            [] dir = 2 -> <<-w.block, 0, 0>> [] dir = 3 -> <<0, -w.block, 0>>)
OnGrid(w, p) == /\ p[1] \in 0 .. w.block * w.blocks[1]
                /\ p[2] \in 0 .. w.block * w.blocks[2]

\* The direction a car takes that draws a wish (ahead, left or right): the wish if the
\* grid goes on there, else left, right and, in a dead end, back.
Turn(w, m, wish) ==
  LET order == <<wish, (m.dir + 1) % 4, (m.dir + 3) % 4, (m.dir + 2) % 4>>
      open  == {i \in 1 .. 4 : OnGrid(w, Corner(w, m.p, order[i]))}
  IN IF open = {} THEN m.dir ELSE order[Min(open)]

\* A coordinate thrown back by the walls at 0 and at the far end.
Reflected(x, far) == LET y == IF x < 0 THEN -x ELSE x IN IF y > far THEN 2 * far - y ELSE y

\* extendLegs: where the next leg may take a node.
NextLegs(w, m) ==
  CASE m.kind = "static" -> {m}
    [] m.kind = "waypoint" ->
         IF m.pauses /\ ~m.paused THEN {[m EXCEPT !.paused = TRUE]}
         ELSE {[m EXCEPT !.paused = FALSE, !.p = q] : q \in w.field}
    [] m.kind = "markov" ->
         {[m EXCEPT !.p = [i \in 1 .. 3 |-> Reflected(@[i] + h[i], w.walls[i])]] : h \in w.headings}
    [] m.kind = "route" ->
         IF Len(m.way) < 2 THEN {m}
         ELSE LET i == (m.at % Len(m.way)) + 1 IN {[m EXCEPT !.at = i, !.p = m.way[i]]}
    [] m.kind = "orbit" ->
         LET i == (m.at % Len(m.way)) + 1 IN {[m EXCEPT !.at = i, !.p = m.way[i]]}
    [] m.kind = "manhattan" ->
         {[m EXCEPT !.dir = Turn(w, m, wish), !.p = Corner(w, @, Turn(w, m, wish))] :
            wish \in {m.dir, (m.dir + 1) % 4, (m.dir + 3) % 4}}

\* setMobility: a car starts at the nearest intersection, a route or an orbit at its first
\* point.
Snapped(x, step) == ((2 * x + step) \div (2 * step)) * step
Placed(w, m) ==
  [m EXCEPT !.p = CASE m.kind = "manhattan" -> <<Snapped(@[1], w.block), Snapped(@[2], w.block), 0>>
                    [] m.kind \in {"route", "orbit"} /\ m.way # << >> -> m.way[1]
                    [] OTHER -> @]

\* moveNode: dragged to q, a node stays there.
Pinned(m, q) == [m EXCEPT !.kind = "static", !.p = q]

-----------------------------------------------------------------------------
(* Areas *)

\* inPolygon: a ray towards +x crosses the polygon's edges an odd number of times.
InPolygon(xy, p) ==
  LET Crosses(e) ==
        LET a == e[1] b == e[2] rise == b[2] - a[2]
            lhs == (p[1] - a[1]) * Abs(rise)
            rhs == (b[1] - a[1]) * (IF rise > 0 THEN p[2] - a[2] ELSE a[2] - p[2])
        IN (a[2] > p[2]) # (b[2] > p[2]) /\ lhs < rhs
  IN Cardinality({e \in Edges(xy) : Crosses(e)}) % 2 = 1

\* rangeFactorAt, in percent: the smallest factor of the zones around p, unless p is above.
RangeFactorAt(w, p) == Min({100} \cup {z.factor : z \in {y \in w.zones : p[3] < y.top /\ InPolygon(y.xy, p)}})

Orient(a, b, c) == (b[1] - a[1]) * (c[2] - a[2]) - (b[2] - a[2]) * (c[1] - a[1])
Apart(x, y)     == (x < 0 /\ y > 0) \/ (x > 0 /\ y < 0)

\* jammed: an end inside an active zone, or a link that properly crosses its edge.
Jammed(w, a, b, now) ==
  \E z \in {y \in w.jams : y.from <= now /\ now < y.until} :
    LET xy == [i \in DOMAIN z.xy |-> <<z.xy[i][1] + z.v[1] * (now - z.from),
                                       z.xy[i][2] + z.v[2] * (now - z.from)>>]
    IN \/ InPolygon(xy, a) \/ InPolygon(xy, b)
       \/ \E e \in Edges(xy) : /\ Apart(Orient(a, b, e[1]), Orient(a, b, e[2]))
                               /\ Apart(Orient(e[1], e[2], a), Orient(e[1], e[2], b))

\* lineOfSight: the part of a - b over no block, but for the streets around it, has a length.
\* The clip's parameters are scaled by the segment's extent in both axes.
LineOfSight(w, a, b) ==
  LET d     == <<b[1] - a[1], b[2] - a[2]>>
      scale == Max({1, Abs(d[1])}) * Max({1, Abs(d[2])})
      Clip(k, lo, hi) ==      \* the parameters at which the segment is within lo .. hi in axis k
        IF d[k] = 0 THEN IF a[k] < lo \/ a[k] > hi THEN <<1, 0>> ELSE <<0, scale>>
        ELSE LET unit == scale \div Abs(d[k])
             IN IF d[k] > 0 THEN <<unit * (lo - a[k]), unit * (hi - a[k])>>
                            ELSE <<unit * (a[k] - hi), unit * (a[k] - lo)>>
      Blocks(i, j) ==
        LET h == w.street \div 2
            x == Clip(1, i * w.block + h, (i + 1) * w.block - h)
            y == Clip(2, j * w.block + h, (j + 1) * w.block - h)
        IN w.block > w.street /\ Min({scale, x[2], y[2]}) > Max({0, x[1], y[1]})
  IN \A i \in 0 .. w.blocks[1] - 1, j \in 0 .. w.blocks[2] - 1 : ~Blocks(i, j)

-----------------------------------------------------------------------------
(* Links *)

IsGround(w, n) == w.ground[n] <= 100

\* groundSees: the sine of the elevation of the satellite at s above the horizon of g.
GroundSees(w, g, pg, ps) ==
  LET u == Less(pg, w.centre) d == Less(ps, pg) up == Times(d, u)
  IN /\ Square(u) > 0 /\ Square(d) > 0
     /\ up >= 0 /\ 10000 * up * up >= w.ground[g] * w.ground[g] * Square(u) * Square(d)

NodeRange(w, n) == IF w.devices[n] < 0 THEN w.range ELSE w.devices[n]
Reach(w, n, p)  == NodeRange(w, n) * RangeFactorAt(w, p)

Within(w, a, b, pa, pb) ==
  LET r == Min({Reach(w, a, pa), Reach(w, b, pb)}) IN 10000 * Square(Less(pa, pb)) <= r * r

\* The disk rule, cut by jamming and in town by the buildings.
OnTheGround(w, a, b, pa, pb, now) ==
  /\ Within(w, a, b, pa, pb)
  /\ ~Jammed(w, pa, pb, now)
  /\ w.channel = "urban" => LineOfSight(w, pa, pb)

\* linkUpAt, between nodes that are on; isl holds the inter-satellite links, at[n] is n's place.
LinkUpAt(w, isl, at, a, b, now) ==
  LET Sees(g, s) == GroundSees(w, g, at[g], at[s])
      ga == IsGround(w, a) gb == IsGround(w, b)
      sa == a \in w.sats   sb == b \in w.sats
  IN /\ a # b
     /\ CASE w.channel = "isl" /\ (ga \/ gb) -> ga # gb /\ (IF ga THEN Sees(a, b) ELSE Sees(b, a))
          [] w.channel = "isl" /\ ~(ga \/ gb) -> {a, b} \in isl
          [] w.channel = "mixed" /\ sa /\ sb -> {a, b} \in isl
          [] w.channel = "mixed" /\ sa # sb ->
               IF sa THEN gb /\ Sees(b, a) ELSE ga /\ Sees(a, b)
          [] OTHER -> OnTheGround(w, a, b, at[a], at[b], now)

=============================================================================
