----------------------------- MODULE AdaptiveArms -----------------------------
(***************************************************************************)
(* The tables and the policies of the adaptive baselines: what each arm    *)
(* adds to the shared forwarding plane (the virtual functions of           *)
(* RoutingBase that do not call it back).                                  *)
(*                                                                         *)
(* A node is a record: arm and me; its hold queue; out, the frames it      *)
(* sends in this step; ended, the packets it gave up or delivered in this  *)
(* step; dead, the neighbours its ARP cache marks dead; iface, whether its *)
(* interface is "up", "down" or "bare" (without an address); and pol, the  *)
(* state of the arm:                                                       *)
(*   ara       trails, seenData, seenAnts, fantFrom, attempts (of every    *)
(*             pending discovery), seq                                     *)
(*   termite   table, pending                                              *)
(*   qrouting  nbs, stale (heard too long ago), q, pending                 *)
(*   beeadhoc  nbs, failed, hive, pending, seen, seq                       *)
(* A data packet carries its tags: prev, up and next are the PrevHopTag,   *)
(* path and piggy the routes of BeeAdHoc's trailer (<<>> when absent).     *)
(***************************************************************************)
EXTENDS Integers, Sequences, SequencesExt, FiniteSets

CONSTANTS
  Nodes, AllNodes,    \* AllNodes addresses a broadcast
  AntTtl,             \* AntTtl, RreqTtl, SeedTtl
  DiscoveryRetries,   \* ARA
  RreqsPerRequest,    \* Termite
  QInit, QCap,        \* Q-routing; QCap bounds the estimates
  MaxHops, InitialScoutTtl, MaxRoundsAtMaxTtl, ScoutListLength, SwarmSize, SwarmSizeOwn

NoNode == "none"

-----------------------------------------------------------------------------
(* The tables (adaptive-tables.h), as far as routing can tell them apart.  *)
(*                                                                         *)
(*   ARA      a set of <<destination, neighbour>>: the trails that have    *)
(*            not evaporated.  A draw proportional to positive weights may *)
(*            return any of them.                                          *)
(*   Termite  [nbs, cols, live]: the rows, the columns and the cells still *)
(*            above the floor.  Every row has a cell in every column, and  *)
(*            no cell has weight 0.                                        *)
(*   BeeAdHoc foragers [path, dances, fresh] in two lists per destination. *)

\* ARA's trails
Entries(T, d) == {e[2] : e \in {x \in T : x[1] = d}}
EraseNeighbor(T, n) == {e \in T : e[2] # n}

-----------------------------------------------------------------------------
(* Termite's bounded table *)

EmptyBounded == [nbs |-> {}, cols |-> {}, live |-> {}]

AddNeighbor(t, n) ==
  IF n \in t.nbs THEN t
  ELSE [t EXCEPT !.nbs = @ \cup {n}, !.live = @ \cup (t.cols \X {n})]

AddDestination(t, d) ==
  IF d \in t.cols THEN t
  ELSE [t EXCEPT !.cols = @ \cup {d}, !.live = @ \cup ({d} \X t.nbs)]

DepositOn(t, d, n) ==
  [AddDestination(AddNeighbor(t, n), d) EXCEPT !.live = @ \cup {<<d, n>>}]

RemoveNeighbor(t, n) ==
  [t EXCEPT !.nbs = @ \ {n}, !.live = {c \in @ : c[2] # n}]

\* A column goes when none of its cells is in use, unless it is a neighbour's own;
\* then a row goes when none of its cells is.
PruneTable(t) ==
  LET cols == {d \in t.cols : d \in t.nbs \/ \E n \in t.nbs : <<d, n>> \in t.live}
      nbs  == {n \in t.nbs : \E d \in cols : <<d, n>> \in t.live}
  IN [nbs |-> nbs, cols |-> cols, live |-> t.live]

-----------------------------------------------------------------------------
(* BeeAdHoc's forager store *)

CONSTANTS ArraySize,   \* foragers kept per destination and kind
          MaxDances    \* rating of a direct link, the cap of the others

EmptyHive == [own |-> <<>>, foreign |-> <<>>]

\* What BeeDances may rate a route: the batteries along it decide.
Ratings(path) == IF Len(path) = 2 THEN {MaxDances} ELSE 0..MaxDances

\* Put: the lists that may result, the forager discarded when the array is full.
PutBee(bees, path) ==
  IF Len(bees) >= ArraySize \/ Len(path) < 2 THEN {bees}
  ELSE {Append(bees, [path |-> path, dances |-> v, fresh |-> TRUE]) : v \in Ratings(path)}

\* The list without its i-th forager, the last one in its place.
Taken(bees, i) ==
  IF i = Len(bees) THEN Front(bees) ELSE [Front(bees) EXCEPT ![i] = Last(bees)]

\* Take: the <<hive, path>> a draw may lead to, <<>> when no forager is left.  A
\* fresh forager that still dances is copied, any other leaves the array; an old
\* one is used only if it was the last of both lists.
RECURSIVE TakeBee(_)
TakeBee(h) ==
  LET k == IF h.own # <<>> THEN "own" ELSE "foreign"
      Draw(i) ==
        LET f == h[k][i]
            left == [h EXCEPT ![k] = Taken(@, i)]
        IN CASE f.fresh /\ f.dances > 0 -> {<<[h EXCEPT ![k][i].dances = @ - 1], f.path>>}
             [] f.fresh /\ f.dances = 0 -> {<<left, f.path>>}
             [] ~f.fresh /\ left = EmptyHive -> {<<left, f.path>>}
             [] OTHER -> TakeBee(left)
  IN IF h = EmptyHive THEN {<<h, <<>>>>} ELSE UNION {Draw(i) : i \in DOMAIN h[k]}

\* RemoveLink: no forager whose route starts over the link me -> n, or uses it later.
Uses(f, a, b) == \E k \in 1 .. Len(f.path) - 1 : f.path[k] = a /\ f.path[k + 1] = b
RemoveLink(h, a, b) ==
  [own     |-> SelectSeq(h.own, LAMBDA f : ~Uses(f, a, b)),
   foreign |-> SelectSeq(h.foreign, LAMBDA f : ~Uses(f, a, b))]

FirstHops(h) == {f.path[2] : f \in Range(h.own) \cup Range(h.foreign)}

-----------------------------------------------------------------------------
(* The state of a policy *)

Without(f, x) == [y \in DOMAIN f \ {x} |-> f[y]]
With(f, x, v) == [y \in DOMAIN f \cup {x} |-> IF y = x THEN v ELSE f[y]]

NewPolicy(arm) ==
  CASE arm = "ara" -> [trails |-> {}, seenData |-> {}, seenAnts |-> {}, fantFrom |-> <<>>,
                       attempts |-> <<>>, seq |-> 0]
    [] arm = "termite"  -> [table |-> EmptyBounded, pending |-> {}]
    [] arm = "qrouting" -> [nbs |-> {}, stale |-> {}, q |-> <<>>, pending |-> <<>>]
    [] arm = "beeadhoc" -> [nbs |-> {}, failed |-> {}, hive |-> [d \in Nodes |-> EmptyHive],
                            pending |-> <<>>, seen |-> <<>>, seq |-> 0]

\* Control messages leave through the sockets, of which a node that is not up has none.
Send(s, to, m) ==
  IF s.iface # "up" THEN s
  ELSE [s EXCEPT !.out = @ \cup {[kind |-> "control", from |-> s.me, to |-> to, body |-> m]}]
Broadcast(s, m)  == Send(s, AllNodes, m)
SendAnyOf(s, N, m) == IF N = {} THEN {s} ELSE {Send(s, n, m) : n \in N}

-----------------------------------------------------------------------------
(* OnLinkFailure and KnownNeighbors *)

DropTrails(p, n)  == [p EXCEPT !.trails = EraseNeighbor(@, n)]
DropRow(p, n)     == [p EXCEPT !.table = RemoveNeighbor(@, n)]
\* A plausible bug: the estimates over a lost link are kept.
DropNeighborOnly(p, n) == [p EXCEPT !.nbs = @ \ {n}, !.stale = @ \ {n}]

DropEstimates(p, n) ==
  [p EXCEPT !.nbs = @ \ {n}, !.stale = @ \ {n},
            !.q = [x \in {y \in DOMAIN @ : y[2] # n} |-> @[x]]]
DropForagers(p, me, n) ==
  [p EXCEPT !.nbs = @ \ {n}, !.failed = @ \cup {n},
            !.hive = [d \in Nodes |-> RemoveLink(@[d], me, n)]]

OnLinkFailure(s, n) ==
  [s EXCEPT !.pol = CASE s.arm = "ara"      -> DropTrails(@, n)
                      [] s.arm = "termite"  -> DropRow(@, n)
                      [] s.arm = "qrouting" -> DropEstimates(@, n)
                      [] s.arm = "beeadhoc" -> DropForagers(@, s.me, n)]

TrailHeads(s)       == {e[2] : e \in s.pol.trails}
EstimatedVia(s)     == s.pol.nbs
ForagedOver(s)      == s.pol.nbs \cup UNION {FirstHops(s.pol.hive[d]) : d \in Nodes}
KnownNeighbors(s) ==
  CASE s.arm = "ara"      -> TrailHeads(s)
    [] s.arm = "termite"  -> s.pol.table.nbs
    [] s.arm = "qrouting" -> EstimatedVia(s)
    [] s.arm = "beeadhoc" -> ForagedOver(s)

-----------------------------------------------------------------------------
(* Q-routing's estimates *)

\* LiveNeighbors forgets, as it is asked, the neighbours not heard for too long.
LiveNeighbors(s) == [s EXCEPT !.pol = FoldLeft(DropEstimates, @, SetToSeq(@.stale))]

QValue(s, d, n) ==
  IF <<d, n>> \in DOMAIN s.pol.q THEN s.pol.q[<<d, n>>] ELSE IF n = d THEN 0 ELSE QInit

\* BestEstimate and the neighbours that reach it, of a node with no stale neighbour.
Least(S) == CHOOSE x \in S : \A y \in S : x <= y
BestEstimate(s, d) ==
  IF d = s.me THEN 0
  ELSE IF s.pol.nbs = {} THEN QInit ELSE Least({QValue(s, d, n) : n \in s.pol.nbs})
BestNeighbors(s, d) == {n \in s.pol.nbs : QValue(s, d, n) = Least({QValue(s, d, m) : m \in s.pol.nbs})}

-----------------------------------------------------------------------------
(* BeeAdHoc's source routes *)

Heard(s, n) == [s EXCEPT !.pol.nbs = @ \cup {n}, !.pol.failed = @ \ {n}]

\* NextOnPath and PrevOnPath: around the first place this node has on the route.
NextOnPath(path, me) ==
  LET K == {k \in 1 .. Len(path) - 1 : path[k] = me}
  IN IF K = {} THEN NoNode ELSE path[Least(K) + 1]
PrevOnPath(path, me) ==
  LET K == {k \in 2 .. Len(path) : path[k] = me}
  IN IF K = {} THEN NoNode ELSE path[Least(K) - 1]

\* Foragers are drawn until one does not start over a failed link.
RECURSIVE UsableBee(_, _)
UsableBee(s, d) ==
  UNION {LET u == [s EXCEPT !.pol.hive[d] = r[1]]
         IN IF r[2] # <<>> /\ r[2][2] \in s.pol.failed THEN UsableBee(u, d) ELSE {<<u, r[2]>>}
         : r \in TakeBee(s.pol.hive[d])}

\* Originate: the packet gets a forager's route, and takes a foreign forager home.
BeeOriginate(s, p) ==
  {LET bees == r[1].pol.hive[p.dst].foreign IN
   IF r[2] = <<>> THEN [s |-> r[1], p |-> p, next |-> NoNode]
   ELSE IF bees = <<>>
   THEN [s |-> r[1], p |-> [p EXCEPT !.path = r[2], !.piggy = <<>>], next |-> r[2][2]]
   ELSE [s |-> [r[1] EXCEPT !.pol.hive[p.dst].foreign = Front(@)],
         p |-> [p EXCEPT !.path = r[2], !.piggy = Last(bees).path], next |-> r[2][2]]
   : r \in UsableBee(s, p.dst)}

BeeSelect(s, p) ==
  LET routed == p.path # <<>> /\ Last(p.path) = p.dst
      next   == NextOnPath(p.path, s.me)
      nowhere == {[s |-> s, p |-> p, next |-> NoNode]}
  IN CASE ~routed -> IF p.src = s.me THEN BeeOriginate(s, p) ELSE nowhere
       [] routed /\ next # NoNode /\ next \notin s.pol.failed -> {[s |-> s, p |-> p, next |-> next]}
       [] OTHER -> IF p.path[1] = s.me
                   THEN BeeOriginate(s, [p EXCEPT !.path = <<>>, !.piggy = <<>>])
                   ELSE nowhere

-----------------------------------------------------------------------------
(* SelectNextHop: the records [s, p, next] it may lead to, next = NoNode when *)
(* the arm has no usable next hop.                                            *)

AraHops(s, d, prev) ==
  LET E == Entries(s.pol.trails, d) IN IF Cardinality(E) > 1 THEN E \ {prev} ELSE E
TermiteHops(s, d, prev) == IF d \in s.pol.table.cols THEN s.pol.table.nbs \ {prev} ELSE {}

AnyOf(s, p, N) == {[s |-> s, p |-> p, next |-> n] : n \in IF N = {} THEN {NoNode} ELSE N}

SelectNextHop(s, p, prev) ==
  CASE s.arm = "ara"      -> AnyOf(s, p, AraHops(s, p.dst, prev))
    [] s.arm = "termite"  -> AnyOf(s, p, TermiteHops(s, p.dst, prev))
    [] s.arm = "qrouting" -> LET u == LiveNeighbors(s) IN AnyOf(u, p, BestNeighbors(u, p.dst))
    [] s.arm = "beeadhoc" -> BeeSelect(s, p)

\* A packet of one's own counts as seen once it leaves.
SeenData(s, p)      == [s EXCEPT !.pol.seenData = @ \cup {p.id}]
AraForwarded(s, p, next) ==
  LET u == [s EXCEPT !.pol.trails = @ \cup {<<p.dst, next>>}]
  IN IF p.src = s.me THEN SeenData(u, p) ELSE u
QForwarded(s, p, next) == [s EXCEPT !.pol.pending = With(@, p.id, next)]
OnDataForwarded(s, p, next) ==
  CASE s.arm = "ara"      -> AraForwarded(s, p, next)
    [] s.arm = "qrouting" -> QForwarded(s, p, next)
    [] OTHER -> s

\* OnNoRouteInTransit: ARA backs the packet up towards its source, which searches
\* again; BeeAdHoc, which routes at the source, gives it up.
BacksUp(s, p, prev) == s.arm = "ara" /\ p.src # s.me /\ prev \notin {NoNode, s.me}
GivesUp(s)          == s.arm = "beeadhoc"

-----------------------------------------------------------------------------
(* The search StartDiscovery begins *)

SeenAnt(s, key) == [s EXCEPT !.pol.seenAnts = @ \cup {key}]
SendFant(s, d) ==
  LET u == SeenAnt([s EXCEPT !.pol.seq = @ + 1], <<s.me, s.pol.seq + 1>>)
  IN Broadcast(u, [type |-> "fant", origin |-> s.me, target |-> d, seq |-> u.pol.seq, ttl |-> AntTtl])

\* Each request of a round goes to a neighbour of its own draw.
SendRreqs(s, d) ==
  LET Request(S, k) == UNION {SendAnyOf(u, u.pol.table.nbs, [type |-> "rreq", origin |-> s.me,
                                target |-> d, seq |-> k, ttl |-> AntTtl]) : u \in S}
  IN {[u EXCEPT !.pol.pending = @ \cup {d}] :
        u \in FoldLeft(Request, {s}, [k \in 1 .. RreqsPerRequest |-> k])}

SendScout(s, d) ==
  LET id == s.pol.seq + 1
      u  == [s EXCEPT !.pol.seq = id,
                      !.pol.seen = LET l == Append(@, <<s.me, d, id>>)
                                   IN IF Len(l) > ScoutListLength THEN Tail(l) ELSE l]
  IN Broadcast(u, [type |-> "scout", src |-> s.me, dst |-> d, id |-> id,
                   ttl |-> s.pol.pending[d].ttl, path |-> <<s.me>>])

\* Has the arm a next hop for d as far as StartDiscovery and its timers look?
HasRoute(s, d) ==
  CASE s.arm = "ara"     -> Entries(s.pol.trails, d) # {}
    [] s.arm = "termite" -> d \in s.pol.table.cols
    [] OTHER -> FALSE

IsPending(s, d) ==
  CASE s.arm = "ara"      -> d \in DOMAIN s.pol.attempts
    [] s.arm = "termite"  -> d \in s.pol.pending
    [] s.arm = "beeadhoc" -> d \in DOMAIN s.pol.pending
    [] s.arm = "qrouting" -> FALSE

Seek(s, d) ==
  CASE s.arm = "ara"      -> {SendFant([s EXCEPT !.pol.attempts = With(@, d, 0)], d)}
    [] s.arm = "termite"  -> SendRreqs(s, d)
    [] s.arm = "beeadhoc" -> {SendScout([s EXCEPT !.pol.pending =
                                           With(@, d, [ttl |-> InitialScoutTtl, rounds |-> 0])], d)}
    [] s.arm = "qrouting" -> {s}
=============================================================================
