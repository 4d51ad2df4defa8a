------------------------------ MODULE BeeAdHocArm ------------------------------
(***************************************************************************)
(* BeeAdHoc (beeadhoc-routing-protocol.cc): scouts find source routes,     *)
(* foragers keep them, and every delivered packet is a forager on its way  *)
(* back: home alone with reply traffic or with a swarm.                    *)
(***************************************************************************)
EXTENDS AdaptiveBase

Home(s, d, path) ==
  {[s EXCEPT !.pol.hive[d].own = l] : l \in PutBee(s.pol.hive[d].own, path)}
Guest(s, d, path) ==
  {[s EXCEPT !.pol.hive[d].foreign = l] : l \in PutBee(s.pol.hive[d].foreign, path)}

\* MaybeSwarm: the foragers taken are lost if the first one's next hop has failed.
MaybeSwarm(s, d) ==
  LET h == s.pol.hive[d]
      n == Len(h.foreign)
      bees == [k \in 1 .. SwarmSize |-> h.foreign[n + 1 - k].path]
      left == [s EXCEPT !.pol.hive[d].foreign = SubSeq(@, 1, n - SwarmSize)]
      next == NextOnPath(bees[1], s.me)
  IN IF n <= SwarmSize \/ Len(h.own) >= SwarmSizeOwn THEN s
     ELSE IF next = NoNode \/ next \in s.pol.failed THEN left
     ELSE Send(left, next, [type |-> "swarm", src |-> s.me, dst |-> d, path |-> bees[1], cargo |-> bees])

\* OnDataReceived at the destination: the trailer comes off, its reversed route is a
\* foreign forager for the source, and the one it carried is home.
Delivered(s, p) ==
  LET back == Guest(Heard(s, p.prev), p.src, Reverse(p.path))
      mine == Len(p.piggy) >= 2 /\ Last(p.piggy) = s.me
      Settle(u) == IF mine THEN UNION {FlushQueue(v, p.src) : v \in Home(u, p.src, Reverse(p.piggy))}
                   ELSE {u}
  IN {MaybeSwarm(v, p.src) : v \in UNION {Settle(u) : u \in back}}

BeeReceived(s, p) ==
  {[s |-> u, keep |-> TRUE] :
     u \in IF p.dst = s.me /\ p.path # <<>> THEN Delivered(s, p) ELSE {Heard(s, p.prev)}}

ScoutTimeout(s, d) ==
  LET w == s.pol.pending[d]
      rounds == IF w.ttl >= MaxHops THEN w.rounds + 1 ELSE w.rounds
      over == [s EXCEPT !.pol.pending = Without(@, d)]
      ttl == IF 2 * w.ttl < MaxHops THEN 2 * w.ttl ELSE MaxHops
  IN CASE ~HasQueued(s, d) -> over
       [] HasQueued(s, d) /\ w.ttl >= MaxHops /\ rounds >= MaxRoundsAtMaxTtl -> DropQueued(over, d)
       [] OTHER -> SendScout([s EXCEPT !.pol.pending[d] = [ttl |-> ttl, rounds |-> rounds]], d)

RecvScout(s, m) ==
  LET key == <<m.src, m.dst, m.id>>
      u == [s EXCEPT !.pol.seen = LET l == Append(@, key)
                                  IN IF Len(l) > ScoutListLength THEN Tail(l) ELSE l]
      path == Append(m.path, s.me)
  IN CASE m.src = s.me \/ key \in Range(s.pol.seen) -> s
       [] m.src # s.me /\ key \notin Range(s.pol.seen) /\ m.dst = s.me ->
            Send(u, Last(m.path), [type |-> "scoutback", src |-> m.src, dst |-> m.dst, path |-> path])
       [] OTHER -> IF m.ttl <= 1 \/ Len(m.path) >= MaxHops THEN u
                   ELSE Broadcast(u, [m EXCEPT !.ttl = @ - 1, !.path = path])

\* Home, the scout becomes a forager and releases what waits for it.
RecvScoutBack(s, m) ==
  LET back == PrevOnPath(m.path, s.me)
  IN IF m.path[1] = s.me
     THEN UNION {FlushQueue([u EXCEPT !.pol.pending = Without(@, m.dst)], m.dst) : u \in Home(s, m.dst, m.path)}
     ELSE {IF back = NoNode THEN s ELSE Send(s, back, m)}

RecvSwarm(s, m) ==
  LET next == NextOnPath(m.path, s.me)
      Unpack(S, path) == UNION {Home(u, m.src, Reverse(path)) : u \in S}
  IN IF Last(m.path) = s.me THEN UNION {FlushQueue(u, m.src) : u \in FoldLeft(Unpack, {s}, m.cargo)}
     ELSE {IF next = NoNode \/ next \in s.pol.failed THEN s ELSE Send(s, next, m)}

BeeRecvControl(s, from, m) ==
  LET u == Heard(s, from)
  IN CASE m.type = "scout" -> {RecvScout(u, m)}
       [] m.type = "scoutback" -> RecvScoutBack(u, m)
       [] m.type = "swarm" -> RecvSwarm(u, m)

\* Time passes: the foragers grow old, and the failure of a link is forgotten.
Age(s) ==
  LET Old(l) == [k \in DOMAIN l |-> [l[k] EXCEPT !.fresh = FALSE]]
  IN [s EXCEPT !.pol.failed = {},
               !.pol.hive = [d \in Nodes |-> [own |-> Old(@[d].own), foreign |-> Old(@[d].foreign)]]]
=============================================================================
