-------------------------------- MODULE AraArm --------------------------------
(***************************************************************************)
(* ARA (ara-routing-protocol.cc): forward ants lay a trail to their source *)
(* and are answered by a backward ant, which retraces their way.  Hop      *)
(* counts only set how long a trail lives, and how long it lives is left   *)
(* open here.  What has been seen is remembered for longer than a packet   *)
(* or an ant lives.                                                        *)
(***************************************************************************)
EXTENDS AdaptiveBase

\* OnDataReceived: the records [s, keep]; keep is FALSE where the arm disposed of it.
AraReceived(s, p) ==
  CASE p.backtrack -> {[s |-> [s EXCEPT !.pol.trails = @ \ {<<p.dst, p.prev>>}], keep |-> TRUE]}
    [] ~p.backtrack /\ p.dst # s.me /\ p.id \in s.pol.seenData ->
         {[s |-> u, keep |-> FALSE] : u \in Hand(s, p, p.prev, TRUE)}
    [] OTHER -> {[s |-> [(IF p.dst = s.me THEN s ELSE SeenData(s, p)) EXCEPT
                           !.pol.trails = @ \cup {<<p.src, p.prev>>}],
                  keep |-> TRUE]}

\* A plausible bug: the last attempt leaves the packets in the queue.
AraDiscoveryTimeoutQuiet(s, d) ==
  LET over == [s EXCEPT !.pol.attempts = Without(@, d)]
  IN IF HasRoute(s, d) THEN FlushQueue(over, d)
     ELSE IF s.pol.attempts[d] < DiscoveryRetries /\ HasQueued(s, d)
     THEN {SendFant([s EXCEPT !.pol.attempts[d] = @ + 1], d)}
     ELSE {over}

AraDiscoveryTimeout(s, d) ==
  LET over == [s EXCEPT !.pol.attempts = Without(@, d)]
  IN IF HasRoute(s, d) THEN FlushQueue(over, d)
     ELSE IF s.pol.attempts[d] < DiscoveryRetries /\ HasQueued(s, d)
     THEN {SendFant([s EXCEPT !.pol.attempts[d] = @ + 1], d)}
     ELSE {DropQueued(over, d)}

\* A plausible bug: a later copy of a forward ant replaces the way back.
RecvFantAgain(s, from, m) ==
  LET key == <<m.origin, m.seq>>
      u == [s EXCEPT !.pol.fantFrom = With(@, key, from)]
  IN IF key \in s.pol.seenAnts THEN {u}
     ELSE {Broadcast([u EXCEPT !.pol.seenAnts = @ \cup {key}], [m EXCEPT !.ttl = @ - 1])}

\* The first copy of a forward ant.
RecvFant(s, from, m) ==
  LET key == <<m.origin, m.seq>>
      u == [SeenAnt(s, key) EXCEPT !.pol.trails = @ \cup {<<m.origin, from>>},
                                   !.pol.fantFrom = With(@, key, from)]
      Answer(v) == Send(v, from, [type |-> "bant", origin |-> s.me, target |-> m.origin,
                                  seq |-> m.seq, ttl |-> AntTtl])
  IN IF key \in s.pol.seenAnts THEN {s}
     ELSE {CASE m.target = s.me -> Answer(v)
             [] m.target # s.me /\ m.ttl > 1 -> Broadcast(v, [m EXCEPT !.ttl = @ - 1])
             [] OTHER -> v : v \in FlushQueue(u, m.origin)}

RecvBant(s, from, m) ==
  LET key == <<m.target, m.seq>>
      u == [s EXCEPT !.pol.trails = @ \cup {<<m.origin, from>>}]
  IN {CASE m.target = s.me -> [v EXCEPT !.pol.attempts = Without(@, m.origin)]
        [] m.target # s.me /\ key \in DOMAIN v.pol.fantFrom /\ m.ttl > 1 ->
             Send(v, v.pol.fantFrom[key], [m EXCEPT !.ttl = @ - 1])
        [] OTHER -> v : v \in FlushQueue(u, m.origin)}

AraRecvControl(s, from, m) ==
  IF m.origin = s.me THEN {s}
  ELSE IF m.type = "fant" THEN RecvFant(s, from, m) ELSE RecvBant(s, from, m)

\* A trail falls below the floor.
Evaporate(s, e) == [s EXCEPT !.pol.trails = @ \ {e}]
=============================================================================
