------------------------------ MODULE TermiteArm ------------------------------
(***************************************************************************)
(* Termite (termite-routing-protocol.cc): every packet lays pheromone      *)
(* toward its source over the link it came by, heard or overheard; route   *)
(* requests and seeds walk at random.                                      *)
(***************************************************************************)
EXTENDS AdaptiveBase

Learn(s, n, src) ==
  IF n \in {NoNode, s.me} THEN s
  ELSE [s EXCEPT !.pol.table = IF src \in {NoNode, s.me} THEN AddNeighbor(@, n) ELSE DepositOn(@, src, n)]

TermiteReceived(s, p) == {[s |-> Learn(s, p.prev, p.src), keep |-> TRUE]}

HelloIfAlone(s) ==
  IF s.pol.table.nbs = {} THEN Broadcast(s, [type |-> "hello", origin |-> s.me]) ELSE s

SeedTimer(s) ==
  SendAnyOf(s, s.pol.table.nbs, [type |-> "seed", origin |-> s.me, ttl |-> AntTtl])

PruneTimer(s) == [s EXCEPT !.pol.table = PruneTable(@)]

RreqTimeout(s, d) ==
  LET u == [s EXCEPT !.pol.pending = @ \ {d}]
  IN IF HasRoute(s, d) THEN FlushQueue(u, d) ELSE {DropQueued(u, d)}

\* One more step of a walk m over the links in N.
Walk(s, N, m) == IF m.ttl > 1 THEN SendAnyOf(s, N, [m EXCEPT !.ttl = @ - 1]) ELSE {s}

RecvRreq(s, from, m) ==
  LET u == Learn(s, from, m.origin)
      reply == [type |-> "rrep", origin |-> m.target, target |-> m.origin, ttl |-> AntTtl]
  IN IF m.origin # s.me /\ (m.target = s.me \/ HasRoute(u, m.target))
     THEN SendAnyOf(u, TermiteHops(u, m.origin, NoNode), reply)
     ELSE Walk(u, u.pol.table.nbs \ {from}, m)

RecvRrep(s, from, m) ==
  UNION {IF m.target = s.me THEN {[u EXCEPT !.pol.pending = @ \ {m.origin}]}
         ELSE Walk(u, TermiteHops(u, m.target, from), m)
         : u \in FlushQueue(Learn(s, from, m.origin), m.origin)}

TermiteRecvControl(s, from, m) ==
  CASE m.type = "hello" -> {Send(Learn(s, from, from), from, [type |-> "hello_reply", origin |-> s.me])}
    [] m.type = "hello_reply" -> {Learn(s, from, from)}
    [] m.type = "seed" ->
         LET u == Learn(s, from, m.origin)
         IN IF m.origin = s.me THEN {u} ELSE Walk(u, u.pol.table.nbs \ {from}, m)
    [] m.type = "rreq" -> RecvRreq(s, from, m)
    [] m.type = "rrep" -> RecvRrep(s, from, m)

\* Overhear a frame meant for another node.
Overhear(s, f) ==
  IF f.kind = "data" THEN Learn(s, f.body.prev, f.body.src)
  ELSE Learn(s, f.from, IF f.body.type \in {"rreq", "rrep", "seed"} THEN f.body.origin ELSE f.from)

\* A cell decays to the floor.
Decay(s, c) == [s EXCEPT !.pol.table.live = @ \ {c}]
=============================================================================
