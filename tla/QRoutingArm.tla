------------------------------ MODULE QRoutingArm ------------------------------
(***************************************************************************)
(* Q-routing (qrouting-routing-protocol.cc): every data packet is answered *)
(* with the receiver's estimate of the delivery time that remains, which   *)
(* moves the sender's.  Times are hop counts: a hop costs 1, and the       *)
(* learning rate may move an estimate any part of the way.                 *)
(***************************************************************************)
EXTENDS AdaptiveBase

HearNow(s, n) == [s EXCEPT !.pol.nbs = @ \cup {n}, !.pol.stale = @ \ {n}]

QReceived(s, p) ==
  IF p.prev = NoNode THEN {[s |-> s, keep |-> TRUE]}
  ELSE LET u == LiveNeighbors(HearNow(s, p.prev))
           e == [type |-> "estimate", origin |-> p.src, target |-> p.dst, seq |-> p.id,
                 value |-> BestEstimate(u, p.dst)]
       IN {[s |-> Send(u, p.prev, e), keep |-> TRUE]}

QHello(s) == Broadcast(s, [type |-> "hello", origin |-> s.me])

\* QUpdate: anywhere between the old estimate and the new sample, which included.
Between(a, b) == IF a = b THEN {b} ELSE IF a < b THEN a + 1 .. b ELSE b .. a - 1
Sample(t) == IF t + 1 > QCap THEN QCap ELSE t + 1

RecvEstimate(s, from, m) ==
  IF m.seq \notin DOMAIN s.pol.pending \/ s.pol.pending[m.seq] # from THEN {s}
  ELSE {[s EXCEPT !.pol.q = With(@, <<m.target, from>>, v), !.pol.pending = Without(@, m.seq)]
        : v \in Between(QValue(s, m.target, from), Sample(m.value))}

QRecvControl(s, from, m) ==
  LET isNew == from \notin s.pol.nbs
      u == HearNow(s, from)
  IN IF m.type = "hello" THEN (IF isNew THEN FlushAll(u) ELSE {u}) ELSE RecvEstimate(u, from, m)

\* PurgePending: the estimate asked for the packet id came too late.
PurgePending(s, id) == [s EXCEPT !.pol.pending = Without(@, id)]

\* The neighbour was last heard longer ago than the timeout.
Fade(s, n) == [s EXCEPT !.pol.stale = @ \cup {n}]
=============================================================================
