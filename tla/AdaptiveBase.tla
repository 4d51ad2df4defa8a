----------------------------- MODULE AdaptiveBase -----------------------------
(***************************************************************************)
(* The forwarding plane the adaptive baselines share (RoutingBase,         *)
(* adaptive-routing-base.cc): the stamp on a data packet, the hold queue,  *)
(* and what a failed transmission sets going.  Every operator returns the  *)
(* set of nodes its call may leave.                                        *)
(*                                                                         *)
(* The operators are mutually recursive as the code is: a packet handed to *)
(* a neighbour whose ARP entry is dead comes back within the call, through *)
(* NotifyArpDrop, and is routed again, which may hold it, start a search,  *)
(* and flush the queue being flushed.                                      *)
(***************************************************************************)
EXTENDS AdaptiveArms

CONSTANTS MaxQueueLen, InitialTtl

Data(s, to, p) == [kind |-> "data", from |-> s.me, to |-> to, body |-> p]
Emit(s, f)     == [s EXCEPT !.out = @ \cup {f}]
End(s, p, cause) == [s EXCEPT !.ended = @ \cup {<<p.id, cause>>}]

\* The stamp keeps the upstream of a packet that already carries our own.
Stamped(s, p, next, backtrack) ==
  [p EXCEPT !.prev = s.me, !.next = next, !.backtrack = backtrack,
            !.up = IF p.prev = s.me THEN p.up ELSE p.prev]

HasQueued(s, d) == \E i \in DOMAIN s.queue : s.queue[i].dst = d

\* Enqueue: the oldest packet of a full queue is refused.
Enqueue(s, p) ==
  LET u == IF Len(s.queue) >= MaxQueueLen
           THEN End([s EXCEPT !.queue = Tail(@)], Head(s.queue), "refused") ELSE s
  IN [u EXCEPT !.queue = Append(@, p)]

Refuse(s, Out(_)) ==
  [s EXCEPT !.queue = SelectSeq(@, LAMBDA p : ~Out(p)),
            !.ended = @ \cup {<<p.id, "refused">> : p \in {q \in Range(s.queue) : Out(q)}}]
DropQueued(s, d) == Refuse(s, LAMBDA p : p.dst = d)

RECURSIVE Hand(_, _, _, _), ArpDrop(_, _), Reroute(_, _), FlushOne(_, _, _), FlushQueue(_, _),
          StartDiscovery(_, _)

\* ForwardData up to the interface: ucb leads to IpForward, which spends a hop of
\* the packet's TTL, and to ARP, which drops it at once for a dead entry.  A node that
\* is down finds no route to make, and the packet is lost without a call to its error callback.
Hand(s, p, next, backtrack) ==
  LET q == [Stamped(s, p, next, backtrack) EXCEPT !.ttl = @ - 1]
  IN CASE s.iface # "up" -> {End(s, p, "lost")}
       [] s.iface = "up" /\ q.ttl = 0 -> {End(s, q, "ttl")}
       [] OTHER -> IF next \in s.dead THEN ArpDrop(s, q) ELSE {Emit(s, Data(s, next, q))}

\* OnDataForwarded and ForwardData, for a choice c of SelectNextHop.
Onward(c) == Hand(OnDataForwarded(c.s, c.p, c.next), c.p, c.next, FALSE)

\* OnNoRouteInTransit where it disposes of the packet, and what the base does where
\* it does not.  prev is where the packet came from.
NoRoute(s, p, prev) ==
  CASE BacksUp(s, p, prev) -> Hand(s, p, prev, TRUE)
    [] GivesUp(s) -> {End(s, p, "refused")}
    [] OTHER -> StartDiscovery(Enqueue(s, p), p.dst)

Forward(s, p, prev) ==
  UNION {IF c.next = NoNode THEN NoRoute(c.s, c.p, prev) ELSE Onward(c) : c \in SelectNextHop(s, p, prev)}

\* NotifyArpDrop, for a data packet this node stamped.
ArpDrop(s, p) ==
  LET u == IF s.iface = "up" THEN OnLinkFailure(s, p.next) ELSE s
  IN IF p.ttl <= 1 \/ s.iface # "up" THEN {End(u, p, "arp")} ELSE Reroute(u, p)

Reroute(s, p) == Forward(s, p, p.up)

\* A plausible bug: a packet whose route is gone is not queued again.
FlushOneOnce(s, p, d) ==
  UNION {IF c.next = NoNode THEN {c.s} ELSE Onward(c)
         : c \in SelectNextHop(s, p, IF p.prev = s.me THEN p.up ELSE p.prev)}

\* FlushQueue: the packets for d are taken out, then sent one by one; one with no
\* next hop goes to the back of the queue.
FlushOne(s, p, d) ==
  UNION {IF c.next = NoNode THEN {[c.s EXCEPT !.queue = Append(@, c.p)]} ELSE Onward(c)
         : c \in SelectNextHop(s, p, IF p.prev = s.me THEN p.up ELSE p.prev)}

FlushQueue(s, d) ==
  LET keep == SelectSeq(s.queue, LAMBDA p : p.dst # d)
      send == SelectSeq(s.queue, LAMBDA p : p.dst = d)
  IN FoldLeft(LAMBDA S, p : UNION {FlushOne(u, p, d) : u \in S}, {[s EXCEPT !.queue = keep]}, send)

StartDiscovery(s, d) ==
  IF HasRoute(s, d) THEN FlushQueue(s, d)
  ELSE IF IsPending(s, d) THEN {s} ELSE Seek(s, d)

FlushAll(s) ==
  FoldLeft(LAMBDA S, d : UNION {FlushQueue(u, d) : u \in S}, {s},
           SetToSeq({p.dst : p \in Range(s.queue)}))

-----------------------------------------------------------------------------
(* What happens at a node *)

\* msg is the control message an IP packet carries, where routing sees it.
NoMessage == [type |-> "none"]
Packet(id, src, dst, ttl) ==
  [id |-> id, src |-> src, dst |-> dst, ttl |-> ttl, prev |-> NoNode, up |-> NoNode,
   next |-> NoNode, backtrack |-> FALSE, path |-> <<>>, piggy |-> <<>>, msg |-> NoMessage]

\* BeeAdHoc routes nothing at output, where the packet is still the transport's.
Loop(s, p)      == Emit(s, [kind |-> "loop", from |-> s.me, to |-> s.me, body |-> p])
BeeOutput(s, p) == {Loop(s, p)}

\* RouteOutput: a packet with no next hop is bounced through loopback.
RouteOutput(s, p) ==
  LET Out(c) == IF c.next = NoNode THEN {Loop(c.s, p)}
                ELSE LET q == [c.p EXCEPT !.prev = s.me, !.next = c.next]
                         u == OnDataForwarded(c.s, c.p, c.next)
                     IN IF c.next \in s.dead THEN ArpDrop(u, q) ELSE {Emit(u, Data(u, c.next, q))}
  IN IF s.arm = "beeadhoc" THEN BeeOutput(s, p) ELSE UNION {Out(c) : c \in SelectNextHop(s, p, NoNode)}

\* RouteInput from loopback: BeeAdHoc sends the packet on if it has a forager, any
\* other arm holds it and searches.  The hop spent on the way back is given back.
Hold(s, p) == StartDiscovery(Enqueue(s, p), p.dst)
OnLoopedBack(s, p) ==
  UNION {IF c.next = NoNode THEN Hold(c.s, p) ELSE Onward(c) : c \in BeeOriginate(s, p)}
LoopedBack(s, p) ==
  LET q == [p EXCEPT !.ttl = @ + 1]
  IN IF s.arm = "beeadhoc" THEN OnLoopedBack(s, q) ELSE Hold(s, q)

\* NotifyTxError for the frame f: a data packet is recovered if it has hops left.  A node
\* that is down is not told.
TxError(s, f) ==
  IF s.iface # "up" \/ f.to \notin KnownNeighbors(s)
  THEN {IF f.kind = "data" THEN End(s, f.body, "mac") ELSE s}
  ELSE LET u == OnLinkFailure(s, f.to)
       IN IF f.kind # "data" THEN {u}
          ELSE IF f.body.ttl <= 1 THEN {End(u, f.body, "mac")} ELSE Reroute(u, f.body)

\* NotifyInterfaceDown closes the sockets and keeps everything else, NotifyInterfaceUp
\* opens them again.
BaseDown(s) == [s EXCEPT !.iface = "down"]
BaseUp(s)   == [s EXCEPT !.iface = "up"]

\* PurgeQueue: the packets X have waited long enough.
PurgeQueue(s, X) == Refuse(s, LAMBDA p : p.id \in X)
=============================================================================
