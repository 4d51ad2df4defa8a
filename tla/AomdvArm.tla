------------------------------- MODULE AomdvArm -------------------------------
(***************************************************************************)
(* AOMDV (aomdv-routing-protocol.cc, aomdv-rtable.cc): requests are        *)
(* flooded, replies retrace them, and an entry keeps up to MaxPaths paths  *)
(* with different next and last hops.  Sequence numbers tell old routes    *)
(* from new ones.  pol is the state of a node:                             *)
(*   rt       destination -> entry: valid (is seq valid?), seq, flag,      *)
(*            paths [next, hops, last], prec (the precursors), cnt         *)
(*            (requests sent at the full diameter), last (LastHopCount)    *)
(*            and adv (AdvertisedHopCount)                                 *)
(*   ids      the id cache: <<origin, id>> -> has it been answered?        *)
(*   nbs      the neighbours that Neighbors watches                        *)
(*   timers, delayed   destinations with a request timer, and of requests  *)
(*            the rate limit put off                                       *)
(*   seq, id, rreqs, rerrs, spoke   (spoke: m_lastBcastTime is set)        *)
(* The table is looked up by copy and written back by Update, so what a    *)
(* handler writes late may be what it read early.  An id stays in the      *)
(* cache for longer than its flood lives.                                  *)
(***************************************************************************)
EXTENDS AdaptiveBase

CONSTANTS TtlStart, TtlIncrement, TtlThreshold, NetDiameter, RreqRetries,
          RreqRateLimit, RerrRateLimit,
          MaxPaths, AltPathDiff   \* AOMDV_MAX_PATHS, AOMDV_PRIM_ALT_PATH_LENGTH_DIFF

Infinity == 255   \* INFINITY2

NewAomdv == [rt |-> <<>>, ids |-> <<>>, nbs |-> {}, timers |-> {}, delayed |-> <<>>,
             seq |-> 0, id |-> 0, rreqs |-> 0, rerrs |-> 0, spoke |-> FALSE, hellos |-> TRUE]

-----------------------------------------------------------------------------
(* What AOMDV and GPSR have in common: the request queue that holds the packets    *)
(* without a route (aomdv-rqueue.cc, of which gpsr-rqueue.cc is a copy), and the   *)
(* interface and ARP under them, which unlike the adaptive baselines they do not   *)
(* watch for drops.  What has waited too long is refused by PurgeQueue.            *)

Transmit(s, to, p) == IF to \in s.dead THEN End(s, p, "arp") ELSE Emit(s, Data(s, to, p))
IpForward(s, to, p) ==
  IF p.ttl = 1 THEN End(s, p, "ttl") ELSE Transmit(s, to, [p EXCEPT !.ttl = @ - 1])

\* Enqueue: a packet that waits already is not taken a second time.  Messages, whose
\* id is 0, are a new packet each time.
IsQueued(s, p) == p.id # 0 /\ \E q \in Range(s.queue) : q.id = p.id /\ q.dst = p.dst
AddEntry(s, p) == IF IsQueued(s, p) THEN s ELSE Enqueue(s, p)

\* Dequeue, called until it finds nothing: what it returns and what it leaves.
Waiting(s, d)  == SelectSeq(s.queue, LAMBDA p : p.dst = d)
Dequeued(s, d) == [s EXCEPT !.queue = SelectSeq(@, LAMBDA p : p.dst # d)]

DropPacketWithDst(s, d) ==
  [Dequeued(s, d) EXCEPT !.ended = @ \cup {<<p.id, "refused">> : p \in Range(Waiting(s, d))}]

-----------------------------------------------------------------------------
(* The routing table *)

Path(next, hops, last) == [next |-> next, hops |-> hops, last |-> last]
NewEntry(valid, seq, paths) ==
  [valid |-> valid, seq |-> seq, flag |-> "VALID", paths |-> paths, prec |-> {},
   cnt |-> 0, last |-> Infinity, adv |-> Infinity]

Known(s, d)      == d \in DOMAIN s.pol.rt
ValidRoute(s, d) == Known(s, d) /\ s.pol.rt[d].flag = "VALID"
NextHop(e)       == Head(e.paths).next
HopCounts(e)     == {p.hops : p \in Range(e.paths)}
MinHopCount(e)   == IF e.paths = <<>> THEN Infinity ELSE Least(HopCounts(e))
MaxHopCount(e)   == IF e.paths = <<>> THEN Infinity
                    ELSE CHOOSE h \in HopCounts(e) : \A k \in HopCounts(e) : k <= h
Advertised(e)    == IF e.adv = Infinity THEN MaxHopCount(e) ELSE e.adv

\* AddRoute and Update: a route that is not searched for counts no requests.
AddRoute(rt, d, e)  == With(rt, d, IF e.flag = "IN_SEARCH" THEN e ELSE [e EXCEPT !.cnt = 0])
Update(s, d, e)     == [s EXCEPT !.pol.rt = AddRoute(@, d, e)]
DeleteRoute(s, d)   == [s EXCEPT !.pol.rt = Without(@, d)]

\* InvalidateRoutesWithDst: the paths stay.
Invalidate(e) == IF e.flag = "INVALID" THEN e ELSE [e EXCEPT !.flag = "INVALID", !.cnt = 0]
Invalidated(s, D) ==
  [s EXCEPT !.pol.rt = [d \in DOMAIN @ |-> IF d \in D /\ @[d].flag = "VALID" THEN Invalidate(@[d]) ELSE @[d]]]

\* The first path over next, and the first by way of last, or none: {} or one place in e.paths.
FirstOf(I) == IF I = {} THEN {} ELSE {Least(I)}
PathLookup(e, next)        == FirstOf({i \in DOMAIN e.paths : e.paths[i].next = next})
PathLookupLastHop(e, last) == FirstOf({i \in DOMAIN e.paths : e.paths[i].last = last})

\* Destinations with some path over next, whatever other paths they have.
Through(s, next) == {d \in DOMAIN s.pol.rt : PathLookup(s.pol.rt[d], next) # {}}

\* The nodes that route over this one, told when the route breaks.
InsertPrecursor(e, n) == [e EXCEPT !.prec = @ \cup {n}]
GetPrecursors(s, D)   == UNION {s.pol.rt[d].prec : d \in D}

\* The id cache of requests: a request seen for the first time has not been answered.
SeenId(s, key)   == key \in DOMAIN s.pol.ids
InsertId(s, key) == [s EXCEPT !.pol.ids = With(@, key, FALSE)]

\* The entry e started anew with the number seq and the path p.
Renewed(e, seq, p) ==
  [e EXCEPT !.valid = TRUE, !.seq = seq, !.adv = Infinity, !.paths = <<p>>, !.flag = "VALID",
            !.last = p.hops]
WithPath(e, p) == LET f == [e EXCEPT !.paths = Append(@, p)] IN [f EXCEPT !.last = MaxHopCount(f)]

HasPath(e, p)     == \E q \in Range(e.paths) : q.next = p.next /\ q.last = p.last
\* A plausible bug: last hops are not told apart.
NewDisjointNext(e, p) == \A q \in Range(e.paths) : q.next # p.next
NewDisjoint(e, p) == \A q \in Range(e.paths) : q.next # p.next /\ q.last # p.last
ShortEnough(e, p) == p.hops - MinHopCount(e) <= AltPathDiff

-----------------------------------------------------------------------------
(* Sending.  A message to a neighbour is an IP packet like any other: it takes *)
(* the route to that neighbour, or waits for one.                              *)

AomdvOutput(s, p) ==
  IF ValidRoute(s, p.dst) THEN Transmit(s, NextHop(s.pol.rt[p.dst]), p)
  ELSE Emit(s, [kind |-> "loop", from |-> s.me, to |-> s.me, body |-> p])

Tell(s, to, m) == AomdvOutput(s, [Packet(0, s.me, to, InitialTtl) EXCEPT !.msg = m])
Announce(s, m) == Broadcast([s EXCEPT !.pol.spoke = TRUE], m)

\* SendPacketFromQueue: every packet for d leaves over the first path.
SendPacketFromQueue(s, d) ==
  LET Out(t, p) == IpForward(t, NextHop(s.pol.rt[d]), p)
  IN FoldLeft(Out, Dequeued(s, d), Waiting(s, d))

-----------------------------------------------------------------------------
(* Errors *)

Rerr(dests) == [type |-> "rerr", dests |-> dests]

\* SendRerrMessage, which sends once the caller has made the routes to D invalid:
\* the jitter of the message is longer.
Break(s, D, seqs) ==
  LET prec   == GetPrecursors(s, D)
      routed == {n \in prec : ValidRoute(s, n)}
      t == Invalidated(s, D)
  IN CASE routed = {} \/ s.pol.rerrs = RerrRateLimit -> t
       [] OTHER -> IF Cardinality(prec) = 1
                   THEN Tell([t EXCEPT !.pol.rerrs = @ + 1], CHOOSE n \in prec : TRUE, Rerr(seqs))
                   ELSE Broadcast(t, Rerr(seqs))

\* SendRerrWhenBreaksLinkToNextHop, the link failure callback.
LinkBreaks(s, n) ==
  LET D == Through(s, n) \cup {n}
  IN IF Known(s, n) THEN Break(s, D, [d \in D |-> s.pol.rt[d].seq]) ELSE s

RecvError(s, from, m) ==
  LET D == DOMAIN m.dests \cap Through(s, from)
  IN IF D = {} THEN s ELSE Break(s, D, [d \in D |-> m.dests[d]])

\* SendRerrWhenNoRouteToForward minds the limit and does not count against it.
NoRouteToForward(s, p) ==
  LET seq == IF Known(s, p.dst) /\ s.pol.rt[p.dst].valid THEN s.pol.rt[p.dst].seq ELSE 0
      m == Rerr([d \in {p.dst} |-> seq])
  IN CASE s.pol.rerrs = RerrRateLimit -> s
       [] s.pol.rerrs # RerrRateLimit /\ ValidRoute(s, p.src) -> Tell(s, NextHop(s.pol.rt[p.src]), m)
       [] OTHER -> Broadcast(s, m)

\* Neighbors::Update, and the end of a neighbour.
Watch(s, N) == [s EXCEPT !.pol.nbs = @ \cup N]
NeighborGone(s, n) == LinkBreaks([s EXCEPT !.pol.nbs = @ \ {n}], n)

\* ProcessTxError closes the neighbour if its MAC address had been resolved when it
\* was last heard, which is left open.  The packet is lost.
AomdvTxError(s, f) ==
  LET t == IF f.kind = "data" THEN End(s, f.body, "mac") ELSE s
  IN {t} \cup {NeighborGone(t, n) : n \in {f.to} \cap s.pol.nbs}

-----------------------------------------------------------------------------
(* Requests *)

\* The expanding ring, remembered in LastHopCount.
NextTtl(s, d) ==
  LET wider == s.pol.rt[d].last + TtlIncrement
  IN CASE ~Known(s, d) -> TtlStart
       [] Known(s, d) /\ s.pol.rt[d].flag = "IN_SEARCH" -> IF wider > TtlThreshold THEN NetDiameter ELSE wider
       [] OTHER -> IF wider > NetDiameter THEN NetDiameter ELSE wider

SendRequest(s, d) ==
  LET e   == IF Known(s, d) THEN s.pol.rt[d] ELSE NewEntry(FALSE, 0, <<>>)
      ttl == NextTtl(s, d)
      sought == [e EXCEPT !.flag = "IN_SEARCH", !.last = ttl, !.cnt = IF ttl = NetDiameter THEN @ + 1 ELSE @]
      t == [Update(s, d, sought) EXCEPT
              !.pol.seq = @ + 1, !.pol.id = @ + 1, !.pol.rreqs = @ + 1, !.pol.timers = @ \cup {d}]
  IN IF s.pol.rreqs = RreqRateLimit THEN [s EXCEPT !.pol.delayed = Append(@, d)]
     ELSE Announce(InsertId(t, <<s.me, t.pol.id>>),
                   [type |-> "rreq", origin |-> s.me, seq |-> t.pol.seq, id |-> t.pol.id, target |-> d,
                    known |-> e.valid, tseq |-> e.seq, hops |-> 0, first |-> NoNode])

DeferredRouteOutput(s, p) ==
  LET t == AddEntry(s, [p EXCEPT !.ttl = @ + 1])
  IN IF IsQueued(s, p) \/ (Known(s, p.dst) /\ s.pol.rt[p.dst].flag = "IN_SEARCH") THEN t
     ELSE SendRequest(t, p.dst)

RouteRequestTimerExpire(s, d) ==
  LET t == [s EXCEPT !.pol.timers = @ \ {d}]
  IN CASE ValidRoute(s, d) -> SendPacketFromQueue(t, d)
       [] Known(s, d) /\ s.pol.rt[d].flag = "IN_SEARCH" /\ s.pol.rt[d].cnt # RreqRetries -> SendRequest(t, d)
       [] OTHER -> DropPacketWithDst(DeleteRoute(t, d), d)

\* Both rate limits start a new second; requests put off go out just after.
NewSecond(s) ==
  FoldLeft(SendRequest, [s EXCEPT !.pol.rreqs = 0, !.pol.rerrs = 0, !.pol.delayed = <<>>], s.pol.delayed)

-----------------------------------------------------------------------------
(* RecvRequest *)

UpdateRouteToNeighbor(s, n) ==
  IF Known(s, n) /\ s.pol.rt[n].valid /\ 1 \in HopCounts(s.pol.rt[n]) THEN s
  ELSE Update(s, n, NewEntry(FALSE, 0, <<Path(n, 1, n)>>))

\* The reverse route after the request m came over the path p: the entry, whether
\* p leads to a path of it (reversePath), and whether the request is dropped.  Paths
\* are added to a number already known only while that number is not valid.
Outcome(e, found, drop) == [entry |-> e, found |-> found, drop |-> drop]
ReverseRoute(s, m, p) ==
  LET e == s.pol.rt[m.origin]
      AddPath ==
        CASE HasPath(e, p) -> Outcome(e, TRUE, FALSE)
          [] ~HasPath(e, p) /\ NewDisjoint(e, p) ->
               IF ShortEnough(e, p) /\ Len(e.paths) < MaxPaths THEN Outcome(WithPath(e, p), TRUE, FALSE)
               ELSE Outcome(e, FALSE, ~ShortEnough(e, p))
          [] OTHER -> Outcome(e, FALSE, m.target = s.me /\ \A i \in PathLookupLastHop(e, p.last) : p.hops > e.paths[i].hops)
  IN CASE ~Known(s, m.origin) -> Outcome(NewEntry(TRUE, m.seq, <<p>>), TRUE, FALSE)
       [] Known(s, m.origin) /\ e.valid ->
            IF m.seq > e.seq THEN Outcome(Renewed(e, m.seq, p), TRUE, FALSE) ELSE Outcome(e, FALSE, FALSE)
       [] OTHER ->
            CASE m.seq # e.seq \/ e.adv <= m.hops -> Outcome(e, FALSE, FALSE)
              [] m.seq = e.seq /\ e.adv > m.hops /\ e.flag # "VALID" -> Outcome(e, FALSE, TRUE)
              [] OTHER -> AddPath

\* The sender is one hop away; its entry gets the number of the request's origin.
MeetNeighbor(s, n, seq) ==
  LET e == s.pol.rt[n]
      k == Least(PathLookup(e, n))
  IN Watch(Update(s, n, [e EXCEPT !.valid = FALSE, !.seq = seq, !.flag = "VALID", !.paths[k].hops = 1]), {n})

\* As the destination: a number the request runs ahead of by one is taken over.
SendReply(s, m, from) ==
  LET t == IF m.known /\ m.tseq = s.pol.seq + 1 THEN [s EXCEPT !.pol.seq = @ + 1] ELSE s
      e == s.pol.rt[m.origin]
  IN IF e.paths = <<>> THEN s
     ELSE Tell(t, NextHop(e), [type |-> "rrep", target |-> s.me, seq |-> t.pol.seq, origin |-> m.origin,
                               id |-> m.id, hops |-> 0, first |-> from, ack |-> FALSE])

\* As a node on the way, with the copies toDst and toOrigin of the entries, which are
\* written back.  The gratuitous reply tells the destination of the origin.
SendReplyByIntermediateNode(s, m, toDst, toOrigin) ==
  LET d == InsertPrecursor([toDst EXCEPT !.adv = Advertised(toDst)], NextHop(toOrigin))
      o == InsertPrecursor(toOrigin, NextHop(toDst))
      t == Update(Update(s, m.target, d), m.origin, o)
      first == Head(d.paths).last
      reply == [type |-> "rrep", target |-> m.target, seq |-> d.seq, origin |-> m.origin, id |-> m.id,
                hops |-> Head(d.paths).hops, first |-> first, ack |-> Head(d.paths).hops = 1]
      grat  == [type |-> "rrep", target |-> m.origin, seq |-> o.seq, origin |-> m.target, id |-> m.id,
                hops |-> Head(o.paths).hops, first |-> first, ack |-> FALSE]
  IN Tell(Tell(t, NextHop(o), reply), NextHop(d), grat)

\* The request goes on, unless it was seen before, with what the copy e of the route
\* to its origin says; a number known here replaces an older one.
Propagate(s, m, e, killed) ==
  IF killed \/ e.paths = <<>> THEN s
  ELSE Announce(s, [m EXCEPT !.hops = Advertised(e), !.first = Head(e.paths).last])

\* The request is noted before anything is asked of it, and the node next to its
\* origin is its first hop.
Noted(s, key)    == IF SeenId(s, key) THEN s ELSE InsertId(s, key)
WithFirst(s, m)  == IF m.hops = 0 THEN [m EXCEPT !.first = s.me] ELSE m

RecvRequest(s, from, m0) ==
  LET key == <<m0.origin, m0.id>>
      killed == SeenId(s, key)
      m == WithFirst(s, m0)
      noted == Noted(s, key)
      r == ReverseRoute(noted, m, Path(from, m.hops + 1, m.first))
      met == MeetNeighbor(Update(noted, m.origin, r.entry), from, m.seq)
      toDst == met.pol.rt[m.target]
      fresh == Known(met, m.target) /\ toDst.valid /\ (~m.known \/ toDst.seq >= m.tseq)
      answers == fresh /\ toDst.flag = "VALID" /\ r.found /\ ~met.pol.ids[key]
  IN CASE r.drop -> noted
       [] ~r.drop /\ m.target = s.me -> SendReply(met, m, from)
       [] OTHER ->
            CASE Known(met, m.target) /\ toDst.paths # <<>> /\ NextHop(toDst) = from -> met
              [] ~(Known(met, m.target) /\ toDst.paths # <<>> /\ NextHop(toDst) = from) /\ answers ->
                   SendReplyByIntermediateNode([met EXCEPT !.pol.ids[key] = TRUE], m, toDst, r.entry)
              [] OTHER -> Propagate(met, IF fresh THEN [m EXCEPT !.known = TRUE, !.tseq = toDst.seq] ELSE m,
                                    r.entry, killed)

-----------------------------------------------------------------------------
(* RecvReply *)

\* The entry for the destination of the reply m that came over the path p, or {}.
\* What is known under the same number is added to while the entry is valid only.
ForwardRoute(s, m, p) ==
  LET e == s.pol.rt[m.target] IN
  CASE ~Known(s, m.target) -> {NewEntry(TRUE, m.seq, <<p>>)}
    [] Known(s, m.target) /\ (~e.valid \/ m.seq > e.seq) -> {Renewed(e, m.seq, p)}
    [] OTHER ->
         CASE m.seq # e.seq \/ e.flag # "VALID" \/ e.adv <= m.hops -> {}
           [] m.seq = e.seq /\ e.flag = "VALID" /\ e.adv > m.hops /\ HasPath(e, p) -> {e}
           [] OTHER -> IF NewDisjoint(e, p) /\ Len(e.paths) < MaxPaths /\ ShortEnough(e, p)
                       THEN {WithPath(e, p)} ELSE {}

\* A relay passes one reply to each request on.
Relay(s, m, toDst) ==
  LET key == <<m.origin, m.id>>
  IN IF ~ValidRoute(s, m.origin) \/ ~SeenId(s, key) \/ s.pol.ids[key] THEN s
     ELSE Tell([s EXCEPT !.pol.ids[key] = TRUE], NextHop(s.pol.rt[m.origin]),
               [m EXCEPT !.hops = Advertised(toDst), !.first = Head(toDst.paths).last, !.ack = FALSE])

ProcessHello(s, m) ==
  LET e == s.pol.rt[m.target]
      t == [e EXCEPT !.seq = m.seq, !.valid = TRUE, !.flag = "VALID",
                     !.paths[1].hops = 1, !.paths[1].next = m.target]
  IN Watch(Update(s, m.target, t), {m.target})

RecvReply(s, from, m) ==
  LET found == ForwardRoute(s, m, Path(from, m.hops + 1, m.first))
      toDst == CHOOSE e \in found : TRUE
      t == Update(s, m.target, toDst)
      acked == IF m.ack THEN Tell(t, from, [type |-> "rrep_ack"]) ELSE t
  IN CASE m.target = s.me -> s
       [] m.target # s.me /\ m.target = m.origin -> ProcessHello(s, m)
       [] OTHER ->
            CASE found = {} -> s
              [] found # {} /\ m.origin = s.me -> SendPacketFromQueue(acked, m.target)
              [] OTHER -> Relay(acked, m, toDst)

RecvReplyAck(s, from) == Update(s, from, [s.pol.rt[from] EXCEPT !.flag = "VALID"])

-----------------------------------------------------------------------------
(* The other handlers *)

RecvAomdv(s, from, m) ==
  LET t == UpdateRouteToNeighbor(s, from)
  IN CASE m.type = "rreq"     -> RecvRequest(t, from, m)
       [] m.type = "rrep"     -> RecvReply(t, from, m)
       [] m.type = "rerr"     -> RecvError(t, from, m)
       [] m.type = "rrep_ack" -> RecvReplyAck(t, from)

\* RouteInput of a unicast packet from the radio, with Forwarding.
AomdvInput(s, p) ==
  LET back == {NextHop(s.pol.rt[n]) : n \in {x \in {p.src} : Known(s, x) /\ s.pol.rt[x].paths # <<>>}}
      heard == Watch(s, IF ValidRoute(s, p.src) THEN back ELSE {})
      next == NextHop(s.pol.rt[p.dst])
  IN CASE p.src = s.me -> End(s, p, "own")
       [] p.src # s.me /\ p.dst = s.me ->
            IF p.msg = NoMessage THEN End(heard, p, "delivered") ELSE RecvAomdv(heard, p.src, p.msg)
       [] OTHER -> IF ValidRoute(s, p.dst) THEN IpForward(Watch(s, back \cup {next}), next, p)
                   ELSE End(NoRouteToForward(s, p), p, "refused")

\* HelloTimerExpire: no hello is due after another broadcast.
AomdvHello(s) ==
  IF s.pol.spoke THEN [s EXCEPT !.pol.spoke = FALSE]
  ELSE Broadcast(s, [type |-> "rrep", target |-> s.me, seq |-> s.pol.seq, origin |-> s.me, id |-> 0,
                     hops |-> 1, first |-> NoNode, ack |-> FALSE])

\* A plausible bug: the routes are kept.
DesertedRouted(s, iface) == [s EXCEPT !.iface = iface, !.pol.nbs = {}, !.pol.hellos = FALSE]

\* Without its only interface, or the address of it, a node forgets its routes and its
\* neighbours and stops its hello timer, which only DoInitialize starts.
Deserted(s, iface) == [s EXCEPT !.iface = iface, !.pol.rt = <<>>, !.pol.nbs = {}, !.pol.hellos = FALSE]
AomdvDown(s)           == Deserted(s, "down")
AomdvRemoveAddress(s)  == Deserted(s, "bare")
\* The sockets are opened anew.
AomdvUp(s)         == [s EXCEPT !.iface = "up"]
AomdvAddAddress(s) == [s EXCEPT !.iface = "up"]

\* The lifetime of the route to d ends, as some lookup finds out.
RouteExpires(s, d) ==
  IF s.pol.rt[d].flag = "VALID" THEN Invalidated(s, {d}) ELSE DeleteRoute(s, d)
=============================================================================
