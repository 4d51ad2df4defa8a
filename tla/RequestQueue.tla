----------------------------- MODULE RequestQueue -----------------------------
(***************************************************************************)
(* The pending queue of the ns-3 adapter (anthocnet-rqueue.cc) and the     *)
(* steps of RoutingProtocol that put packets in and take them out.         *)
(*                                                                         *)
(* An entry is [pkt, first, expire, reason]; the header's destination is   *)
(* Dest[pkt].  first = 0 is Time(), the value IsZero() takes for "not set  *)
(* yet".  Whether the router has a next hop for a destination is decided   *)
(* elsewhere and changes under the queue's feet: routed.                   *)
(***************************************************************************)
EXTENDS Integers, Sequences, SequencesExt

CONSTANTS
  Packets,
  Dest,          \* the destination of every packet
  MaxLen,        \* m_maxLen
  Timeout,       \* m_timeout
  Cap,           \* m_holdCap: reason -> longest hold, 0 for none
  Ttl,           \* how often a packet may be injected again
  Start, Stop    \* bounds: the times the clock starts and stops at

Reasons == {"setup", "reconv", "repair"}

ASSUME QueueAssumption ==
  /\ MaxLen \in Nat \ {0} /\ Timeout \in Nat \ {0} /\ Ttl \in Nat
  /\ Start \in Nat /\ Stop \in Nat
  /\ DOMAIN Dest = Packets /\ DOMAIN Cap = Reasons /\ \A r \in Reasons : Cap[r] \in Nat

VARIABLES
  queue,     \* m_queue
  now,       \* Simulator::Now()
  routed,    \* destinations nextHopForData resolves
  ever,      \* m_everRouted
  fate,      \* what became of every packet
  ttl,       \* injections every packet has left
  since      \* history variable: when every packet last came into the queue

vars == <<queue, now, routed, ever, fate, ttl, since>>

Dests == {Dest[p] : p \in Packets}
PacketsIn(q) == {q[i].pkt : i \in DOMAIN q}

-----------------------------------------------------------------------------
(* RequestQueue *)

\* The loops over m_queue that push what stays onto `kept': the entries of q at
\* the positions in I, in their order.
KeepAt(q, I) ==
  LET kept[n \in 0 .. Len(q)] ==
        IF n = 0 THEN << >>
        ELSE IF n \in I THEN Append(kept[n - 1], q[n]) ELSE kept[n - 1]
  IN kept[Len(q)]

Purge(q, t) == KeepAt(q, {i \in DOMAIN q : q[i].expire > t})

\* Mutant of FirstEntered: every enqueue counts as the first.
FirstEnteredNow(e, t) == t

\* Preserved across re-queues, unless it looks unset.
FirstEntered(e, t) == IF e.first = 0 THEN t ELSE e.first

\* The timeout from this enqueue, or the reason's cap from the first if sooner.
Expiry(first, reason, t) ==
  IF Cap[reason] # 0 /\ first + Cap[reason] < t + Timeout
  THEN first + Cap[reason] ELSE t + Timeout

Full(q, t) == Len(Purge(q, t)) >= MaxLen

\* The entry as it goes into the queue.
Stamped(e, t) ==
  LET f == FirstEntered(e, t) IN [e EXCEPT !.first = f, !.expire = Expiry(f, e.reason, t)]

\* What an insertion finds: a full queue loses its front entry.
Room(q, t) == IF Full(q, t) THEN Tail(Purge(q, t)) ELSE Purge(q, t)

Enqueue(q, e, t) == Append(Room(q, t), Stamped(e, t))

\* DequeueAll: what is taken out, and what stays.
AtFor(q, d)     == {i \in DOMAIN q : Dest[q[i].pkt] = d}
Taken(q, d, t)  == LET p == Purge(q, t) IN KeepAt(p, AtFor(p, d))
Others(q, d, t) == LET p == Purge(q, t) IN KeepAt(p, DOMAIN p \ AtFor(p, d))

\* The entries of s go back into q, first to last.
Requeue(q, s, t) ==
  LET done[n \in 0 .. Len(s)] == IF n = 0 THEN q ELSE Enqueue(done[n - 1], s[n], t)
  IN done[Len(s)]

\* Mutant of FlushQueue: only the first packet is put back, the rest forgotten.
FlushQueueFirst(q, d, R, t) ==
  IF d \in R \/ Taken(q, d, t) = << >> THEN Others(q, d, t)
  ELSE Enqueue(Others(q, d, t), Head(Taken(q, d, t)), t)

\* Mutant of FlushQueue: the packets are put back last to first.
FlushQueueReversed(q, d, R, t) ==
  IF d \in R THEN Others(q, d, t)
  ELSE Requeue(Others(q, d, t), Reverse(Taken(q, d, t)), t)

\* FlushQueue: the packets for d leave if it has a route, else they queue again.
FlushQueue(q, d, R, t) ==
  IF d \in R THEN Others(q, d, t)
  ELSE Requeue(Others(q, d, t), Taken(q, d, t), t)

-----------------------------------------------------------------------------
(* What becomes of the packets *)

\* Those taken out of q to be forwarded, and those that timed out of it.
Forwarded(q, d, R, t) == IF d \in R THEN PacketsIn(Taken(q, d, t)) ELSE {}
Expired(q, t) == PacketsIn(q) \ PacketsIn(Purge(q, t))

\* The packet a full queue gives up for a new entry.
Evicted(q, t) == IF Full(q, t) THEN {Head(Purge(q, t)).pkt} ELSE {}

\* The queue goes from q to q2; the packets in each set meet the fate it is given.
Becomes(held, sent, expired, evicted) ==
  /\ fate' = [p \in Packets |-> IF p \in sent THEN "sent"
                                ELSE IF p \in evicted THEN "evicted"
                                ELSE IF p \in held THEN "held"
                                ELSE IF p \in expired THEN "expired" ELSE fate[p]]
  /\ since' = [p \in Packets |-> IF p \in held THEN now ELSE since[p]]

NewEntry(p, reason) == [pkt |-> p, first |-> 0, expire |-> 0, reason |-> reason]

-----------------------------------------------------------------------------
(* Steps *)

Init ==
  /\ queue = << >> /\ now = Start
  /\ routed = {} /\ ever = {}
  /\ fate = [p \in Packets |-> "new"]
  /\ ttl = [p \in Packets |-> Ttl]
  /\ since = [p \in Packets |-> Start]

\* RouteOutput or RouteInput with a route: the packet goes straight through.
Forward(p) ==
  /\ fate[p] = "new" /\ Dest[p] \in routed
  /\ ever' = ever \cup {Dest[p]}
  /\ Becomes({}, {p}, {}, {})
  /\ UNCHANGED <<queue, now, routed, ttl>>

\* DeferredRouteOutput: no route, the packet is queued for setup or reconvergence.
DeferredRouteOutput(p) ==
  /\ fate[p] = "new" /\ Dest[p] \notin routed
  /\ queue' = Enqueue(queue, NewEntry(p, IF Dest[p] \in ever THEN "reconv" ELSE "setup"), now)
  /\ Becomes({p}, {}, Expired(queue, now), Evicted(queue, now))
  /\ UNCHANGED <<now, routed, ever, ttl>>

\* NotifyTxError: a forwarded packet comes back; the failure may have cost the
\* route.  It is queued for repair, and the queue flushed for its destination.
NotifyTxError(p) ==
  /\ fate[p] = "sent" /\ ttl[p] > 0
  /\ ttl' = [ttl EXCEPT ![p] = @ - 1]
  /\ routed' \in {routed, routed \ {Dest[p]}}
  /\ LET q == Enqueue(queue, NewEntry(p, "repair"), now)
         out == Forwarded(q, Dest[p], routed', now)
     IN /\ queue' = FlushQueue(q, Dest[p], routed', now)
        /\ ever' = IF out # {} THEN ever \cup {Dest[p]} ELSE ever
        /\ Becomes({p}, out, Expired(queue, now), Evicted(queue, now))
  /\ UNCHANGED now

\* RecvAnt with a backward ant from d.  One the router rejects as a duplicate
\* restores no route, and the queue is flushed all the same.
BackwardAnt(d) ==
  /\ routed' \in {routed, routed \cup {d}}
  /\ queue' = FlushQueue(queue, d, routed', now)
  /\ LET out == Forwarded(queue, d, routed', now)
     IN /\ ever' = IF out # {} THEN ever \cup {d} ELSE ever
        /\ Becomes({}, out, Expired(queue, now), {})
  /\ UNCHANGED <<now, ttl>>

\* ReactiveRetryTimerExpire: flush the pending destinations that have a route.
ReactiveRetryTimerExpire ==
  LET q == Purge(queue, now)
      out == {p \in PacketsIn(q) : Dest[p] \in routed}
  IN /\ queue' = KeepAt(q, {i \in DOMAIN q : q[i].pkt \notin out})
     /\ ever' = ever \cup {Dest[p] : p \in out}
     /\ Becomes({}, out, Expired(queue, now), {})
     /\ UNCHANGED <<now, routed, ttl>>

\* DiscardQueue: a local repair of the path to d has failed.
DiscardQueue(d) ==
  /\ d \notin routed
  /\ queue' = Others(queue, d, now)
  /\ fate' = [p \in Packets |->
       IF p \in PacketsIn(Taken(queue, d, now)) THEN "discarded"
       ELSE IF p \in Expired(queue, now) THEN "expired" ELSE fate[p]]
  /\ UNCHANGED <<now, routed, ever, ttl, since>>

\* The router learns or loses a route by other means: a hello, a LinkFail.
RouteChange(d) ==
  /\ routed' = IF d \in routed THEN routed \ {d} ELSE routed \cup {d}
  /\ UNCHANGED <<queue, now, ever, fate, ttl, since>>

Tick ==
  /\ now < Stop /\ now' = now + 1
  /\ UNCHANGED <<queue, routed, ever, fate, ttl, since>>

Next ==
  \/ \E p \in Packets : Forward(p) \/ DeferredRouteOutput(p) \/ NotifyTxError(p)
  \/ \E d \in Dests : BackwardAnt(d) \/ DiscardQueue(d) \/ RouteChange(d)
  \/ ReactiveRetryTimerExpire
  \/ Tick

Spec == Init /\ [][Next]_vars /\ WF_vars(Tick)

-----------------------------------------------------------------------------
(* Properties *)

\* No packet is lost without a trace or queued twice: one is in the queue exactly
\* while it is held, through every flush, re-queue, eviction and re-injection, and
\* the queue never grows beyond its limit.
Conserved ==
  /\ Len(queue) <= MaxLen
  /\ \A i, j \in DOMAIN queue : queue[i].pkt = queue[j].pkt => i = j
  /\ PacketsIn(queue) = {p \in Packets : fate[p] = "held"}

\* Packets of one destination leave in the order they came: rotating them to the
\* back of the queue on every flush does not make one overtake another.
NoOvertaking ==
  \A i, j \in DOMAIN queue :
    i < j /\ Dest[queue[i].pkt] = Dest[queue[j].pkt] => since[queue[i].pkt] <= since[queue[j].pkt]

\* SetHoldCap: a packet held for a capped reason is never forwarded later than the
\* cap after it came into the queue, however often it was queued again.
CapRespected ==
  [][\A i \in DOMAIN queue :
       LET e == queue[i] IN
       Cap[e.reason] # 0 /\ fate'[e.pkt] = "sent" => now < since[e.pkt] + Cap[e.reason]]_vars

=============================================================================
