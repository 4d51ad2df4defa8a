------------------------------- MODULE BenchRun -------------------------------
(***************************************************************************)
(* One run of the benchmark harness: data packets of one flow on their way *)
(* through the IP layers, queues and radios of some arm, and the books     *)
(* PacketBooks keeps about them.  A packet exists in copies: a frame whose *)
(* acknowledgement is lost has been received and is sent again by the arms *)
(* that recover what the MAC gives up.  The run can stop in any state, so  *)
(* the report has to be right in every state.  NextRun starts another run  *)
(* of the same process.                                                    *)
(***************************************************************************)
EXTENDS PacketBooks

CONSTANTS
  Source, Sink,   \* of the flow
  Scenarios       \* [arm, links, packets, cap, budget]: links towards the sink, the number of packets,
                  \* MaxReinjectPerPacket (0: no cap), and how often something may go wrong

\* The kinds of arm the hooks tell apart: three of the simulator's own protocols, the program's and
\* those of the adaptive baselines.
Arms == {"olsr", "dsdv", "aodv", "anthocnet", "adaptive"}

ASSUME BenchAssumption ==
  \A sc \in Scenarios : sc.arm \in Arms /\ {sc.packets, sc.cap, sc.budget} \subseteq Nat

VARIABLES
  scenario,
  copies,    \* a bag of [key, at, to, place, got, why, path, spent]
  budget,
  books

vars == <<scenario, copies, budget, books>>

Hops(n)  == {m \in {l[2] : l \in scenario.links} : <<n, m>> \in scenario.links}
Defers   == scenario.arm # "olsr"                   \* holds a packet without a route at its source
Recovers == scenario.arm \in {"anthocnet", "adaptive"}   \* and at any other node
Trouble  == budget > 0 /\ budget' = budget - 1

\* place is "queue", "air" or "gone"; got: the frame has been received; path: the
\* nodes before this one; spent: re-injections of this copy.
Held(k, n)    == [key |-> k, at |-> n, to |-> n, place |-> "queue", got |-> FALSE, why |-> "none",
                  path |-> <<>>, spent |-> 0]
OnAir(c, m)   == [c EXCEPT !.place = "air", !.to = m, !.got = FALSE]
Gone(c, why)  == [c EXCEPT !.place = "gone", !.why = why]
Passed(c)     == [c EXCEPT !.at = c.to, !.path = Append(@, c.at), !.got = FALSE]

Copies == BagToSet(copies)
Becomes(c, new)         == copies' = (copies (-) SetToBag({c})) (+) SetToBag({new})
BecomesAnd(c, old, new) == copies' = ((copies (-) SetToBag({c})) (+) SetToBag({old})) (+) SetToBag({new})
Born(new)               == copies' = copies (+) SetToBag({new})

Start(sc) ==
  /\ scenario' = sc
  /\ copies' = EmptyBag
  /\ budget' = sc.budget

Init ==
  /\ scenario \in Scenarios
  /\ copies = EmptyBag
  /\ budget = scenario.budget
  /\ books = RunOne(NewBooks, scenario.arm)

NextRun == \E sc \in Scenarios : Start(sc) /\ books' = RunOne(books, sc.arm)

-----------------------------------------------------------------------------
(* The source *)

NextKey == <<Source, books.flowMonitor.tx + 1>>
MaySend == books.flowMonitor.tx < scenario.packets

SendAtOnce(m) ==
  /\ MaySend /\ m \in Hops(Source)
  /\ Born(OnAir(Held(NextKey, Source), m))
  /\ books' = CountDataHopTx(CountFateSend(books, NextKey), NextKey, Source)
  /\ UNCHANGED <<scenario, budget>>

\* Without a route the packet goes through loopback into the queue of the protocol.
SendDeferred ==
  /\ MaySend /\ Defers
  /\ Born(Held(NextKey, Source))
  /\ books' = PqTrackTx(CountFateSend(books, NextKey), NextKey, TRUE)
  /\ UNCHANGED <<scenario, budget>>

\* Without a route OLSR refuses the packet, and AdjustCounts offers it afterwards.
Refuse ==
  /\ MaySend /\ ~Defers
  /\ Trouble
  /\ Born(Gone(Held(NextKey, Source), "route"))
  /\ books' = [books EXCEPT !.flowMonitor.tx = @ + 1, !.flowMonitor.route = @ + 1]
  /\ UNCHANGED scenario

-----------------------------------------------------------------------------
(* IP and the queues *)

Sent(b, c) == PqTrackTx(CountDataHopTx(b, c.key, c.at), c.key, FALSE)

Release(c, m) ==
  /\ c.place = "queue" /\ m \in Hops(c.at)
  /\ Becomes(c, OnAir(c, m))
  /\ books' = Sent(books, c)
  /\ UNCHANGED <<scenario, budget>>

\* A queue gives a packet up: DSDV's tells nobody, the others call it a route error.
Shed(c) ==
  /\ c.place = "queue"
  /\ Trouble
  /\ IF scenario.arm = "dsdv"
     THEN Becomes(c, Gone(c, "shed")) /\ UNCHANGED books
     ELSE /\ Becomes(c, Gone(c, "route"))
          /\ books' = L3Drop(books, c.key, "route")
  /\ UNCHANGED scenario

\* A frame arrives, and its packet is delivered, sent on, held or dropped.
Arrives(c) == c.place = "air" /\ ~c.got

Reach(c) ==
  /\ Arrives(c) /\ c.to = Sink
  /\ BecomesAnd(c, [c EXCEPT !.got = TRUE], Gone(Passed(c), "delivered"))
  /\ books' = Deliver(CountDataHopRx(books, c.key), c.key)
  /\ UNCHANGED <<scenario, budget>>

Relay(c) ==
  /\ Arrives(c) /\ c.to # Sink
  /\ LET p  == Passed(c)
         b  == CountDataHopRx(books, c.key)
         On(new) == BecomesAnd(c, [c EXCEPT !.got = TRUE], new)
     IN \/ \E m \in Hops(p.at) : On(OnAir(p, m)) /\ books' = Sent(b, p) /\ UNCHANGED budget
        \/ Recovers /\ On([p EXCEPT !.place = "queue"]) /\ books' = b /\ UNCHANGED budget
        \/ \E reason \in {"route", "ttl"} :
             Trouble /\ On(Gone(p, reason)) /\ books' = L3Drop(b, c.key, reason)
  /\ UNCHANGED scenario

-----------------------------------------------------------------------------
(* MAC and ARP *)

Ack(c) ==
  /\ c.place = "air" /\ c.got
  /\ copies' = copies (-) SetToBag({c})
  /\ books' = CountAckedDataHop(books, c.key)
  /\ UNCHANGED <<scenario, budget>>

\* The packet of a frame goes back into the queue of its sender.
Requeue(c) ==
  LET new == [Held(c.key, c.at) EXCEPT !.path = c.path, !.spent = c.spent + 1]
  IN IF c.got THEN BecomesAnd(c, Gone(c, "recovered"), new) ELSE Becomes(c, new)

\* The MAC gives up.  The harness hears of it first, then the adapter.
RetryLimit(c) ==
  LET b == CountMacDataDrop(books, c.key)
      Capped == scenario.cap # 0 /\ c.spent >= scenario.cap
  IN /\ c.place = "air"
     /\ Trouble
     /\ CASE ~Recovers -> Becomes(c, Gone(c, "mac")) /\ books' = b
          [] scenario.arm = "anthocnet" /\ Capped ->
               Becomes(c, Gone(c, "skipped")) /\ books' = CountMacReinjectSkip(b, c.key)
          [] scenario.arm = "anthocnet" /\ ~Capped ->
               Requeue(c) /\ books' = CountMacReinject(b, c.key)
          [] scenario.arm = "adaptive" ->
               Requeue(c) /\ books' = CountAdaptiveReinject(b, c.key)
     /\ UNCHANGED scenario

\* A device queue or queue disc refuses the frame.
QueueDrop(c) ==
  /\ Arrives(c)
  /\ Trouble
  /\ Becomes(c, Gone(c, "queue"))
  /\ books' = [books EXCEPT !.flowMonitor.queue = @ + 1]
  /\ UNCHANGED scenario

\* ARP gets no answer, so the frame never leaves.
ArpDrop(c) ==
  /\ Arrives(c)
  /\ Trouble
  /\ IF scenario.arm = "adaptive"
     THEN Requeue(c) /\ books' = CountAdaptiveArpReinject(books, c.key)
     ELSE Becomes(c, Gone(c, "arp")) /\ UNCHANGED books
  /\ UNCHANGED scenario

Next ==
  \/ \E m \in Hops(Source) : SendAtOnce(m)
  \/ SendDeferred \/ Refuse \/ NextRun
  \/ \E c \in Copies :
       \/ Shed(c) \/ Reach(c) \/ Relay(c) \/ Ack(c) \/ RetryLimit(c) \/ QueueDrop(c) \/ ArpDrop(c)
       \/ \E m \in Hops(c.at) : Release(c, m)

Spec == Init /\ [][Next]_vars

-----------------------------------------------------------------------------
(* Properties *)

OnTheAir      == {c \in Copies : c.place = "air"}
CountOf(S)    == Cardinality(UNION {{c} \X (1 .. copies[c]) : c \in S})
Duplicates == Recovers   \* the arms in which a packet can be in two places

\* What is offered to an arm that recovers nothing is delivered or in exactly one
\* column of drop causes: a queue that sheds in silence, drops with an error
\* callback and frames still on the air included.
BooksClose ==
  ~Duplicates =>
    LET r == Columns(books)
    IN books.flowMonitor.tx = Len(books.rxSeq) + r.route + r.ttl + r.queue + r.mac + r.chan

\* The channel column is what is left of the hops that were lost, so nothing may be
\* carved out of them that was not lost on a hop; and once the air is quiet the MAC
\* column counts the frames the MAC lost for good.  Of a packet that was delivered by
\* another copy it counts none that the cap on re-injections refused.
MacColumnIsTerminal ==
  scenario.arm # "adaptive" =>
    /\ Columns(books).chan >= 0
    /\ OnTheAir = {} =>
         Columns(books).mac =
           IF Reinjected(books) = 0 THEN CountOf({c \in Copies : c.why = "mac" /\ ~c.got})
           ELSE CountOf({c \in Copies : c.why = "skipped" /\ c.key \notin Delivered(books)})

\* The books follow the copies: the path booked for a packet that was never recovered
\* is the one its copy took; the fate of an undelivered packet that was never in two
\* places tells where it is, and every packet offered is either delivered or has a fate.
Whereabouts(c) ==
  CASE c.place = "queue" -> "AtNode"
    [] c.place = "air" \/ c.why \in {"queue", "arp"} -> "Tx"
    [] c.why = "route" -> "Route"
    [] c.why = "ttl"   -> "Ttl"
BooksFollowCopies ==
  /\ \A c \in Copies :
       c.why = "delivered" /\ (\A d \in Copies : d.key = c.key => d.why # "recovered" /\ d.spent = 0)
         => books.routeRx[c.key] = c.path
  /\ scenario.arm = "adaptive" =>
       /\ Unseen(books) = 0
       /\ \A c \in Copies :
            /\ ~c.got /\ c.key \notin Delivered(books)
            /\ \A d \in Copies : d.key = c.key => d.why # "recovered"
            => books.fate[c.key].last = Whereabouts(c)

\* Reordering is measured as RFC 4737 defines it: a packet is reordered when it
\* arrives under the next number expected, by as many places as lie between it and
\* the first packet with a larger number; and by 0 where there is none, which only a
\* second copy of the largest number so far meets.  The buffer holds what a receiver
\* holds that hands up what is delivered in sequence order; but a second copy never
\* leaves it, nor does anything above that.
Arrivals == [i \in DOMAIN books.rxSeq |-> books.rxSeq[i][2]]
Repeats(arr, i) == \E j \in 1 .. i - 1 : arr[j] = arr[i]
HeldBack(arr, i) ==
  {j \in 1 .. i : \/ Repeats(arr, j)
                  \/ \E k \in DOMAIN arr : arr[k] < arr[j] /\ (k > i \/ Repeats(arr, k))}
NextExp(arr, i) ==
  LET next[j \in 0 .. Len(arr)] ==
        IF j = 0 THEN 0 ELSE IF arr[j] >= next[j - 1] THEN arr[j] + 1 ELSE next[j - 1]
  IN next[i - 1]
ReorderingAsDefined ==
  /\ IsReordered(Arrivals) = {i \in DOMAIN Arrivals : Arrivals[i] < NextExp(Arrivals, i)}
  /\ \A i \in IsReordered(Arrivals) :
       LET later == {j \in 1 .. i - 1 : Arrivals[j] > Arrivals[i]}
       IN IF later # {} THEN Extent(Arrivals, i) = i - Min(later)
          ELSE Extent(Arrivals, i) = 0 /\ Repeats(Arrivals, i)
  /\ BufMax(Arrivals) = Max({0} \cup {Cardinality(HeldBack(Arrivals, i)) : i \in DOMAIN Arrivals})

=============================================================================
