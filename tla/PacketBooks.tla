------------------------------ MODULE PacketBooks ------------------------------
(***************************************************************************)
(* The books of one benchmark run (routing-bench-run.cc): what the trace   *)
(* hooks write down about data packets, and the report computed from them. *)
(* A packet is known by its key <<flow, seq>>.  Every hook is an operator  *)
(* from the books b to the books after it.  FlowMonitor's counts, which    *)
(* the report reads too, are kept with them in the fields of flowMonitor.  *)
(* UDP arms only.  Path diversity, energy and control traffic are left     *)
(* out.                                                                    *)
(***************************************************************************)
EXTENDS Integers, Sequences, SequencesExt, Bags

Lookup(f, k, none) == IF k \in DOMAIN f THEN f[k] ELSE none
Set(f, k, v)       == [x \in DOMAIN f \cup {k} |-> IF x = k THEN v ELSE f[x]]
Without(f, k)      == [x \in DOMAIN f \ {k} |-> f[x]]

\* The statics at the start of the process.
NewBooks ==
  [on |-> {},                                                    \* books the arm asked for
   hopTx |-> 0, hopRx |-> 0, acked |-> 0, macDrops |-> 0,
   rxSeq |-> <<>>,                                               \* keys at the sinks, in order of arrival
   routePending |-> <<>>, routeRx |-> <<>>,                      \* key -> nodes
   reinj |-> <<>>, reinjOfDelivered |-> 0, reinjSkip |-> <<>>,
   fate |-> <<>>, recovered |-> 0,
   adaptiveReinj |-> 0, adaptiveArpReinj |-> 0,
   pqPending |-> {}, pqEcb |-> 0,
   flowMonitor |-> [tx |-> 0, route |-> 0, ttl |-> 0, queue |-> 0]]

\* What RunOne puts back before a run, and the books an arm asks for.
AskedBy(arm) ==
  CASE arm \in {"dsdv", "aodv"} -> {"pendingQueue"}
    [] arm = "anthocnet"        -> {"reinjection"}
    [] arm = "adaptive"         -> {"fate"}
    [] OTHER                    -> {}
RunOneKeepingPaths(b, arm) ==
  [b EXCEPT !.on = AskedBy(arm), !.rxSeq = <<>>, !.routeRx = <<>>,
            !.reinj = <<>>, !.reinjOfDelivered = 0, !.reinjSkip = <<>>,
            !.pqPending = {}, !.pqEcb = 0, !.hopTx = 0, !.hopRx = 0, !.macDrops = 0,
            !.adaptiveReinj = 0, !.adaptiveArpReinj = 0, !.fate = <<>>, !.recovered = 0,
            !.acked = 0, !.flowMonitor = NewBooks.flowMonitor]
RunOne(b, arm) ==
  [b EXCEPT !.on = AskedBy(arm), !.rxSeq = <<>>, !.routePending = <<>>, !.routeRx = <<>>,
            !.reinj = <<>>, !.reinjOfDelivered = 0, !.reinjSkip = <<>>,
            !.pqPending = {}, !.pqEcb = 0, !.hopTx = 0, !.hopRx = 0, !.macDrops = 0,
            !.adaptiveReinj = 0, !.adaptiveArpReinj = 0, !.fate = <<>>, !.recovered = 0,
            !.acked = 0, !.flowMonitor = NewBooks.flowMonitor]

\* How often the sinks have seen a packet.
RxCount(b, k) == Cardinality({i \in DOMAIN b.rxSeq : b.rxSeq[i] = k})
Delivered(b)  == ToSet(b.rxSeq)

-----------------------------------------------------------------------------
(* Hooks *)

FateMark(b, k, f) ==
  IF "fate" \in b.on
  THEN [b EXCEPT !.fate = Set(@, k, [last |-> f, recovered |-> Lookup(@, k, [recovered |-> 0]).recovered])]
  ELSE b
FateRecovered(b, k) ==
  IF "fate" \in b.on
  THEN [b EXCEPT !.fate = Set(@, k, [last |-> "AtNode", recovered |-> Lookup(@, k, [recovered |-> 0]).recovered + 1]),
                 !.recovered = @ + 1]
  ELSE b

\* IP takes a packet from its application.
CountFateSend(b, k) == FateMark([b EXCEPT !.flowMonitor.tx = @ + 1], k, "AtNode")

PqTrackTxKept(b, k, loopback) ==
  IF "pendingQueue" \in b.on /\ loopback THEN [b EXCEPT !.pqPending = @ \cup {k}] ELSE b
PqTrackTx(b, k, loopback) ==
  IF "pendingQueue" \in b.on
  THEN [b EXCEPT !.pqPending = IF loopback THEN @ \cup {k} ELSE @ \ {k}] ELSE b
PqTrackDrop(b, k) ==
  IF "pendingQueue" \in b.on /\ k \in b.pqPending
  THEN [b EXCEPT !.pqPending = @ \ {k}, !.pqEcb = @ + 1] ELSE b

PostHop(reinj, k, field) == IF k \in DOMAIN reinj THEN [reinj EXCEPT ![k][field] = @ + 1] ELSE reinj

\* Node n hands the packet to a real interface.
CountDataHopTx(b, k, n) ==
  FateMark([b EXCEPT !.hopTx = @ + 1, !.routePending = Set(@, k, Append(Lookup(@, k, <<>>), n)),
                     !.reinj = PostHop(@, k, "postTx")], k, "Tx")
CountDataHopRx(b, k) ==
  FateMark([b EXCEPT !.hopRx = @ + 1, !.reinj = PostHop(@, k, "postRx")], k, "AtNode")

CountReinjL3Drop(b, k, reason) ==
  [b EXCEPT !.reinj = PostHop(@, k, IF reason = "route" THEN "l3DropRoute" ELSE "l3DropTtl")]
CountFateL3Drop(b, k, reason) == FateMark(b, k, IF reason = "route" THEN "Route" ELSE "Ttl")
L3Drop(b, k, reason) ==
  LET counted == [b EXCEPT !.flowMonitor[reason] = @ + 1]
  IN PqTrackDrop(CountFateL3Drop(CountReinjL3Drop(counted, k, reason), k, reason), k)

CountMacDataDrop(b, k)  == FateMark([b EXCEPT !.macDrops = @ + 1], k, "Mac")
CountAckedDataHop(b, k) == [b EXCEPT !.acked = @ + 1]

NewReinj(n) == [events |-> 0, rxAtFirstReinj |-> n, postTx |-> 0, postRx |-> 0,
                l3DropRoute |-> 0, l3DropTtl |-> 0]
CountMacReinject(b, k) ==
  LET rxNow == RxCount(b, k)
      entry == Lookup(b.reinj, k, NewReinj(rxNow))
  IN [b EXCEPT !.reinj = Set(@, k, [entry EXCEPT !.events = @ + 1]),
               !.reinjOfDelivered = @ + (IF rxNow > 0 THEN 1 ELSE 0)]
CountMacReinjectSkip(b, k) ==
  LET entry == Lookup(b.reinjSkip, k, [events |-> 0, rxAtFirstSkip |-> RxCount(b, k)])
  IN [b EXCEPT !.reinjSkip = Set(@, k, [entry EXCEPT !.events = @ + 1])]

CountAdaptiveReinjectUnmarked(b, k) == [b EXCEPT !.adaptiveReinj = @ + 1]
CountAdaptiveReinject(b, k)    == FateRecovered([b EXCEPT !.adaptiveReinj = @ + 1], k)
CountAdaptiveArpReinject(b, k) == FateRecovered([b EXCEPT !.adaptiveArpReinj = @ + 1], k)

\* The destination hands the packet to its sink: the path is closed at the first delivery.
CountDeliveredHops(b, k) ==
  [b EXCEPT !.routeRx = IF k \in DOMAIN b.routePending /\ k \notin DOMAIN @
                        THEN Set(@, k, b.routePending[k]) ELSE @,
            !.routePending = Without(@, k)]
RecordRxSeq(b, k) == [b EXCEPT !.rxSeq = Append(@, k)]
Deliver(b, k)     == RecordRxSeq(CountDeliveredHops(b, k), k)

-----------------------------------------------------------------------------
(* The report *)

Minus(x, y) == IF x > y THEN x - y ELSE 0

HopLoss(b)    == b.hopTx - b.hopRx
UnackedRx(b)  == Minus(b.hopRx, b.acked)
MacLostRaw(b) == b.macDrops
MacLost(b)    == Minus(b.macDrops, UnackedRx(b))

\* The events booked for the keys in S.
EventsOf(S, book) == Cardinality(UNION {{k} \X (1 .. book[k].events) : k \in S})
Reinjected(b) ==
  IF "reinjection" \in b.on THEN EventsOf(DOMAIN b.reinj, b.reinj) ELSE b.adaptiveReinj
SkipsDelivEventsBefore(b) ==
  EventsOf({k \in DOMAIN b.reinjSkip : b.reinjSkip[k].rxAtFirstSkip >= 1}, b.reinjSkip)
SkipsDelivEvents(b) ==
  EventsOf({k \in DOMAIN b.reinjSkip : b.reinjSkip[k].rxAtFirstSkip >= 1 \/ RxCount(b, k) >= 1},
           b.reinjSkip)
MacTerminalCapAware(b) == Minus(Minus(b.macDrops, Reinjected(b)), SkipsDelivEvents(b))

\* Undelivered packets by terminal fate.
FateCount(b, f) == Cardinality({k \in DOMAIN b.fate \ Delivered(b) : b.fate[k].last = f})
Unseen(b) ==
  b.flowMonitor.tx - Cardinality(Delivered(b)) - Cardinality(DOMAIN b.fate \ Delivered(b))

\* The columns of drop causes, in packets.
EventColumns(b) ==
  LET fm == b.flowMonitor
  IN [route |-> Minus(fm.route, b.pqEcb),
      ttl   |-> fm.ttl,
      queue |-> fm.queue + Cardinality(b.pqPending) + b.pqEcb,
      mac   |-> IF Reinjected(b) > 0 THEN MacTerminalCapAware(b) ELSE MacLost(b),
      chan  |-> HopLoss(b) - MacLost(b) - fm.queue - b.adaptiveArpReinj]
Columns(b) ==
  IF "fate" \in b.on
  THEN [EventColumns(b) EXCEPT !.mac = FateCount(b, "Mac"), !.route = FateCount(b, "Route"),
                               !.ttl = FateCount(b, "Ttl"),
                               !.chan = FateCount(b, "Tx") - b.flowMonitor.queue]
  ELSE EventColumns(b)

-----------------------------------------------------------------------------
(* Reordering: over the sequence numbers of one flow in order of arrival *)

PrefixMax(arr)   == [i \in DOMAIN arr |-> Max({arr[j] : j \in 1 .. i})]
IsReordered(arr) == {i \in 2 .. Len(arr) : arr[i] <= PrefixMax(arr)[i - 1]}

ExtentLower(arr, i) ==
  LET passed == {j \in 1 .. i - 1 : PrefixMax(arr)[j] >= arr[i]}
  IN i - (IF passed = {} THEN i ELSE Min(passed))
\* How far back the running maximum first passed what arrives at i.
Extent(arr, i) ==
  LET passed == {j \in 1 .. i - 1 : PrefixMax(arr)[j] > arr[i]}
  IN i - (IF passed = {} THEN i ELSE Min(passed))

\* The place of s among what is delivered, in sequence order.
Slot(arr, s) == Cardinality({j \in DOMAIN arr : arr[j] < s}) + 1

\* How many packets the buffer holds after the i-th arrival: it releases the
\* slots filled without a gap.
Occupancy(arr, i) ==
  LET filled == {Slot(arr, arr[j]) : j \in 1 .. i}
  IN i - Max({k \in 0 .. Len(arr) : 1 .. k \subseteq filled})
BufMax(arr) == Max({0} \cup {Occupancy(arr, i) : i \in DOMAIN arr})
=============================================================================
