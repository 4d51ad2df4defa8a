------------------------------- MODULE AntRouter -------------------------------
(***************************************************************************)
(* AntRouterLogic (core/src/ant_router_logic.cpp): the handlers of one     *)
(* node, each an operator from the node's state and an input to the set of *)
(* its possible results [st, out] (handlers that draw no random number     *)
(* return the one result).  out is the set of RouteDecisions an adapter    *)
(* acts on; Drop and None decisions make it do nothing and are left out.   *)
(*                                                                         *)
(* A node's state s is the record InitRouter builds.  The code stores the  *)
(* time of an event and compares now - time with an interval; here the     *)
(* state holds the age itself, Never when the map has no entry, and Aging  *)
(* makes a unit of time pass.  An age is forgotten once it has reached the *)
(* only interval it is compared with.                                      *)
(*                                                                         *)
(* Features that are off by default are off here: quiet mode, kinematics,  *)
(* link lifetime, hop-count smoothing, adaptive evaporation and the link-  *)
(* quality metrics.                                                        *)
(***************************************************************************)
EXTENDS Pheromone, AntHistory, Sequences, SequencesExt

CONSTANTS
  EnableMultipath, EnableLinkFail, EnableRepair, EnableReactive,
  EnableEvaporation, EnableDirectedReactive,
  ProactiveMargin,         \* is proactiveVirtualMargin above 0?
  RepairMaxBroadcasts,     \* budget of repair ants and LinkFail notes
  ProactiveMaxBroadcasts,
  MaxPathLength, MaxHelloAdverts, TxFailureThreshold,
  MaxIdle,                 \* helloInterval * allowedHelloLoss
  NotifyInterval,          \* linkfailNotifyInterval
  RetryInterval,           \* reactiveRetryInterval
  RepairWait,              \* repairWaitFactor * the delay of the lost path
  RepairTimeout,           \* the wait when that delay is unknown
  SessionTtl,
  SeqModulus               \* sequence numbers wrap (2^32 in the code)

ASSUME RouterAssumption ==
  /\ {EnableMultipath, EnableLinkFail, EnableRepair, EnableReactive,
      EnableEvaporation, EnableDirectedReactive, ProactiveMargin} \subseteq BOOLEAN
  /\ RepairMaxBroadcasts \in Nat /\ ProactiveMaxBroadcasts \in Nat
  /\ {MaxPathLength, MaxHelloAdverts, TxFailureThreshold, MaxIdle, RetryInterval,
      RepairWait, RepairTimeout, SessionTtl, SeqModulus} \subseteq Nat \ {0}
  /\ NotifyInterval \in Nat
  /\ Invalid = NoNode

Never == -1

\* The loops over a std::map or std::set of node addresses, which holds them in ascending
\* order: Step is applied for every member of S to what the steps before it left.
LastNode == CHOOSE n \in Nodes : \A m \in Nodes : m <= n
ForEach(S, base, Step(_, _)) ==
  LET done[n \in 0 .. LastNode + 1] ==
        IF n = 0 THEN base
        ELSE IF n - 1 \in S THEN Step(done[n - 1], n - 1) ELSE done[n - 1]
  IN done[LastNode + 1]

-----------------------------------------------------------------------------
(* State *)

InitRouter(n, cap) ==
  [self          |-> n,
   cap           |-> cap,                           \* reactiveMaxBroadcasts; negative: none
   table         |-> EmptyTable,                    \* table_
   hist          |-> EmptyHistory,                  \* history_
   gens          |-> EmptyGenerations,              \* genQuality_
   idle          |-> [m \in Nodes |-> Never],       \* lastSeen_
   fails         |-> [m \in Nodes |-> 0],           \* txFailures_
   sinceRepair   |-> [d \in Nodes |-> Never],       \* lastRepair_
   deadline      |-> [d \in Nodes |-> Never],       \* repairDeadline_: time left
   sinceNotify   |-> [d \in Nodes |-> Never],       \* lastLinkfailNotify_
   sinceReactive |-> [d \in Nodes |-> Never],       \* lastReactive_
   session       |-> [d \in Nodes |-> Never],       \* activeSessions_
   seq           |-> SeqModulus - 1]                \* seqNum_ - 1: the last one drawn

Known(s) == {n \in Nodes : s.idle[n] # Never}

\* now - then >= interval, or nothing stored.
Cooled(age, interval) == age = Never \/ age >= interval

\* A unit of time passes.
Aging(s) ==
  LET Grow(ages, bound) ==
        [n \in Nodes |-> IF ages[n] = Never \/ ages[n] + 1 >= bound THEN Never ELSE ages[n] + 1]
  IN [s EXCEPT
        !.idle          = [n \in Nodes |-> IF @[n] \in 0 .. MaxIdle THEN @[n] + 1 ELSE @[n]],
        !.deadline      = [d \in Nodes |-> IF @[d] > 0 THEN @[d] - 1 ELSE @[d]],
        !.sinceRepair   = Grow(@, RetryInterval),
        !.sinceNotify   = Grow(@, NotifyInterval),
        !.sinceReactive = Grow(@, RetryInterval),
        !.session       = Grow(@, SessionTtl + 1)]

-----------------------------------------------------------------------------
(* Ants and decisions *)

NoDests == [d \in {} |-> 0]

NewAnt(s, type, dst, budget) ==
  [type |-> type, dir |-> "up", src |-> s.self, dst |-> dst, seq |-> s.seq,
   budget |-> budget, visited |-> << >>, time |-> 0, history |-> << >>, dests |-> NoDests]

NextSeq(s) == [s EXCEPT !.seq = (@ + 1) % SeqModulus]

Key(ant) == <<ant.src, ant.seq>>

NoAnt == [type |-> "none"]

Send(next, ant)   == [act |-> "unicast", next |-> next, ant |-> ant]
Flood(ant)        == [act |-> "broadcast", next |-> NoNode, ant |-> ant]
SendData(next)    == [act |-> "unicast", next |-> next, ant |-> NoAnt]
Hold(dest)        == [act |-> "queue", next |-> dest, ant |-> NoAnt]
Discard(dest)     == [act |-> "discard", next |-> dest, ant |-> NoAnt]
DeliverTo(dest)   == [act |-> "deliver", next |-> dest, ant |-> NoAnt]

Result(s, out) == [st |-> s, out |-> out]

\* Runs a handler after another: the effects in order, the decisions of both.
Then(r, next) == Result(next.st, r.out \cup next.out)

\* broadcastForward: consumes the ant's budget, drops it when there is none.
BroadcastForward(ant) ==
  IF ant.budget = 0 THEN {}
  ELSE {Flood(IF ant.budget > 0 THEN [ant EXCEPT !.budget = @ - 1] ELSE ant)}

\* Mutant of ForwardAnt: a reactive ant carries a per-path budget.
ForwardAntBudgeted(s, type, dest) ==
  [NewAnt(s, type, dest, RepairMaxBroadcasts) EXCEPT !.visited = <<s.self>>]

\* createForwardAnt: s must be the state after the sequence number is drawn.
ForwardAnt(s, type, dest) ==
  LET budget == CASE type = "repair"   -> RepairMaxBroadcasts
                  [] type = "reactive" -> -1
                  [] OTHER             -> ProactiveMaxBroadcasts
  IN [NewAnt(s, type, dest, budget) EXCEPT !.visited = <<s.self>>]

Stamp(s, ant, dt) ==
  [ant EXCEPT !.visited = Append(@, s.self), !.time = @ + dt]

-----------------------------------------------------------------------------
(* Neighbours and their loss *)

\* Mutant of LearnNeighbor: a reception does not clear the failure streak.
LearnNeighborStreak(s, n) ==
  IF n \in {s.self, NoNode} THEN s
  ELSE [s EXCEPT !.table   = UpdateRegular(AddNeighbor(@, n), n, n, Deposit(1)),
                 !.idle[n] = 0]

\* Mutant of LearnNeighbor: only the first reception starts the liveness clock.
LearnNeighborOnce(s, n) ==
  IF n \in {s.self, NoNode} THEN s
  ELSE [s EXCEPT !.table    = UpdateRegular(AddNeighbor(@, n), n, n, Deposit(1)),
                 !.idle[n]  = Bigger(@, 0),
                 !.fails[n] = 0]

LearnNeighbor(s, n) ==
  IF n \in {s.self, NoNode} THEN s
  ELSE [s EXCEPT !.table    = UpdateRegular(AddNeighbor(@, n), n, n, Deposit(1)),
                 !.idle[n]  = 0,
                 !.fails[n] = 0]

\* Mutant of LoseNeighbor: the liveness entry of the neighbour is kept.
LoseNeighborClock(s, n) == [s EXCEPT !.table = CleanNeighbor(@, n), !.fails[n] = 0]

LoseNeighbor(s, n) ==
  [s EXCEPT !.table = CleanNeighbor(@, n), !.idle[n] = Never, !.fails[n] = 0]

\* Mutant of MayNotify: the cooldown is not consulted.
MayNotifyAlways(s, d) == TRUE

\* The origin cooldown of a LinkFail about d, and its effect on s for the set D.
MayNotify(s, d) == NotifyInterval = 0 \/ Cooled(s.sinceNotify[d], NotifyInterval)
Notified(s, D) ==
  IF NotifyInterval = 0 THEN s
  ELSE [s EXCEPT !.sinceNotify = [d \in Nodes |-> IF d \in D THEN 0 ELSE @[d]]]

\* A LinkFail note with the given adverts: draws a sequence number, spends budget.
Note(s, adverts, budget) ==
  LET t == NextSeq(s)
  IN Result(t, BroadcastForward([NewAnt(t, "linkfail", NoNode, budget) EXCEPT !.dests = adverts]))

\* Mutant of ReportNeighborLoss: the loss of a best path is not told to anyone.
ReportNeighborLossQuietly(s, n) == Result(LoseNeighbor(s, n), {})

\* reportNeighborLoss: prune n, then advertise the destinations left without a
\* usable path that were not advertised lately.
ReportNeighborLoss(s, n) ==
  LET affected == {d \in Nodes : /\ s.table.reg[d][n] > MinPheromone
                                 /\ s.table.reg[d][n] >= BestRegular(s.table, d)}
      lost  == LoseNeighbor(s, n)
      After(d) == BestRegular(lost.table, d)
      advert == {d \in affected :
                   /\ After(d) < BestRegular(s.table, d)
                   /\ ~ (EnableMultipath /\ After(d) > MinPheromone)
                   /\ MayNotify(s, d)}
  IN IF ~ EnableLinkFail \/ advert = {} THEN Result(lost, {})
     ELSE Note(Notified(lost, advert), [d \in advert |-> After(d)], RepairMaxBroadcasts)

-----------------------------------------------------------------------------
(* Local repair *)

StartRepair(s, dest, wait) ==
  LET t == [NextSeq(s) EXCEPT !.sinceRepair[dest] = 0, !.deadline[dest] = wait]
  IN Result(t, BroadcastForward(ForwardAnt(t, "repair", dest)))

\* Mutant of TxFailure: the debounce is off, the first failure breaks the link.
TxFailureEager(s, next, dest) == ReportNeighborLoss(s, next)

\* reportTxFailure: dest is the destination of the lost data packet, or NoNode.
TxFailure(s, next, dest) ==
  IF next = NoNode THEN Result(s, {})
  ELSE IF s.fails[next] + 1 < TxFailureThreshold
  THEN Result([s EXCEPT !.fails[next] = @ + 1], {})
  ELSE LET wait == IF dest # NoNode /\ HasRoute(s.table, dest) THEN RepairWait ELSE RepairTimeout
           r    == ReportNeighborLoss([s EXCEPT !.fails[next] = 0], next)
       IN IF /\ EnableRepair
             /\ dest \notin {NoNode, s.self}
             /\ ~ HasRoute(r.st.table, dest)
             /\ Cooled(r.st.sinceRepair[dest], RetryInterval)
          THEN Then(r, StartRepair(r.st, dest, wait))
          ELSE r

\* Mutant of ResolveRepair: the deadline is not erased.
ResolveRepairAgain(s, d) == Result(s, IF HasRoute(s.table, d) THEN {} ELSE {Discard(d)})

\* The body of onMaintenanceTick's loop over the repairs that are due.
ResolveRepair(s, d) ==
  LET t == [s EXCEPT !.deadline[d] = Never]
  IN IF HasRoute(t.table, d) THEN Result(t, {})
     ELSE IF ~ EnableLinkFail \/ ~ MayNotify(t, d) THEN Result(t, {Discard(d)})
     ELSE Then(Result(t, {Discard(d)}),
               Note(Notified(t, {d}), [x \in {d} |-> 0], RepairMaxBroadcasts))

\* Mutant of MaintenanceTick: expired neighbours stay.
MaintenanceTickRepairs(s) ==
  ForEach({d \in Nodes : s.deadline[d] = 0},
          Result(IF EnableEvaporation THEN [s EXCEPT !.table = EvaporateAll(@)] ELSE s, {}),
          LAMBDA r, d : Then(r, ResolveRepair(r.st, d)))

\* onMaintenanceTick: evaporate, evict the silent neighbours, resolve the repairs.
MaintenanceTick(s) ==
  LET aged    == IF EnableEvaporation THEN [s EXCEPT !.table = EvaporateAll(@)] ELSE s
      evicted == ForEach({n \in Nodes : s.idle[n] > MaxIdle}, Result(aged, {}),
                         LAMBDA r, n : Then(r, ReportNeighborLoss(r.st, n)))
  IN ForEach({d \in Nodes : s.deadline[d] = 0}, evicted,
             LAMBDA r, d : Then(r, ResolveRepair(r.st, d)))

-----------------------------------------------------------------------------
(* Link failure notes *)

\* The entry for d through the reporter after one advert of its note.
ApplyAdvert(s, adverts, reporter, d) ==
  IF adverts[d] <= MinPheromone
  THEN RemoveRegular(s.table, d, reporter)
  ELSE SetRegular(s.table, d, reporter, Discounted(adverts[d]))

\* handleLinkFail: apply every advert, pass on those that cost this node its path.
HandleLinkFail(s, note, reporter) ==
  LET about   == DOMAIN note.dests \ {s.self}
      applied == ForEach(about, s,
                         LAMBDA t, d : [t EXCEPT !.table = ApplyAdvert(t, note.dests, reporter, d)])
      After(d) == BestRegular(applied.table, d)
      passOn  == {d \in about :
                    /\ s.table.reg[d][reporter] > MinPheromone
                    /\ After(d) < BestRegular(s.table, d)
                    /\ ~ (EnableMultipath /\ After(d) > MinPheromone)}
  IN IF passOn = {} \/ ~ EnableLinkFail THEN Result(applied, {})
     ELSE Note(applied, [d \in passOn |-> After(d)], note.budget)

-----------------------------------------------------------------------------
(* Sessions, hellos and proactive ants *)

NoteDataSession(s, dest) ==
  IF dest \in {NoNode, s.self} THEN s ELSE [s EXCEPT !.session[dest] = 0]

ActiveDestinations(s) == {d \in Nodes : s.session[d] # Never}

\* createHelloAnt: the usable destinations, active sessions first, then by
\* pheromone, ties in address order; at most MaxHelloAdverts of them.
HelloAnt(s) ==
  LET t == NextSeq(s)
      best == [d \in Nodes |-> BestRegular(s.table, d)]
      active == ActiveDestinations(s)
      Before(d, e) == \/ d \in active /\ e \notin active
                      \/ /\ d \in active <=> e \in active
                         /\ best[d] > best[e] \/ (best[d] = best[e] /\ d < e)
      usable == {d \in Nodes : HasRoute(s.table, d)}
      chosen == {d \in usable : Cardinality({e \in usable : Before(e, d)}) < MaxHelloAdverts}
  IN [st  |-> t,
      ant |-> [NewAnt(t, "hello", NoNode, -1) EXCEPT
                 !.dests = IF EnableProactive /\ EnableDiffusion
                           THEN [d \in chosen |-> best[d]] ELSE NoDests]]

\* shouldSendProactive: with a margin, v has to beat r on the same link.
ShouldSendProactive(s, d) ==
  \/ ~ ProactiveMargin
  \/ ~ EnableDiffusion
  \/ ~ HasRoute(s.table, d)
  \/ \E n \in s.table.nbrs : /\ s.table.virt[d][n] > MinPheromone
                             /\ \/ s.table.reg[d][n] <= MinPheromone
                                \/ s.table.virt[d][n] > s.table.reg[d][n]

\* createProactiveAnts, and the next hop the adapter's timer draws for each ant.
ProactiveAnts(s) ==
  LET Emit(rs, d) ==
        UNION {LET t == NextSeq(r.st)
                   ant == ForwardAnt(t, "proactive", d)
               IN {Result(t, r.out \cup {IF n = NoNode THEN Flood(ant) ELSE Send(n, ant)}) :
                     n \in NextHopChoices(s.table, d, TRUE, NoNode)} : r \in rs}
  IN ForEach(IF EnableProactive
             THEN {d \in ActiveDestinations(s) : ShouldSendProactive(s, d)} ELSE {},
             {Result(s, {})}, Emit)

-----------------------------------------------------------------------------
(* Reception of an ant *)

\* Which filter decides: the acceptance bands, or strict (src, seq) dedup.
Banded(ant) == EnableMultipath /\ ant.dir = "up" /\ ant.type = "reactive"

FirstHop(s, ant) == IF Len(ant.visited) >= 2 THEN ant.visited[2] ELSE s.self

\* Mutant of Accepts: only strict duplicates are filtered, so no reactive ant.
AcceptsReactive(s, ant) == Banded(ant) \/ ~ Seen(s.hist, Key(ant))

Accepts(s, ant) ==
  IF Banded(ant) THEN Admits(s.gens, Key(ant), Len(ant.visited), ant.time, FirstHop(s, ant))
  ELSE ~ Seen(s.hist, Key(ant))

Noted(s, ant) ==
  IF Banded(ant)
  THEN [s EXCEPT !.gens = Admit(@, Key(ant), Len(ant.visited), ant.time, FirstHop(s, ant))]
  ELSE [s EXCEPT !.hist = Record(@, Key(ant))]

\* advanceBackAnt: this node moves from the path ahead to the path behind.
Advance(ant) ==
  [ant EXCEPT !.visited = Front(@), !.history = Append(@, Last(ant.visited))]

\* Mutant of SendBack: the next hop is read before this node leaves the path.
SendBackEarly(ant) == {Send(Last(ant.visited), Advance(ant))}

\* advanceBackAnt's return value and the decision made of it.
SendBack(ant) ==
  LET b == Advance(ant)
  IN IF b.visited = << >> THEN {} ELSE {Send(Last(b.visited), b)}

\* createBackAnt
BackAnt(s, ant) ==
  [NewAnt(s, ant.type, ant.src, ant.budget) EXCEPT !.dir = "down", !.visited = ant.visited]

\* The next hops a forward ant may be given, {NoNode} when it has to explore.
ForwardChoices(s, ant) ==
  LET sampled == NextHopChoices(s.table, ant.dst, ant.type = "proactive", NoNode)
  IN IF sampled = {NoNode} /\ ant.type = "reactive" /\ EnableDirectedReactive
     THEN NextHopChoices(s.table, ant.dst, TRUE, NoNode) ELSE sampled

\* No pheromone: a reactive ant needs the generation's broadcast allowance.
Explore(s, ant, dt) ==
  IF ant.type # "reactive" THEN Result(s, BroadcastForward(Stamp(s, ant, dt)))
  ELSE Result([s EXCEPT !.gens = ClaimBroadcast(@, Key(ant), s.cap)],
              IF MayBroadcast(s.gens, Key(ant), s.cap)
              THEN BroadcastForward(Stamp(s, ant, dt)) ELSE {})

ReceiveForward(s, ant, dt) ==
  IF Len(ant.visited) >= MaxPathLength THEN {Result(s, {})}
  ELSE IF ant.dst = s.self
  THEN {LET t == NextSeq(s) IN Result(t, SendBack(BackAnt(t, Stamp(s, ant, dt))))}
  ELSE IF ant.src = s.self THEN {Result(s, {})}
  ELSE UNION {IF n = NoNode THEN {Explore(s, ant, dt)}
              ELSE {Result(s, {Send(n, Stamp(s, ant, dt))})} \cup
                   (IF ant.type = "proactive" /\ EnableProactive /\ ant.budget # 0
                    THEN {Result(s, BroadcastForward(Stamp(s, ant, dt)))} ELSE {}) :
                n \in ForwardChoices(s, ant)}

\* Mutant of ReceiveBackward: the route is stored via the origin of the ant.
ReceiveBackwardOrigin(s, ant) ==
  LET t == [s EXCEPT !.table = UpdateRegular(@, ant.src, ant.src, Deposit(Len(ant.history))),
                     !.deadline[ant.src] = Never]
  IN IF ant.dst = s.self THEN Result(t, {DeliverTo(ant.src)})
     ELSE IF ant.src = s.self THEN Result(t, {}) ELSE Result(t, SendBack(ant))

\* computeBackAntState and reinforceFromBackAnt, with a hop count that is not smoothed:
\* the way back so far is worth what its length is, over the last node it retraced.
BackAntPheromone(ant) == Deposit(Len(ant.history))
ReinforceFromBackAnt(s, ant) ==
  [s EXCEPT !.table = UpdateRegular(@, ant.src, Last(ant.history), BackAntPheromone(ant))]

\* A backward ant: reinforce towards its origin, cancel a repair, retrace.
ReceiveBackward(s, ant) ==
  LET t == [ReinforceFromBackAnt(s, ant) EXCEPT !.deadline[ant.src] = Never]
  IN IF ant.dst = s.self THEN Result(t, {DeliverTo(ant.src)})
     ELSE IF ant.src = s.self THEN Result(t, {})
     ELSE Result(t, SendBack(ant))

\* onReceiveAnt: an ant the filter rejects changes nothing.  dt is the travel
\* time this node would stamp on a forward ant.
ReceiveAnt(s, ant, from, dt) ==
  IF ~ Accepts(s, ant) THEN {Result(s, {})}
  ELSE LET t == LearnNeighbor(Noted(s, ant), from)
       IN CASE ant.type = "hello" ->
                 LET u == LearnNeighbor(t, ant.src)
                 IN {Result([u EXCEPT !.table = UpdateVirtual(@, ant.src, ant.dests)], {})}
            [] ant.type = "linkfail" -> {HandleLinkFail(t, ant, from)}
            [] ant.type \notin {"hello", "linkfail"} /\ ant.dir = "up" -> ReceiveForward(t, ant, dt)
            [] OTHER -> {ReceiveBackward(t, ant)}

-----------------------------------------------------------------------------
(* Data *)

\* nextHopForData
DataChoices(s, dest, prev) == NextHopChoices(s.table, dest, FALSE, prev)

\* onDataPacket without a route: hold it, and discover at most once per interval.
HoldData(s, dest) ==
  IF ~ EnableReactive \/ ~ Cooled(s.sinceReactive[dest], RetryInterval)
  THEN {Result(s, {Hold(dest)})}
  ELSE LET t == [NextSeq(s) EXCEPT !.sinceReactive[dest] = 0]
           ant == ForwardAnt(t, "reactive", dest)
       IN {Result(t, {Hold(dest), IF n = NoNode THEN Flood(ant) ELSE Send(n, ant)}) :
             n \in IF EnableDirectedReactive THEN NextHopChoices(s.table, dest, TRUE, NoNode)
                   ELSE {NoNode}}

DataPacket(s, dest, prev) ==
  UNION {IF n = NoNode THEN HoldData(s, dest) ELSE {Result(s, {SendData(n)})} :
           n \in DataChoices(s, dest, prev)}

=============================================================================
