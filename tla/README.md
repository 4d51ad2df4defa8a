# AntHocNet in TLA+

A specification of this repository's programs: the AntHocNet routing core
(`src/core`) with the ns-3 adapter that runs it (`src/ns3/anthocnet`), the
protocols it is compared with (`src/ns3/baselines`), the books the benchmark keeps
(`src/ns3/routing-bench`), the satellite scenarios (`src/ns3/anthocnet/examples`)
and the browser demo (`src/web`). TLC checks it on small instances; TLAPS proves
the results about the duplicate filters, the pending queue, the upkeep of neighbours
and routes, the benchmark's books and the satellites that serve the ground, for every
value of their constants.

Contents: [the system](#1-the-system) · [how it was planned](#2-plan) ·
[modules](#3-modules-and-the-code) · [runs](#4-runs) · [bounds](#5-bounds) ·
[fairness](#6-fairness) · [proofs](#7-proofs) ·
[disagreements](#8-where-the-code-and-what-is-said-of-it-disagree) ·
[what is left out](#9-what-is-not-modelled-and-why)

Paths below are relative to `src/`.

## 1. The system

AntHocNet routes data in an ad hoc network with "ants". A node that has data for
an unknown destination floods a *reactive forward ant*; each node appends itself
to the ant's path, and the destination sends a *backward ant* that retraces the
path and lays down *regular pheromone* at every hop. *Hello ants* tell
neighbours apart from silence and diffuse *virtual pheromone*; *proactive ants*
sample paths of running sessions; a lost next hop is announced with a *LinkFail*
note and may be bridged by a *repair ant*.

| component | state | operations | what makes it correct |
|---|---|---|---|
| `AntHistoryTracker` (`core/src/ant_history.cpp`) | set of (src, seq), FIFO deque | `record`, `seen`, `clear` | set and deque agree; a key repeats only after more than `maxHistory` others |
| `GenerationTracker` (same file) | map generation → best hops, best time, broadcasts, first hops; deque | `accept`, `allowBroadcast`, `clear` | an ant that comes back over its own first hop is refused; a generation is admitted a bounded number of times |
| `PheromoneTable`, `PheromoneEngine` | neighbours, regular and virtual pheromone | add, set, draw, reinforce, evaporate, diffuse, prune | no usable entry through a node that is not a neighbour |
| `AntRouterLogic` (`core/src/ant_router_logic.cpp`) | table, filters, `lastSeen_`, `txFailures_`, repair deadlines, cooldowns, sessions | `onReceiveAnt`, `onDataPacket`, `reportTxFailure`, `onMaintenanceTick`, `createHelloAnt`, `createProactiveAnts` | ants walk loop-free real paths, losses reach those they concern, floods are rate limited, repairs end |
| ns-3 `RoutingProtocol`, `RequestQueue` | timers, sockets, held packets | `RouteOutput`, `RouteInput`, `RecvAnt`, `NotifyTxError`, interface and timer callbacks; `Enqueue`, `DequeueAll`, `Purge` | no packet lost or doubled; order and first entry survive re-queues; caps hold |
| wire codec and packet headers | none | `Serialize`, `Deserialize`, `encode`, `decode` | what is written is what the next node reads |
| ARA, Termite, Q-routing, BeeAdHoc (`ns3/baselines/adaptive`) | one table each, a shared forwarding plane and hold queue | control and data handlers, flush, ARP and MAC failure callbacks | packets are conserved, what is held is searched for, what is learned leads somewhere |
| AOMDV, GPSR (`ns3/baselines/aomdv`, `gpsr`) | multipath table, id cache, timers; position table, recovery marks in packets | the same | paths of an entry stay disjoint; a greedy walk gets closer |
| oracle, opspf, geo-greedy (`baselines/oracle`, `examples/leo-walker.cc`, `isl-grid.cc`, `core/src/shortest_path.cpp`) | edge set, a view and a row per node; serving satellites, location service | recompute, look up, learn; handover, failure, storm, flood | views settle on the truth, rows follow views, service and links agree |
| benchmark harness (`routing-bench-run.cc`) | counters and maps keyed by packet | a dozen trace hooks and the columns computed from them | each packet is accounted for once |
| web demo (`web/src/sim.cpp`) | nodes, flows, an event queue | flows, transmissions, timers, switches, batteries, moves | each packet is in one place; holds end |

How they interact. An adapter (ns-3's or the demo's) calls a handler of the
router and gets back a set of `RouteDecision`s, which it executes: send an ant,
forward data, hold data, deliver, or discard what is held. Nothing is shared
between nodes but the radio; within a node one event runs at a time, so a handler
is atomic and all concurrency is in the order of events: frames of several ants,
MAC failures that report a frame sent earlier, timers, data, mobility. The
baselines run on the same IP layer; there a hand-over can fail *inside* a handler
(the ARP cache drops at once and calls back), which makes handlers re-entrant.
The harness only listens. `opspf` shares one topology object between all nodes,
and differs per node only by what floods have told it.

The hard behaviours, each at its line, are the "hazards" of `PROJECT.json`. In
short: copies of one flood arriving in any order; unicasts that were received
although their sender is told they failed; failures interleaved with receptions;
routes pruned in several structures that must stay in step; neighbours that rely
on each other for the same lost destination; queues whose entries are taken out
and put back, some of them within the call that takes them out; timers ahead of
late answers; interfaces that vanish; floods that overtake each other; callbacks
into nodes that have changed; caches at their cap.

## 2. Plan

Built in this order, the core protocol first:

1. `AntHistory`, `HistoryTracker` against `DedupWindow`, `GenerationTracker`, with proofs.
2. `Pheromone`, `AntRouter`, `AntNetwork` with `Discovery` and `Maintenance`; `RequestQueue`.
3. The baselines on one forwarding plane; AOMDV and GPSR beside them; then interfaces that go down.
4. `PacketBooks`; the satellite scenarios with the shortest-path search; the demo; the wire.
5. The cable (point-to-point interfaces) in `AntNetwork`.

6. Proofs: the filters, the pending queue, then the routers and the network as `Maintenance`
   composes them, the books of a benchmark run, and the served satellites.

Left, most important first: proofs about the demo's `Accounted` and the oracle's rows
(`RowsFollowViews`); several interfaces at one node; quiet mode and adaptive evaporation; evictions from the
generation store while a flood is in flight (see section 5).

## 3. Modules and the code

```
DedupWindow  <--implements--  HistoryTracker          <--  HistoryTracker_proofs
AntHistory  <--  HistoryTracker, GenerationTracker    <--  GenerationTracker_proofs
Pheromone, AntHistory  <--  AntRouter  <--  AntNetwork  <--  Discovery   <--  MCDiscovery
                                    \               \--  Maintenance <--  MCMaintenance, Maintenance_proofs
                          DemoWorld --\--  Demo  <--  MCDemo
RequestQueue  <--  MCRequestQueue, RequestQueue_proofs
DataLemmas (induction, loops, finite sets, capped queues)  <--  all proof modules
AdaptiveArms <- AdaptiveBase <- AraArm, TermiteArm, QRoutingArm, BeeAdHocArm
                AdaptiveBase <- AomdvArm <- GpsrArm
                all arms  <--  BaselineNetwork  <--  MCBaselines
PacketBooks  <--  BenchRun  <--  MCBooks
                       \--  BooksLemmas  <--  BenchRun_proofs
ShortestPath <- OracleTopology <- LeoWorld <- LinkState  <--  MCLinkState, LinkState_proofs
Wire  <-  Trailers  <-  Frames  <--  MCFrames
```

**AntHistory** holds both filters as operators on values. Eviction is the
`while` loop of `record`/`accept`, here `Excess`, `Evicted` and `Kept`. The
acceptance factors are fractions (`A1/ADen`, `A2/ADen`, 0.9 and 2.0 by default).
**HistoryTracker** and **GenerationTracker** drive these operators with arbitrary
calls. `log` and `trail` are history variables: the keys answered "new" and the
ants admitted. **DedupWindow** is the abstract filter, "new unless among the last
`Window` keys answered new", with no data structure.

**Pheromone** is table and engine. The code never does more with a pheromone
value than compare it with another or with `minPheromone`, or draw with it as a
weight, so values are small integers: reinforcement takes a mean, evaporation and
diffusion take off one, values below the floor vanish as in `evaporateAll`. The
draw becomes the set of neighbours it can return. `MaxPheromone` is 12
where evaporation could race the idle limit: a fresh entry must outlive the
eviction of its neighbour, as in the code (100 down to 1e-5 at ×0.7 per
second takes some 45 s, the idle limit 2 s).

**AntRouter** is `AntRouterLogic`. A handler is an operator from the state of a
node to the set of results `[st, out]`; `out` is the set of decisions. `Then` runs
handlers one after another as their calls are nested in the code; `ForEach` is a loop
over a map or set of addresses, in the ascending order the containers have. Time stamps are
ages, forgotten once they reach the only interval they are compared with, which
keeps the state finite; `Never` stands for an absent map entry.

**AntNetwork** composes the nodes: `node` (routers), `held` (destinations with
packets waiting), `radio` (frames in flight; `mac` says broadcast, unicast,
unacked), `links`, `ports` (the interface of a cable, and who was heard on it),
`due`, `timers`; `streak`, `origins` and `flooded` are history variables. A unit of
time is the hello interval. A broadcast is one frame per node in range, each
delivered or lost on its own. A unicast that is not acknowledged (`AntTxError`)
makes the MAC report a failure, the frame received all the same or not. `Perform`
is `ExecuteDecisions`. A wired scenario has a cable instead: nobody reports a lost
frame, cutting it takes the interface down at both ends (`InterfaceDown` repeats
`reportTxFailure` for each neighbour heard on it), mending it opens a fresh one, and
hellos are sent every `helloEvery` ticks only, when receptions have not vouched for
the link.

**RequestQueue** is the queue with the adapter's steps around it; whether the
router has a route is an arbitrary set `routed`. `since` remembers, outside the
queue, when each packet entered it. `KeepAt` is what a loop of erasures leaves,
`Room` what an insertion finds after its purge and eviction, `Requeue` the loop of a
flush that puts entries back.

**AdaptiveArms** and **AdaptiveBase** are `adaptive-tables.h` and
`adaptive-routing-base.cc`. The tables and the policies that never call the forwarding plane
are in `AdaptiveArms`; everything that does is mutually recursive in `AdaptiveBase`, as it
is in the code. Every operator returns the set of nodes its call may leave; a
node's `out` and `ended` are what it sends and gives up in one step. The arm modules
(**AraArm**, **TermiteArm**, **QRoutingArm**, **BeeAdHocArm**, **AomdvArm**,
**GpsrArm**) hold the control handlers and timers of each protocol; the hold
queue AOMDV and GPSR have in two copies is in **AomdvArm**. Pheromone, Q-values and forager
ratings keep their order only, or whether they have faded. **BaselineNetwork** puts
nodes of one arm on a radio, with a budget for each kind of disturbance.

**PacketBooks** has one operator per trace hook of `routing-bench-run.cc`, from
books to books, and the report (`Columns` and the reordering figures) computed from
them. **BenchRun** moves copies of packets through an arm, characterised only by
what the hooks can see of it: does it defer, does it recover what the MAC gives up.
The report is read in every state. The sums of the report (`EventsOf`) and of the properties
(`CountOf`) are cardinalities of sets of pairs, a loop over an array (`NextExp`) is a recursive
function on its positions, and what the buffer holds back is a set (`HeldBack`): all can be reasoned about. `Arms` are the kinds of arm the
hooks tell apart.

**ShortestPath** is the search with its queue (one `Turn` per pop) and tie-break on integer weights;
**OracleTopology** the shared topology with its views, dirty marks and rows;
**LeoWorld** the link plans, handovers, failures, delays, floods and the
geo-greedy next hop; **LinkState** schedules them. The orbit is a table of elevations
and distances for three or four phases of the smallest shell.

**DemoWorld** is the geometry and mobility of `sim.cpp`, **Demo** its event loop
over the same `AntRouter`. `air` holds a node's transmissions under way in the
order they end.

**Wire** describes each header by its layout (fields with width and byte order)
and the two ant codecs; **Trailers** what is read from a packet's end, the tags and
BeeAdHoc's list headers; **Frames** sends one message along hops that read, change
and write it (`at` is the writer, the wire or the reader; `frame` the bytes, `got`
what was read from them). An ant may be cut short at any byte. Three conversions lose
or change something, and `FramesReadBack` says what: kinematics go on the wire as floats (a
double is its float and what that drops), the source has a destination's position in a
`uint16_t`, and ns-3's UDP header, put back in front of GPSR's, gets the length of what it is
then in front of (`gpsr.cc:266`); its other fields must be those sent.

Definitions whose comment begins "Mutant of" are not used by any specification.
Each is a plausible bug in the definition it names: put in the place of the
original, TLC finds the property violated (list in `PROJECT.json`).

## 4. Runs

Sizes are the distinct states TLC finds.

| run | instance | shows |
|---|---|---|
| `history_tracker` (549) | 4 keys, cap 2, at most 5 records between clears | `WindowAgrees`, `NoEarlyRepeat`, `ImplementsWindow` |
| `generation_tracker` (15 k) | 2 generations in a store of 1, 3 first hops with a cap of 2, up to 4 hops, 2 travel times, 1 broadcast | `StoreAgrees`, `BestIsMinimum`, `NoReturn`, `AdmissionsBounded` |
| `discovery` (160 k) | three scenarios: a lossless flood of a kite with a tail (5 nodes, cap 1); two generations over a lossy chain of 4; a proactive ant beside a flood of a ring | `AntsOnTrack`, `RoutesAreReal`, `FloodBounded`, `DiscoveryCompletes` |
| `maintenance` (864 k) | a pair whose link flaps; a cable cut and mended; a line of 3 with a learned route and one change | `NeighborsAreTimed`, `NoOrphanRoute`, `RoutesLead`, `FloodsSpaced`, `EvictionJustified` |
| `pair_live` (73 k) | a pair and a cable, one change, unbounded time | `RepairsResolve`, `SilentEvicted`, `LinkedLearned` |
| `request_queue` (489 k) | 3 packets, 2 destinations, queue of 2, timeout 3, caps 2, times 1 to 5 | `Conserved`, `NoOvertaking`, `CapRespected` |
| `baselines` (803 k) | 39 scenarios: each arm on lines, triangles or a diamond, GPSR also between whole metres and beyond what its header can say, with lost frames, dead ARP entries, broken links, early timers, faded routes, interfaces down, addresses removed | `Conserved`, `HeldIsSought`, `AntsLeaveWays`, `LostIsForgotten`, `PathsDisjoint`, `GreedyNeverReturns` |
| `books` (686 k) | 2 packets over a line or a diamond, five kinds of arm, one of them with and without a cap, two disturbances | `BooksClose`, `MacColumnIsTerminal`, `BooksFollowCopies`, `ReorderingAsDefined` |
| `linkstate` (80 k) | 2 planes of 3 satellites with two stations (and two HAPS above each), and a 2×3 torus; failures, a storm, three orbit phases | `ViewsSettle`, `RowsFollowViews`, `ServiceAgrees` |
| `demo` (236 k) | twelve worlds of three nodes: switched, drained, dragged, jammed, in orbit, in a town, lossy, flooded | `Accounted`, `HoldsEnd` |
| `wire` (201 k) | every message over up to five hops; limits of 3, 3 and 2 entries where the code has 100, 100 and 10 or 64 | `FramesReadBack` |
| `multipath_suppression` | triangle | `RoutesLead` refuted, see [section 8](#8-where-the-code-and-what-is-said-of-it-disagree) |

What the less obvious properties say:

- `AntsOnTrack`: `advanceBackAnt` pops the top of the visited stack without
  reading it and sends to what is below. That works only if the top is the node
  it runs at and the path is one of links without a repeated node, for every ant
  either filter lets through, copies and generations mixed.
- `RoutesAreReal`: an entry's next hop reaches the destination *without coming
  back* through the node that holds the entry, whatever ants were lost or doubled.
- `DiscoveryCompletes` with budgets of 1 and a destination three hops away: the
  cap on the flood belongs to the node, so it does not limit how far a flood reaches.
- `EvictionJustified` uses `streak`, counted outside the router: failures on both
  sides of a reception never add up. A cut cable takes everyone heard on it along,
  whatever had been counted.
- `RoutesLead`: once the radio is silent and no dead link is left in a neighbour
  table, following usable entries from a node that has a route can reach the
  destination. On a line the LinkFail note sees to it; on a triangle it fails.
- `NoReturn`: reactive forward ants are not deduplicated by (src, seq) with
  multipath on; that no later ant over the same first hop is admitted unless it came
  a strictly shorter way is what stops a looping ant.
- `Conserved` of the baselines: a packet is held, on the air, or its end is
  booked, through flushes that re-enter themselves. The exception the code has is
  in the property: an adaptive node whose interface is down sends into nothing.
- `HeldIsSought`: each arm has its own promise about what searches for a held
  packet. It is stated for ARA (up to ARP failures during a flush), AOMDV and GPSR;
  Q-routing and Termite do hold packets nobody searches for (section 8).
- `GreedyNeverReturns`: while nobody moves, a packet is closer to its destination
  at each node it leaves greedily or begins a walk at than at all such nodes before.
  GPSR promises it and its numbers break it: hellos and headers carry whole metres, a
  node knows its own position and the destination's as doubles. The property names
  the only ways it fails: a node that was told closer than it stands drew the packet back,
  or a walk from a node told farther than it stands ended early. It says nothing of a destination the source's
  header cannot carry. Each exception is needed: without it TLC finds a packet that returns.
- `ReorderingAsDefined` covers every order of arrival and any number of copies. It
  gives what the code computes where the definition does not hold: a second copy
  of the largest number so far is reordered by 0 places, and a second copy of anything is
  never released from the buffer, nor is what is above it.
- `BooksClose`, `MacColumnIsTerminal`, `BooksFollowCopies`: the columns of a
  report add up to what was offered; the MAC column counts frames lost for good; the
  fate booked for a packet is where its copy is. Arms that put one packet in two
  places are excluded where the code does not promise it (section 8).
- `ViewsSettle`: what a node believes of the links is the truth once no update
  is in flight, but for what nobody could tell it and for a change that overtakes
  the flood of the one before (LSAs carry no sequence number).
- `RowsFollowViews`: rows are solved lazily and kept; a kept row is still a
  shortest path by the smallest neighbour in what its node knows.
- `HoldsEnd`: the demo schedules one purge per entry; every held packet has one
  ahead of it, no later than its time is up.

## 5. Bounds

Bounds are constants of the `.cfg` or fields of the scenarios in the MC modules.
Caps are met with one element to spare in each store. The kite with a tail is the
smallest network with two ways round, a chord that creates loops, and a hop where
the flood must continue from a single relay; the ring gives proactive ants two ways
without a chord; the chain gives a retrace of three hops for two floods to cross on.
Everything about a single neighbour relation happens on a pair, so there time, link
changes and caches are pushed instead; a threshold of 2 failures, an idle limit of
1 and intervals of 1 and 2 units are the smallest that tell "first" from "again".
Three nodes are needed for a note to be passed on, and are enough for two to rely
on each other. No symmetry is used: nodes are ordered as the code's maps order
addresses.

- The generation store is larger than the number of generations in flight in
  `discovery`. It has to be: with a store of one and two generations on the chain TLC
  finds an ant whose path repeats a node (`AntsOnTrack`) within seven steps. The
  default of 4096 makes this remote.
- `prompt` (each frame lands before the next hello timer) is on for the line and
  the triangle only; frames and ticks interleave freely on the pair and the cable.
- The cable runs without the retry timer (see `FlushQueue` in section 8), with one
  neighbour per interface.
- `baselines`: up to three packets and a budget of one or two of the disturbances
  a scenario is about, since a hazard here needs at most two of them together. One
  interface per node, one outage per scenario; address events for AOMDV and GPSR,
  the arms that do more with them than with a link.
- GPSR's positions are in half metres (`Metre` = 2), which tells a position from what is
  told of it; a `uint16_t` counts to 8 metres (`PosSpan`, 2^16 in the code) so that a
  destination can lie beyond. No coordinate is negative: a negative double as an
  unsigned integer is undefined.
- `wire`: `MostLost` (3) exceeds the advert limit (2), routes of eleven nodes
  exceed BeeAdHoc's slots, stamps use several distinct bytes so that order shows.
  Numbers stay below 2^31, a route error below 255 destinations.
- `books`: two packets and two disturbances give every pair of fates, and a copy
  that meets its own duplicate, among them two arrivals of the same packet.

`Finished` lets a run whose bounds are used up stutter, so that TLC's deadlock check
still finds real deadlocks. It is off in `baselines`, `linkstate` and `wire`: once
the packets, failures or hops of a scenario are used up nothing is left to happen
there, since hellos and phases are bounded too.

## 6. Fairness

- `DiscoverySpec` assumes only that some frame in flight is eventually delivered
  while there is one. In the scenarios without losses no timer expires, so completion
  rests on the ants alone.
- `FairSpec` of `Maintenance`: each hello timer expires, a frame in flight is
  eventually received, lost or reported as failed, and time passes. ns-3's
  scheduler guarantees all three: events run in the order of their time stamps
  and each expiration re-arms its timer. Nothing is assumed about data, retries or
  links; over the cable hellos alone must keep and end the neighbour relation.
- `RequestQueue`: the clock moves on until the bound (`Tick`); its properties are
  safety properties and do not use it. The other specifications state no fairness
  and are checked for safety only.

## 7. Proofs

TLAPS proves the two duplicate filters, one of which every forward ant passes, the pending
queue, how routers keep neighbours, routes and floods in order while anything at all
happens on the radio, what a benchmark run writes down about its packets, and who serves
whom between sky and ground: nearly all the safety properties these components' runs check, for every value of the constants that satisfies
the named assumptions of the modules. TLC evaluates those assumptions in the runs.

### AntHistoryTracker

| theorem of `HistoryTracker_proofs` | states |
|---|---|
| `TrackerTypeOK` | types, and never more than `maxHistory` keys kept |
| `TrackerWindowAgrees` | the set and the deque hold the same keys, each once |
| `TrackerNoEarlyRepeat` | two "new" answers for one key are more than `maxHistory` new keys apart |
| `TrackerImplementsWindow` | the tracker implements `DedupWindow` |

None of the properties is inductive alone: that a key outside the set is also
outside the window needs to know *which* keys the deque holds. The inductive
invariant `IInv` adds `OrderIsLogSuffix`: the deque is exactly the last
min(cap, length) keys of the log. `EvictionPopsFront` says what the
eviction loop does to a deque within its cap (it pops at most the front; `PushPopsFront`
of `DataLemmas` is the same for any cap, and serves both filters), and each
step of the invariance proof rests on it. The refinement is the identity on `log`
and `verdict`; the suffix property makes "in the set" and "in the window" the same
guard. The only assumptions are `HistoryAssumption` (the cap is a natural number)
and `LogAssumption`; TLC evaluates both in the runs.

### GenerationTracker

| theorem of `GenerationTracker_proofs` | states |
|---|---|
| `GenerationsTypeOK` | types; the caps on generations, on first hops of one, on broadcasts of one |
| `GenerationsStoreAgrees` | map and deque hold the same generations, each once |
| `GenerationsBestIsMinimum` | the recorded metrics are the minima over all ants admitted |
| `GenerationsNoReturn` | a second ant over the same first hop came a strictly shorter way |
| `GenerationsAdmissionsBounded` | admissions cost a first hop or a hop each |

`NoReturn` is not inductive: the record keeps neither the ants nor all their first
hops (it stops at `kMaxFirstHops`), so nothing in the property says which factor the
next ant is held to. `IInv` says, for each resident generation, that its record
`Fits` the ants admitted. The part that matters is `Spent`: the first hop of an
admitted ant never counts as new again, because it was recorded, or the record was
already full, or it is no address (`NotedIsNotNew`). So a later ant over it is held
to the strict factor, and `StrictIsShorter` turns that factor into "fewer hops than
the minimum so far", which `Minimal` compares with every earlier ant.
`AdmissionsBounded` follows from the same split: an admission under the relaxed
factor takes a place among the first hops, one under the strict factor lowers the
minimum. `OneGenerationStep` then lifts this to the store, since both inserting
(`InsertStores`, over the eviction lemmas) and updating (`UpdateStores`) leave the
other generations as they were or evict them whole.

`GenerationAssumption` is what this rests on: hop counts are at least 1 (an ant that
reaches `accept` carries its source in `visited`) and the strict factor is below 1
(`A1 < ADen`; the default is 0.9). Nothing is assumed of the relaxed factor. At
1 an ant that only ties with the best is admitted again, and above 1 one that went
round and came back can be: `antAcceptanceFactor` is a free attribute, and loop
freedom depends on it.

### RequestQueue

| theorem of `RequestQueue_proofs` | states |
|---|---|
| `PacketsConserved` | the packets in the queue are those held, each once; the queue keeps its limit |
| `OrderKept` | packets of one destination wait in the order they came |
| `CapHolds` | no packet of a capped reason is forwarded later than its cap after it came in |

The three rest on one invariant, since each is false without the others. A flush takes
entries out and puts them back through the ordinary `Enqueue`, which purges and, when
full, evicts on every insertion. Nothing is lost there only because an entry that was
just purged for is still ahead of its new deadline (`PurgeOfFresh`) and because what was taken
out has made room. That needs `Capped`: no entry's deadline is later than its cap after
`first`, and `FirstIsEntry`: `first` is the time the packet came in, however often it was
stamped again. `Holds` joins these with the types, uniqueness, the order and the set of
held packets; `IInv` adds that no packet came in at a time that has not been.

A flush rebuilds the queue. `Rotates` gives, for each entry of the new queue, its
position in the old one: an injection that keeps the order within a destination though
not between destinations. Each kind of step yields one (`FlushLeaves`, `DequeueFacts`,
`EnqueueFacts`), and `LeavesHolds` carries the invariant over it.

`QueueAssumption` says that limit and timeout are positive, that caps are natural numbers and
that each packet has a destination. `CapHolds` also assumes `Start # 0`: 0 is the
time the code reads as "not set", and a packet that enters at 0 counts as entering
when it is next put back (section 8). The other two need no such thing.

### Routers and their neighbours

| theorem of `Maintenance_proofs` | states |
|---|---|
| `RoutersStaySane` | the inductive invariant below |
| `NeighborsTimed` | the liveness map and the pheromone table name the same neighbours |
| `OrphansNever` | no usable entry is left through a node that is no neighbour |
| `FloodsStaySpaced` | LinkFails and repair ants for a destination keep their intervals |
| `EvictionsJustified` | no neighbour is evicted without silence, a full streak of failures, or a cut; a cut takes everyone heard on the cable |

They hold in every network of `AntNetwork` with `Maintenance`'s specification: any finite
set of nodes, any scenario (links, routes known at the start, flows, cable or radio,
timed or not), any interleaving of receptions, losses, failures reported late or wrongly,
timers, data and link changes, with every feature switched on or off. No single property
is inductive. `IInv` consists of:

- each router is sane (`IsSane`): its tables have no orphan, and the neighbours of
  table and liveness map are the same;
- each frame in flight is on the track of its ant (`OnTrack`). `UpdateVirtual` and
  `ReinforceFromBackAnt` write an entry for the *sender named by the ant* without asking
  whether it is a neighbour. That is right because the node learned the sender of the frame
  just before and the two are the same: a hello names its own sender, the last of a backward
  ant's history is the node it came from. A note in flight has spent part of its budget, so
  relaying it is no launch;
- `StreaksCount`: a router's count of failures is never above `streak`, what it was told
  since it last *accepted* an ant of that neighbour. So when the count reaches the threshold
  the streak has. The two differ: an eviction sets the router's count back to 0 while the
  streak goes on;
- `OriginsTimed`: while the history has a flood, the cooldown in the router is as old as
  that flood and not over. It joins two sites that launch LinkFails and share the cooldown, and
  says the ants of one launch carry one sequence number, which is how `FloodsSpaced` tells
  copies from a second flood;
- a closed port means a cable that is down at both ends, so a cut finds both ports open.
  Without it a cut could find one closed, whose neighbours nobody reports lost.

The argument goes from operations on a table, over `learnNeighbor` and
`reportNeighborLoss`, to the handlers, the adapter and the actions, one lemma per
operation. A lemma about a handler says that all its results lie in `Outcomes(n, X, s)`:
sane routers and well-formed decisions, within bounds `X` that say which neighbours must be
kept, how far each failure count may rise and whether launches are allowed. `ThenType` and
`OutcomesThen` compose them as `Then` composes handlers. `PerformSafe` turns an outcome
into the next state of the network once for all the actions that execute decisions.

Assumed are `PheromoneAssumption` (finitely many nodes; what a hop deposits is more than
twice the floor), `RouterAssumption` (thresholds and intervals are natural numbers, positive but
for that of notes) and `ScenarioAssumption`
(links join different nodes; routes at the start go through neighbours heard at the start).
`FloodsStaySpaced` also assumes `NotifyInterval # 0`, since an interval of 0 asks for no spacing
between LinkFails.

### The books of a benchmark run

| theorem of `BenchRun_proofs` | states |
|---|---|
| `BooksCloseAlways` | where nothing is recovered, each packet offered is delivered or in one column |
| `MacColumnIsTerminalAlways` | the channel column is never negative; on a quiet air the MAC column is what the MAC lost for good |
| `BooksFollowCopiesAlways` | the path and the fate booked are those of the packet's copy |
| `ReorderingAsDefinedAlways` | reordering and extent are as defined, but for an extent of 0 where a second copy of the largest number arrives; the buffer holds what waits, second copies, and what is above one |

They hold for every flow, any links (there may be loops), any number of packets, any
cap on re-injections and any number of disturbances, in each kind of arm, and over any
number of runs of the same process. `BenchAssumption` asks only that a scenario names an arm the
hooks know and that its three numbers are natural; TLC evaluates it. The hooks see
packets come by and never where they are, so no column is right by itself; `BooksInv`,
which the first three rest on, ties the books to the copies in six parts:

- `Typed`: the copies are ones that can exist, and every key in the books was offered. A
  copy has a reason only once it is gone, and only reasons its arm can give;
- `Structure`: a packet whose frames were not sent again after being received is in one
  place (one copy is `Open`); and a trace of the re-injection, in `spent` or as a
  "recovered" frame, stays as long as a copy does. The books know a packet by its key alone,
  so what they say of it means something only while one copy has the key;
- `Agreement`: for such a packet, pending, fate and path in the books are those of its
  copy. This is `BooksFollowCopies` made inductive by what it leaves out: the path of a packet
  still on its way, and that a packet is pending exactly while it is queued, which `Closes` needs
  when a queue releases it or gives it up;
- `Closes`: offered plus received over a hop is handed to an interface plus delivered, dropped
  with an error, or pending. Each hook changes both sides alike, `PqTrackDrop` too: a
  packet whose queue gives it up leaves the pending set and enters the route column;
- `Counts`: each counter of frames is a sum of what its copies `Weight`, by place, reason and
  whether the frame was received. That makes `hopTx - hopRx` what was lost, so that nothing can be
  carved out of it that was not there, and `macDrops` less the unacknowledged what was lost for good;
- `Skips`: the skips booked for a key are the copies the cap gave up, and a packet booked
  as delivered at its first skip is delivered. The report counts those skips
  out by what was delivered *until now*, so the property needs both.

The bag is the difficulty: equal copies exist together (a frame that loops back), so every
step says what it does to the weight of *any* set of copies (`Moves`, `Splits`, `Joins`,
`Leaves`), and the parts are read off with the sets that matter to each. `BooksLemmas` has
weights, bags and one lemma per hook; `BenchRun_proofs` one lemma per step of a copy
(`ReleaseInv`, `ShedInv`, `ReachInv`, ...), which `BooksInvNext` gathers.

Reordering is a matter of sequences alone, so these lemmas hold for any order of arrival
and any number of copies of each packet.
`NextExpIs`: the number a receiver expects is the maximum so far plus 1, so `IsReordered`, which
compares with that maximum, is RFC 4737's definition. `ExtentIs`: the running maxima
are sorted, so the first that exceeds a number stands at the first arrival that does.
`ExtentNone`: where none does, the number is the maximum, which has arrived before.
`SlotIs`: the slots sort the packets as their numbers do; two copies share a slot and leave
the one above it empty; and below a packet under which nothing arrives twice no slot is empty,
for an injection between sets of the same size is onto. So (`OccupancyIs`) the packets
released are one for each slot filled without a gap, and the rest are `HeldBack`: second
copies, what is above one, and what waits for a smaller number still to come.

### The satellites that serve

`ServiceAgreesAlways` of `LinkState_proofs`: an access node has one link up, to the
satellite that serves it; the location service names that satellite; a city above which HAPS
stand is served through the first of them that has a satellite, and those that have none
go up by it. It holds for every plan: any satellites, stations, HAPS, links, elevations, arm,
storm and scripted break, with failures and rounds of the timers in any order.

`SetGsl`, the serving table and `SaginService` write four structures one after the other, and
a round goes through the access nodes one by one, so between two hand-overs of a round the
world is one no timer ever shows. `IInv` says that the phase and the satellites are
those of the plan and that `Agrees` holds:

- `LinksAgree`: the links up are *exactly* those of the serving table. `ServiceAgrees` compares
  them per node; a hand-over drops one link and raises another, and needs to know there is no third;
- `NodesAgree`: the service names the same satellite for an access node;
- `CityAgrees`, for each city: station and HAPS follow the first that is served.
  `SaginServiceIs` says that one call sets this right for its city *and leaves the other
  cities as they were*, which needs that cities and access nodes are different nodes and that
  each HAPS stands above a city of the plan. That is in `PlanAssumption`.

`HandoverKeeps` shows this for one hand-over to any satellite or none, `BestIs` that the one
chosen is one of the plan, `ClockKeeps` and `WatchKeeps` for a round of any length.
In `StartKeeps` the invariant of the loop grows: after n steps the cities below n agree.
Failures, storms, breaks, delays and orbits touch none of the four structures (`BesideKeeps`):
a dead satellite goes on serving until the watch comes round, and nothing is said to the
contrary. Besides the above `PlanAssumption` says that nodes and links have natural numbers, are
finitely many, and that the elevations of each phase are numbers; TLC evaluates it on the
plans of the run.

### Recursive definitions

The library states induction for an operator argument, which the provers cannot
instantiate. `DataLemmas` states it for *sets* instead: `SetInduction`, `BoundedInduction`,
and `RecursiveFunctionExists`, which builds the function a `LET f[n \in 0 .. N]` chooses
from approximations that agree. What a loop computes then follows by
membership in a set named in the proof. For this reason the loops of `AntRouter`,
`RequestQueue` and `LeoWorld` are recursive functions over an initial segment (`ForEach`, `KeepAt`,
`Requeue`), and a hello's adverts are chosen by their rank.

### What is only model-checked

- `AntsOnTrack` and `RoutesAreReal`. They are not invariants for every value of the constants: with
  fewer slots in the generation store than generations in flight TLC finds a path with
  a repeated node (section 5). A proof would have to bound the generations in flight.
- `FloodBounded` and `RoutesLead`. The first counts copies on the radio against admissions
  at all nodes. The second is reachability through the tables of all nodes, at the moments the
  radio is silent.
- `ViewsSettle` and `RowsFollowViews`. They rest on what the search of `ShortestPath` computes: a
  recursive function on the states of a queue, whose termination is an induction over data. Its
  step, `Turn`, folds over a set of edges.
- The baselines, the demo and the wire. Most of their
  definitions use `RECURSIVE` operators or folds of the community modules, which the provers do
  not unfold.
- Liveness and `ENABLED`, beyond the prover.

## 8. Where the code and what is said of it disagree

Checked, by a run that must find the violation:

- **Two stale routes hold each other up** (`multipath_suppression`, `RoutesLead`).
  With multipath on, `reportNeighborLoss` keeps quiet about a lost destination
  while an alternate is left, because "data keeps flowing over the alternate"
  (`ant_router_logic.cpp:210`). Two neighbours of the lost node that each have
  the other as alternate are both quiet, and their routes lead to each other until
  evaporation ends it.

Seen while modelling, and outside the runs. In the router and its adapter:

- `EnableReactive` off does not stop discovery: the retry timer floods all the same
  (`anthocnet-routing-protocol.cc:1451`, against the attribute's text at 161). It
  also ignores `reactiveRetryInterval` ("at most one … per destination per this window", `config.h:130`).
- An ant the duplicate filter rejects returns before `learnNeighbor`, so it does not
  clear the failure streak as `ant_router_logic.cpp:253` says any reception does.
- `FlushQueue` from the retry timer, on a node whose only interface is down and which
  still has a next hop, makes `ResolveNextHop` read the first socket of an empty map
  (around line 1080). `NotifyInterfaceDown` leaves the peer routes of the dead interface.
- `RequestQueue` reads a first-entry time of 0 as "not set"; `QueueTimeout` is
  restarted by each re-queue; a full queue evicts its front, which after a rotation
  is not the packet that waited longest ("the oldest entry", `anthocnet-rqueue.h:83`).

In the baselines:

- ARA: a packet sent back by a node with no other way is sent back again by its
  previous hop, until its TTL is spent; it does not travel on towards the source.
- Q-routing: held packets are flushed when a hello comes from a *new* neighbour; one
  first heard through data or an estimate is not new, and they stay. Termite holds a
  packet without a request when it knows the destination but only the previous hop.
- An adaptive node whose interface is down and that flushes a held packet loses it
  without an error callback.
- AOMDV: a reply with the sequence number already known is ignored while the entry is
  not valid (line 1826, against the comment above it); next hops can form a cycle once
  a route fades; the timer for a reply's acknowledgement is set on a copy and never
  started, so no neighbour is ever blacklisted; `m_htimer` is cancelled with the last
  interface and only `DoInitialize` starts it again; `NotifyRemoveAddress` erases the
  broadcast socket from the wrong map; deleting paths erases inside the loop.
  `AddUnDestination` never returns false although `aomdv-packet.h:657` says so: beyond
  255 destinations the count wraps.
- GPSR: `NotifyAddAddress` compares inside the call's parentheses
  (`GetNAddresses((interface) == 1)`); `NotifyRemoveAddress` closes no socket; `Clear`
  keeps the coordinator marks; `PositionTable::GetPosition` ignores the table;
  `GetAngle` is clockwise where its comment says counterclockwise. Hellos and headers
  carry positions cut to whole metres (`gpsr.cc:1006`, 1176), and `BestNeighbor` compares them with the
  node's own position, which is not cut: two nodes that stand still in the same metre,
  neither of them in reach of the destination, send a packet to each other until its TTL is
  spent; a walk can end at a node farther away than it began. The source puts the
  destination through a `uint16_t` (line 1143), so a walk for a destination beyond 65 535 m
  makes for another place until a greedy hop writes the header afresh.
- BeeAdHoc: `RecvControl` checks for 16 bytes where the smallest header has 17; a
  route with nine intermediates keeps eight levels; a forager that travels home
  re-decodes its levels from the other end (its rating uses minimum and average only);
  re-routing at the source drops the forager that travels with the packet.

In the satellite scenarios:

- An unserved HAPS goes up over "a served ring neighbour" (`leo-walker.cc:391`); it gets the city's
  first served HAPS (line 586), which with four or more need not be beside it. The run has two.
- `leo-walker.cc:372` calls geo-greedy free of stale beacons; a packet can bounce between
  satellite and station until its hops run out.
- opspf: "every node knows them the moment they happen" (`leo-walker.md:442`) of
  predicted changes, but interfaces are read at the next `Recompute` only. LSAs have no
  sequence numbers, so two floods of one link can be learned in the wrong order; a
  node that is cut off misses them for good; a link between two victims of a storm is
  told by nobody. `FillRow` takes the lowest interface of parallel links.

In the harness and the demo:

- A reordered packet's extent is "≥ 1" (`routing-bench-run.cc:2549`, `metrics.md:1755`);
  it is 0 for a second copy of the largest number so far. The reorder buffer is
  overstated when duplicates arrive (`metrics.md:1761`): a second copy shares a slot, leaves
  the one above it empty for good, and neither it nor what is above it is released. The
  channel column of an adaptive arm can be negative (`metrics.md:495`); path hops are
  overstated with re-injection.
- Demo: the first-queued time travels with a packet, so a hold for reconvergence may
  expire in the past, and `advanceTo` then sets the clock back; 0 means "never queued";
  a failure report that empties the battery switches the node off, and the packet is
  then held at a node that is off.

## 9. What is not modelled and why

- AntHocNet, off by default: quiet mode, adaptive evaporation; and, numeric
  besides: kinematics and link lifetime (`link_lifetime.h`), hop-count smoothing,
  link-quality and MAC metrics and their registry (their formulas only change which
  path gets more pheromone).
- The numbers: pheromone, Q-values and levels as reals, and draw probabilities. Any
  draw with a positive weight can happen. A roulette sum rounded below the draw at
  the last neighbour is not modelled; a draw of exactly 0 is (`DrawMayBeZero`)
  but is off in the runs, where ns-3's stream stays above 0.
- Data frames in flight under AntHocNet in `AntNetwork`: a data packet is forwarded
  or fails at once. They are modelled in `Demo` and in the baselines.
- Several interfaces at one node, and resolving a MAC or next hop over them. Several
  nodes on one cable. AOMDV's subnet broadcasts.
- Orbits, mobility models and radio propagation beyond the demo's own: tables or
  arbitrary changes stand for them. Oracle edges read from wifi positions.
- The set-up of a benchmark run, path diversity, energy and control-traffic
  counters, TCP flows, and the harness that schedules runs and writes files; the
  demo's prepared scenarios and snapshots; helpers, examples and tests besides the
  two satellite ones: construction and reporting around what is modelled.
- Printing, logging, trace sources, `ports.h`, `types.h`: no behaviour of their own.
- Published results, plots, packaging and documents: no program.
