------------------------------ MODULE AntHistory ------------------------------
(***************************************************************************)
(* The two bounded duplicate filters of core/src/ant_history.cpp, as       *)
(* operators on values, so that the tracker specifications and the router  *)
(* use the same definitions.                                               *)
(*                                                                         *)
(* A history is [entries, order]: the std::set AntHistoryTracker tests and *)
(* the std::deque that drives its FIFO eviction.  A generation store is    *)
(* [best, order]: the std::map from (src, seq) to the best metrics and the *)
(* deque.  A key stands for a (src, seq) pair.                             *)
(***************************************************************************)
EXTENDS Integers, Sequences, FiniteSets

CONSTANTS
  MaxHistory,     \* Config::maxHistory; 0 means unbounded
  MaxFirstHops,   \* GenerationTracker::kMaxFirstHops
  A1, A2, ADen,   \* antAcceptanceFactor = A1/ADen, ...FactorNewHop = A2/ADen
  Invalid         \* kInvalidAddress

ASSUME HistoryAssumption ==
  /\ MaxHistory \in Nat
  /\ MaxFirstHops \in Nat
  /\ A1 \in Nat /\ A2 \in Nat /\ ADen \in Nat \ {0}

-----------------------------------------------------------------------------
(* FIFO eviction: the while loop that pops the deque down to the cap.      *)

\* Mutant of Excess: compares with >= one entry late.
ExcessLate(q) ==
  IF MaxHistory # 0 /\ Len(q) > MaxHistory + 1 THEN Len(q) - MaxHistory ELSE 0

Excess(q) == IF MaxHistory # 0 /\ Len(q) > MaxHistory THEN Len(q) - MaxHistory ELSE 0
Evicted(q) == {q[i] : i \in 1 .. Excess(q)}
Kept(q) == SubSeq(q, Excess(q) + 1, Len(q))

-----------------------------------------------------------------------------
(* AntHistoryTracker *)

EmptyHistory == [entries |-> {}, order |-> <<>>]

Seen(h, k) == k \in h.entries

\* Mutant of Record: the deque is trimmed but the set keeps the evicted key.
RecordLeaky(h, k) ==
  [entries |-> h.entries \cup {k}, order |-> Kept(Append(h.order, k))]

\* Mutant of Record: evicts one entry too many once the cap is reached.
RecordEager(h, k) ==
  LET q == Append(h.order, k)
      n == IF MaxHistory # 0 /\ Len(q) >= MaxHistory THEN 1 ELSE 0
  IN [entries |-> (h.entries \cup {k}) \ {q[i] : i \in 1 .. n},
      order   |-> SubSeq(q, n + 1, Len(q))]

\* The effect of record() on a key it has not seen.
Record(h, k) ==
  LET q == Append(h.order, k)
  IN [entries |-> (h.entries \cup {k}) \ Evicted(q), order |-> Kept(q)]

-----------------------------------------------------------------------------
(* GenerationTracker.  firstHops is a vector without duplicates, so a set. *)

EmptyGenerations == [best |-> [k \in {} |-> 0], order |-> <<>>]

Resident(g, k) == k \in DOMAIN g.best

\* Mutant of Insert: the generation is never queued for eviction.
InsertUnqueued(g, k, b) ==
  [g EXCEPT !.best = [x \in DOMAIN g.best \cup {k} |-> IF x = k THEN b ELSE g.best[x]]]

\* The emplace, push_back and eviction loop accept() and allowBroadcast() share.
Insert(g, k, b) ==
  LET q == Append(g.order, k)
  IN [best  |-> [x \in (DOMAIN g.best \cup {k}) \ Evicted(q) |->
                   IF x = k THEN b ELSE g.best[x]],
      order |-> Kept(q)]

\* Mutant of IsNewFirstHop: at the cap unseen first hops keep the relaxed factor.
IsNewFirstHopUncapped(firstHops, fh) == fh # Invalid /\ fh \notin firstHops

IsNewFirstHop(firstHops, fh) ==
  /\ fh # Invalid
  /\ Cardinality(firstHops) < MaxFirstHops
  /\ fh \notin firstHops

\* Mutant of NoteFirstHop: the branch is never recorded.
NoteFirstHopNever(firstHops, fh) == firstHops

NoteFirstHop(firstHops, fh) ==
  IF IsNewFirstHop(firstHops, fh) THEN firstHops \cup {fh} ELSE firstHops

\* Mutant of Admits: either metric within the band is enough.
AdmitsEither(g, k, hops, time, fh) ==
  Resident(g, k) =>
    LET b == g.best[k]
        f == IF IsNewFirstHop(b.firstHops, fh) THEN A2 ELSE A1
    IN hops * ADen <= f * b.hops \/ time * ADen <= f * b.time

\* The verdict of accept() on an ant of generation k.
Admits(g, k, hops, time, fh) ==
  Resident(g, k) =>
    LET b == g.best[k]
        f == IF IsNewFirstHop(b.firstHops, fh) THEN A2 ELSE A1
    IN hops * ADen <= f * b.hops /\ time * ADen <= f * b.time

Lesser(a, b) == IF a < b THEN a ELSE b

\* Mutant of Admit: an admitted ant overwrites the minima.
AdmitLatest(g, k, hops, time, fh) ==
  IF Resident(g, k)
  THEN LET b == g.best[k]
       IN [g EXCEPT !.best[k] = [hops |-> hops, time |-> time, broadcasts |-> b.broadcasts,
                                 firstHops |-> NoteFirstHop(b.firstHops, fh)]]
  ELSE Insert(g, k, [hops |-> hops, time |-> time, broadcasts |-> 0,
                     firstHops |-> NoteFirstHop({}, fh)])

\* The effect of accept() on an ant it admits.
Admit(g, k, hops, time, fh) ==
  IF Resident(g, k)
  THEN LET b == g.best[k]
       IN [g EXCEPT !.best[k] =
             [hops       |-> Lesser(hops, b.hops),
              time       |-> Lesser(time, b.time),
              broadcasts |-> b.broadcasts,
              firstHops  |-> NoteFirstHop(b.firstHops, fh)]]
  ELSE Insert(g, k, [hops |-> hops, time |-> time, broadcasts |-> 0,
                     firstHops |-> NoteFirstHop({}, fh)])

\* allowBroadcast() with a cap of max: does the node still have a broadcast of k?
MayBroadcast(g, k, max) ==
  \/ max < 0
  \/ ~ Resident(g, k) /\ max > 0
  \/ Resident(g, k) /\ g.best[k].broadcasts < max

\* The record allowBroadcast() creates for a generation accept() never saw.
Tracked(g, k) ==
  IF Resident(g, k) THEN g
  ELSE Insert(g, k, [hops |-> 0, time |-> 0, broadcasts |-> 0, firstHops |-> {}])

\* Mutant of ClaimBroadcast: the claim is not counted.
ClaimBroadcastUncounted(g, k, max) == IF max < 0 THEN g ELSE Tracked(g, k)

\* The effect of allowBroadcast(), granted or not.
ClaimBroadcast(g, k, max) ==
  IF max < 0 THEN g
  ELSE IF MayBroadcast(g, k, max)
       THEN [Tracked(g, k) EXCEPT !.best[k].broadcasts = @ + 1]
       ELSE Tracked(g, k)

=============================================================================
