------------------------- MODULE HistoryTracker_proofs -------------------------
(***************************************************************************)
(* Proofs about AntHistoryTracker for every key set, cap and log bound.    *)
(* The inductive invariant adds to the properties that the deque is        *)
(* exactly the end of the log of recorded keys that the cap leaves.        *)
(***************************************************************************)
EXTENDS HistoryTracker, DataLemmas

\* How many keys the eviction loop pops when one is pushed onto a deque of n.
Pops(n) == IF MaxHistory # 0 /\ n = MaxHistory THEN 1 ELSE 0

\* After one push_back on a deque within the cap, the eviction loop pops at
\* most the front element.
LEMMA EvictionPopsFront ==
  ASSUME NEW K, NEW q \in Seq(K), NEW k \in K,
         MaxHistory # 0 => Len(q) <= MaxHistory
  PROVE  LET p == Append(q, k)
             e == Pops(Len(q))
         IN /\ Kept(p) \in Seq(K)
            /\ Len(Kept(p)) = Len(q) + 1 - e
            /\ \A i \in 1 .. Len(q) + 1 - e : Kept(p)[i] = p[i + e]
            /\ Evicted(p) = IF e = 1 THEN {p[1]} ELSE {}
<1> DEFINE p == Append(q, k)
           e == Surplus(MaxHistory, p)
           kept == Rest(MaxHistory, p)
           gone == Popped(MaxHistory, p)
<1>1. MaxHistory \in Nat /\ q \in Seq(K) /\ k \in K /\ (MaxHistory # 0 => Len(q) <= MaxHistory)
  BY HistoryAssumption
<1>2. Kept(p) = kept /\ Evicted(p) = gone
  BY DEF Kept, Evicted, Excess, Surplus, Rest, Popped
<1>3. /\ e = IF MaxHistory # 0 /\ Len(q) = MaxHistory THEN 1 ELSE 0
      /\ kept \in Seq(K)
      /\ Len(kept) = Len(q) + 1 - e
      /\ \A i \in 1 .. Len(q) + 1 - e : kept[i] = p[i + e]
      /\ gone = IF e = 1 THEN {p[1]} ELSE {}
  BY ONLY <1>1, PushPopsFront, Zenon
<1> HIDE DEF kept, gone, e
<1>4. e = Pops(Len(q))
  BY <1>3 DEF Pops
<1> QED
  BY <1>2, <1>3, <1>4

\* On a deque without repetitions, an insertion and the eviction that follows
\* keep it so, and the deque holds what it held and the new key, less the evicted.
LEMMA EvictionKeepsWindow ==
  ASSUME NEW K, NEW q \in Seq(K), NEW k \in K,
         MaxHistory # 0 => Len(q) <= MaxHistory,
         \A i, j \in 1 .. Len(q) : q[i] = q[j] => i = j,
         k \notin {q[i] : i \in 1 .. Len(q)}
  PROVE  LET p == Append(q, k)
         IN /\ Kept(p) \in Seq(K)
            /\ MaxHistory # 0 => Len(Kept(p)) <= MaxHistory
            /\ \A i, j \in 1 .. Len(Kept(p)) : Kept(p)[i] = Kept(p)[j] => i = j
            /\ {Kept(p)[i] : i \in 1 .. Len(Kept(p))} =
                 ({q[i] : i \in 1 .. Len(q)} \cup {k}) \ Evicted(p)
            /\ k \notin Evicted(p)
<1> DEFINE p == Append(q, k)
           kept == Rest(MaxHistory, p)
           gone == Popped(MaxHistory, p)
<1>1. /\ MaxHistory \in Nat /\ q \in Seq(K) /\ k \in K /\ (MaxHistory # 0 => Len(q) <= MaxHistory)
      /\ \A i, j \in 1 .. Len(q) : q[i] = q[j] => i = j
      /\ k \notin {q[i] : i \in 1 .. Len(q)}
  BY HistoryAssumption
<1>2. Kept(p) = kept /\ Evicted(p) = gone
  BY DEF Kept, Evicted, Excess, Surplus, Rest, Popped
<1>3. /\ kept \in Seq(K)
      /\ MaxHistory # 0 => Len(kept) <= MaxHistory
      /\ \A i, j \in 1 .. Len(kept) : kept[i] = kept[j] => i = j
      /\ {kept[i] : i \in 1 .. Len(kept)} = ({q[i] : i \in 1 .. Len(q)} \cup {k}) \ gone
      /\ k \notin gone
  BY ONLY <1>1, PushKeepsWindow, Zenon
<1> HIDE DEF kept, gone
<1> QED
  BY <1>2, <1>3

\* The deque is the last min(MaxHistory, Len(log)) keys of the log.
OrderIsLogSuffix ==
  LET q == tracker.order
  IN /\ Len(q) = IF MaxHistory = 0 \/ Len(log) <= MaxHistory THEN Len(log) ELSE MaxHistory
     /\ \A i \in 1 .. Len(q) : q[i] = log[Len(log) - Len(q) + i]

TrackerShape == tracker = [entries |-> tracker.entries, order |-> tracker.order]

IInv == TypeOK /\ TrackerShape /\ WindowAgrees /\ OrderIsLogSuffix /\ NoEarlyRepeat

LEMMA InitIInv == Init => IInv
  BY HistoryAssumption DEF Init, IInv, TypeOK, TrackerShape, WindowAgrees, OrderIsLogSuffix,
     NoEarlyRepeat, EmptyHistory

\* Recording a new key keeps every part of the invariant.
LEMMA RecordNewIInv ==
  ASSUME IInv, NEW k \in Keys, RecordNew(k)
  PROVE  IInv'
<1> DEFINE q == tracker.order
           p == Append(q, k)
           e == Pops(Len(q))
<1>0. /\ q \in Seq(Keys) /\ log \in Seq(Keys)
      /\ tracker.entries \subseteq Keys
      /\ tracker.entries = {q[i] : i \in 1 .. Len(q)}
      /\ \A i, j \in 1 .. Len(q) : q[i] = q[j] => i = j
      /\ MaxHistory # 0 => Len(q) <= MaxHistory
      /\ k \notin tracker.entries
  BY DEF IInv, TypeOK, WindowAgrees, RecordNew, Seen
<1>1. /\ Kept(p) \in Seq(Keys)
      /\ Len(Kept(p)) = Len(q) + 1 - e
      /\ \A i \in 1 .. Len(q) + 1 - e : Kept(p)[i] = p[i + e]
      /\ Evicted(p) = IF e = 1 THEN {p[1]} ELSE {}
  <2>1. q \in Seq(Keys) /\ (MaxHistory # 0 => Len(q) <= MaxHistory)
    BY <1>0
  <2> HIDE DEF q
  <2>2. QED  BY <2>1, EvictionPopsFront, Zenon
<1>2. /\ tracker' = [entries |-> (tracker.entries \cup {k}) \ Evicted(p), order |-> Kept(p)]
      /\ log' = Append(log, k)
  BY DEF RecordNew, Record
<1>3. /\ tracker'.order = Kept(p)
      /\ tracker'.entries = (tracker.entries \cup {k}) \ Evicted(p)
  BY <1>2
<1>4. /\ Len(p) = Len(q) + 1
      /\ \A i \in 1 .. Len(q) : p[i] = q[i]
      /\ p[Len(q) + 1] = k
      /\ Len(log') = Len(log) + 1
      /\ \A i \in 1 .. Len(log) : log'[i] = log[i]
      /\ log'[Len(log) + 1] = k
      /\ log' \in Seq(Keys)
  BY <1>0, <1>2
<1>4a. /\ Len(q) \in Nat /\ Len(log) \in Nat /\ MaxHistory \in Nat /\ e \in {0, 1}
       /\ e = 1 <=> MaxHistory # 0 /\ Len(q) = MaxHistory
  BY <1>0, HistoryAssumption DEF Pops
<1>4b. /\ Len(q) = IF MaxHistory = 0 \/ Len(log) <= MaxHistory THEN Len(log) ELSE MaxHistory
       /\ \A i \in 1 .. Len(q) : q[i] = log[Len(log) - Len(q) + i]
       /\ Len(q) <= Len(log)
  <2>1. /\ Len(q) = IF MaxHistory = 0 \/ Len(log) <= MaxHistory THEN Len(log) ELSE MaxHistory
        /\ \A i \in 1 .. Len(q) : q[i] = log[Len(log) - Len(q) + i]
    BY DEF IInv, OrderIsLogSuffix
  <2>2. Len(q) = IF MaxHistory = 0 \/ Len(log) <= MaxHistory THEN Len(log) ELSE MaxHistory
    BY <2>1
  <2> HIDE DEF q
  <2>3. Len(q) <= Len(log)
    BY <2>2, <1>4a
  <2>4. QED  BY <2>1, <2>3
<1>4c. /\ tracker'.order \in Seq(Keys) /\ tracker'.entries \subseteq Keys
       /\ TrackerShape'
  BY <1>0, <1>1, <1>2, <1>3 DEF TrackerShape
<1> HIDE DEF p, q, e
<1>6. TypeOK'
  <2>1. MaxHistory # 0 => Len(Kept(p)) <= MaxHistory
    BY <1>0, <1>1, <1>4a
  <2>2. QED  BY <2>1, <1>3, <1>4, <1>4c DEF TypeOK
<1>7. WindowAgrees'
  <2>1. k \notin {q[i] : i \in 1 .. Len(q)}
    BY <1>0
  <2>2. /\ \A i, j \in 1 .. Len(Kept(p)) : Kept(p)[i] = Kept(p)[j] => i = j
        /\ {Kept(p)[i] : i \in 1 .. Len(Kept(p))} =
             ({q[i] : i \in 1 .. Len(q)} \cup {k}) \ Evicted(p)
    BY <2>1, <1>0, EvictionKeepsWindow, Zenon DEF p
  <2>3. QED  BY <2>2, <1>0, <1>3 DEF WindowAgrees
<1>8. OrderIsLogSuffix'
  <2>1. Len(Kept(p)) = IF MaxHistory = 0 \/ Len(log') <= MaxHistory
                       THEN Len(log') ELSE MaxHistory
    BY <1>1, <1>4, <1>4a, <1>4b
  <2>2. \A i \in 1 .. Len(Kept(p)) : Kept(p)[i] = log'[Len(log') - Len(Kept(p)) + i]
    <3> TAKE i \in 1 .. Len(Kept(p))
    <3>1. /\ Kept(p)[i] = p[i + e] /\ i + e \in 1 .. Len(q) + 1
          /\ Len(log') - Len(Kept(p)) + i = Len(log) - Len(q) + (i + e)
      BY <1>1, <1>4, <1>4a
    <3>2. CASE i + e = Len(q) + 1
      <4>1. Len(log) - Len(q) + (i + e) = Len(log) + 1
        BY <3>2, <1>4a
      <4>2. QED  BY <3>1, <3>2, <4>1, <1>4
    <3>3. CASE i + e \in 1 .. Len(q)
      <4>1. Len(log) - Len(q) + (i + e) \in 1 .. Len(log)
        BY <3>3, <1>4a, <1>4b
      <4>2. QED  BY <3>1, <3>3, <4>1, <1>4, <1>4b
    <3>4. QED  BY <3>1, <3>2, <3>3, <1>4a
  <2>3. QED  BY <2>1, <2>2, <1>3 DEF OrderIsLogSuffix
<1>9. NoEarlyRepeat'
  <2> SUFFICES ASSUME NEW i \in 1 .. Len(log'), NEW j \in 1 .. Len(log'),
                      i < j, log'[i] = log'[j]
               PROVE  MaxHistory # 0 /\ j - i > MaxHistory
    BY DEF NoEarlyRepeat
  <2>1. CASE j \in 1 .. Len(log)
    BY <2>1, <1>4, <1>4a DEF IInv, NoEarlyRepeat
  <2>2. CASE j = Len(log) + 1
    <3>1. i \in 1 .. Len(log) /\ log[i] = k
      BY <2>2, <1>4, <1>4a
    <3>2. ASSUME i > Len(log) - Len(q)
          PROVE  FALSE
      <4>1. i - (Len(log) - Len(q)) \in 1 .. Len(q)
        BY <3>1, <3>2, <1>4a, <1>4b
      <4>2. Len(log) - Len(q) + (i - (Len(log) - Len(q))) = i
        BY <3>1, <1>4a
      <4>3. q[i - (Len(log) - Len(q))] = k
        BY <4>1, <4>2, <3>1, <1>4b
      <4>4. QED  BY <4>1, <4>3, <1>0
    <3>3. MaxHistory # 0 /\ Len(q) = MaxHistory
      BY <3>1, <3>2, <1>4a, <1>4b
    <3>4. QED  BY <3>1, <3>2, <3>3, <2>2, <1>4a
  <2>3. QED  BY <2>1, <2>2, <1>4, <1>4a
<1>10. QED  BY <1>4c, <1>6, <1>7, <1>8, <1>9 DEF IInv

\* Every step keeps the invariant.
LEMMA NextIInv == IInv /\ [Next]_vars => IInv'
<1> SUFFICES ASSUME IInv, [Next]_vars PROVE IInv'
  OBVIOUS
<1>1. ASSUME NEW k \in Keys, RecordNew(k) PROVE IInv'
  BY <1>1, RecordNewIInv
<1>2. ASSUME NEW k \in Keys, RecordSeen(k) PROVE IInv'
  BY <1>2 DEF RecordSeen, IInv, TypeOK, TrackerShape, WindowAgrees, OrderIsLogSuffix,
     NoEarlyRepeat
<1>3. CASE ClearTracker
  BY <1>3, HistoryAssumption DEF ClearTracker, IInv, TypeOK, TrackerShape, WindowAgrees,
     OrderIsLogSuffix, NoEarlyRepeat, EmptyHistory
<1>4. CASE UNCHANGED vars
  BY <1>4 DEF vars, IInv, TypeOK, TrackerShape, WindowAgrees, OrderIsLogSuffix, NoEarlyRepeat
<1>5. QED  BY <1>1, <1>2, <1>3, <1>4 DEF Next

\* The strengthening is an invariant of the tracker.
THEOREM TrackerInvariant == Spec => []IInv
<1>1. Init => IInv  BY InitIInv
<1>2. IInv /\ [Next]_vars => IInv'  BY NextIInv
<1>3. QED  BY <1>1, <1>2, PTL DEF Spec

\* Type correctness of the tracker.
THEOREM TrackerTypeOK == Spec => []TypeOK
<1>1. IInv => TypeOK  BY DEF IInv
<1>2. QED  BY <1>1, TrackerInvariant, PTL

\* Set and deque never drift apart, whatever the cap (record's two containers).
THEOREM TrackerWindowAgrees == Spec => []WindowAgrees
<1>1. IInv => WindowAgrees  BY DEF IInv
<1>2. QED  BY <1>1, TrackerInvariant, PTL

\* No (src, seq) is answered new twice within MaxHistory other new ones.
THEOREM TrackerNoEarlyRepeat == Spec => []NoEarlyRepeat
<1>1. IInv => NoEarlyRepeat  BY DEF IInv
<1>2. QED  BY <1>1, TrackerInvariant, PTL

\* Under the invariant the set holds exactly the keys of the window.
LEMMA SeenIsInWindow ==
  ASSUME IInv, NEW k \in Keys
  PROVE  Seen(tracker, k) <=> Abstract!InWindow(k)
<1> DEFINE q == tracker.order
           ws == Abstract!WindowStart
<1>1. /\ q \in Seq(Keys) /\ log \in Seq(Keys)
      /\ tracker.entries = {q[i] : i \in 1 .. Len(q)}
      /\ Len(q) = IF MaxHistory = 0 \/ Len(log) <= MaxHistory THEN Len(log) ELSE MaxHistory
      /\ \A i \in 1 .. Len(q) : q[i] = log[Len(log) - Len(q) + i]
  BY DEF IInv, TypeOK, WindowAgrees, OrderIsLogSuffix
<1>1a. Len(q) \in Nat /\ Len(log) \in Nat /\ MaxHistory \in Nat
  BY <1>1, HistoryAssumption
<1> HIDE DEF q
<1>2. ws = Len(log) - Len(q) + 1 /\ Len(q) <= Len(log)
  <2>1. Len(q) = IF MaxHistory = 0 \/ Len(log) <= MaxHistory THEN Len(log) ELSE MaxHistory
    BY <1>1
  <2>2. ws = IF MaxHistory # 0 /\ Len(log) > MaxHistory THEN Len(log) - MaxHistory + 1 ELSE 1
    BY DEF Abstract!WindowStart
  <2> HIDE DEF ws
  <2>3. CASE MaxHistory # 0 /\ Len(log) > MaxHistory
    <3>1. Len(q) = MaxHistory /\ ws = Len(log) - MaxHistory + 1
      BY <2>1, <2>2, <2>3, <1>1a
    <3>2. QED  BY <2>3, <3>1, <1>1a
  <2>4. CASE ~ (MaxHistory # 0 /\ Len(log) > MaxHistory)
    <3>1. Len(q) = Len(log) /\ ws = 1
      BY <2>1, <2>2, <2>4, <1>1a
    <3>2. QED  BY <3>1, <1>1a
  <2>5. QED  BY <2>3, <2>4
<1>3. ASSUME NEW i \in 1 .. Len(q), q[i] = k
      PROVE  Abstract!InWindow(k)
  <2>1. Len(log) - Len(q) + i \in ws .. Len(log)
    BY <1>1a, <1>2
  <2>2. QED  BY <2>1, <1>1, <1>3 DEF Abstract!InWindow
<1>4. ASSUME NEW i \in ws .. Len(log), log[i] = k
      PROVE  \E j \in 1 .. Len(q) : q[j] = k
  <2> DEFINE j == i - (Len(log) - Len(q))
  <2>1. j \in 1 .. Len(q) /\ Len(log) - Len(q) + j = i
    BY <1>1a, <1>2, <1>4
  <2>2. QED  BY <2>1, <1>1, <1>4
<1>5. QED  BY <1>1, <1>3, <1>4 DEF Seen, Abstract!InWindow, q

\* Every step of the tracker is a step of the window filter, or a stutter.
LEMMA StepRefines ==
  ASSUME IInv, [Next]_vars
  PROVE  [Abstract!Next]_(Abstract!vars)
<1>1. ASSUME NEW k \in Keys, RecordNew(k) PROVE Abstract!AnswerNew(k)
  BY <1>1, SeenIsInWindow DEF RecordNew, Abstract!AnswerNew
<1>2. ASSUME NEW k \in Keys, RecordSeen(k) PROVE Abstract!AnswerSeen(k)
  BY <1>2, SeenIsInWindow DEF RecordSeen, Abstract!AnswerSeen
<1>3. CASE ClearTracker
  BY <1>3 DEF ClearTracker, Abstract!Next, Abstract!Clear
<1>4. CASE UNCHANGED vars
  BY <1>4 DEF vars, Abstract!vars
<1>5. QED  BY <1>1, <1>2, <1>3, <1>4 DEF Next, Abstract!Next

\* The set-and-deque tracker implements the window filter.
THEOREM TrackerImplementsWindow == Spec => ImplementsWindow
<1>1. Init => Abstract!Init
  BY DEF Init, Abstract!Init
<1>2. IInv /\ [Next]_vars => [Abstract!Next]_(Abstract!vars)
  BY StepRefines
<1>3. QED  BY <1>1, <1>2, TrackerInvariant, PTL DEF Spec, Abstract!Spec, ImplementsWindow

=============================================================================
