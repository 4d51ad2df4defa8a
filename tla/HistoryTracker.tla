---------------------------- MODULE HistoryTracker ----------------------------
(***************************************************************************)
(* AntHistoryTracker (core/src/ant_history.cpp) as a state machine: the    *)
(* (src, seq) filter every backward, hello, link-failure, proactive and    *)
(* repair ant passes.  Its callers may ask about any key in any order.     *)
(* MaxLog bounds the keys recorded between two clears.                     *)
(***************************************************************************)
EXTENDS AntHistory

CONSTANTS Keys, MaxLog

ASSUME LogAssumption == MaxLog \in Nat

VARIABLES
  tracker,   \* entries_ and insertionOrder_
  log,       \* history variable: the keys record() answered new, since clear()
  verdict    \* what the last record() returned, and for which key

vars == <<tracker, log, verdict>>

Abstract == INSTANCE DedupWindow WITH Window <- MaxHistory

Init ==
  /\ tracker = EmptyHistory
  /\ log = <<>>
  /\ verdict = Abstract!NoVerdict

\* record() on a key that is not in the set: inserted, oldest evicted.
RecordNew(k) ==
  /\ ~ Seen(tracker, k)
  /\ Len(log) < MaxLog
  /\ tracker' = Record(tracker, k)
  /\ log' = Append(log, k)
  /\ verdict' = Abstract!Verdict(k, TRUE)

\* record() on a key of the set returns false and changes nothing.
RecordSeen(k) ==
  /\ Seen(tracker, k)
  /\ verdict' = Abstract!Verdict(k, FALSE)
  /\ UNCHANGED <<tracker, log>>

ClearTracker ==
  /\ tracker' = EmptyHistory
  /\ log' = <<>>
  /\ verdict' = Abstract!NoVerdict

Next == ClearTracker \/ \E k \in Keys : RecordNew(k) \/ RecordSeen(k)

Spec == Init /\ [][Next]_vars

-----------------------------------------------------------------------------
\* The types, and the cap on what the tracker keeps (the while loop of record()).
TypeOK ==
  /\ tracker.entries \subseteq Keys
  /\ tracker.order \in Seq(Keys)
  /\ MaxHistory # 0 => Len(tracker.order) <= MaxHistory
  /\ log \in Seq(Keys)

\* The set that is tested and the deque that decides what to evict never drift
\* apart, and the deque holds no key twice: what insert, push_back, erase and
\* pop_front must keep true together.
WindowAgrees ==
  LET q == tracker.order
  IN /\ tracker.entries = {q[i] : i \in 1 .. Len(q)}
     /\ \A i, j \in 1 .. Len(q) : q[i] = q[j] => i = j

\* A (src, seq) is processed a second time only after more than MaxHistory other
\* ants were; with an unbounded history, never (record() returning true).
NoEarlyRepeat ==
  \A i, j \in 1 .. Len(log) :
    i < j /\ log[i] = log[j] => MaxHistory # 0 /\ j - i > MaxHistory

\* The tracker implements the window filter: it forgets a key exactly when the
\* window has moved past it, and never refuses a key outside the window.
ImplementsWindow == Abstract!Spec

=============================================================================
