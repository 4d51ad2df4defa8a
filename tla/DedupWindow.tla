------------------------------ MODULE DedupWindow ------------------------------
(***************************************************************************)
(* What a duplicate filter promises, with no data structure at all: a key  *)
(* is new unless it is one of the last Window keys that were answered new  *)
(* (of all of them when Window = 0).                                       *)
(***************************************************************************)
EXTENDS Integers, Sequences

CONSTANTS Keys, Window

VARIABLES
  log,      \* the keys answered new since the last clear, oldest first
  verdict   \* the last answer given to a caller

WindowStart == IF Window # 0 /\ Len(log) > Window THEN Len(log) - Window + 1 ELSE 1
InWindow(k) == \E i \in WindowStart .. Len(log) : log[i] = k

NoVerdict == [asked |-> FALSE]
Verdict(k, new) == [asked |-> TRUE, key |-> k, isNew |-> new]

Init == log = <<>> /\ verdict = NoVerdict

AnswerNew(k) ==
  /\ ~ InWindow(k)
  /\ log' = Append(log, k)
  /\ verdict' = Verdict(k, TRUE)

AnswerSeen(k) ==
  /\ InWindow(k)
  /\ verdict' = Verdict(k, FALSE)
  /\ UNCHANGED log

Clear == log' = <<>> /\ verdict' = NoVerdict

Next == Clear \/ \E k \in Keys : AnswerNew(k) \/ AnswerSeen(k)

vars == <<log, verdict>>
Spec == Init /\ [][Next]_vars

=============================================================================
