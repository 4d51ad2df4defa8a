-------------------------------- MODULE MCBooks --------------------------------
(* Instances of BenchRun: a flow over a line, or over a diamond. *)
EXTENDS BenchRun

\*       2
\*     /   \
\*   1       4
\*     \   /
\*       3
Line    == {<<1, 2>>, <<2, 4>>}
Diamond == Line \cup {<<1, 3>>, <<3, 4>>}

Base == [arm |-> "olsr", links |-> Diamond, packets |-> 2, cap |-> 0, budget |-> 2]

MCScenarios ==
  {[Base EXCEPT !.arm = a] : a \in {"olsr", "dsdv", "aodv"}}
  \cup {[Base EXCEPT !.arm = "anthocnet", !.links = Line, !.cap = c] : c \in {0, 1}}
  \cup {[Base EXCEPT !.arm = "adaptive", !.links = Line]}
=============================================================================
