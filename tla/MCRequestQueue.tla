---------------------------- MODULE MCRequestQueue ----------------------------
(* Three packets, two of them for one destination, in a queue of two. *)
EXTENDS RequestQueue

CONSTANTS p1, p2, p3, d1, d2

ThreePackets == {p1, p2, p3}
Destination == [p \in ThreePackets |-> IF p = p3 THEN d2 ELSE d1]
AllCapped == [r \in {"setup", "reconv", "repair"} |-> IF r = "setup" THEN 0 ELSE 2]
=============================================================================
