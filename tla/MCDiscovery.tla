------------------------------ MODULE MCDiscovery ------------------------------
(* Instances of Discovery: one data session, two ways round to its destination. *)
EXTENDS Discovery

Both(pairs) == pairs \cup {<<p[2], p[1]>> : p \in pairs}

Chain    == Both({<<1, 2>>, <<2, 3>>, <<3, 4>>})
Triangle == Both({<<1, 2>>, <<1, 3>>, <<2, 3>>})

\*   1 - 2
\*   |   |
\*   3 - 4
Ring == Both({<<1, 2>>, <<1, 3>>, <<2, 4>>, <<3, 4>>})

\* The ring with the chord 2 - 3 and a tail 4 - 5.
TailedKite == Ring \cup Both({<<2, 3>>, <<4, 5>>})

Unbounded == -1

Base == [nodes |-> Nodes, inRange |-> {}, heard |-> {}, routes |-> {}, flows |-> {}, lossy |-> TRUE,
         floodCap |-> Unbounded, linkChanges |-> 0, horizon |-> 0, retries |-> 0,
         proactives |-> 0, prompt |-> FALSE, wired |-> FALSE, helloEvery |-> 1]

\* A lossless flood with a cap; two floods of a lossy chain; a proactive ant beside
\* a flood of a ring that knows its neighbours.
Capped    == [Base EXCEPT !.inRange = TailedKite, !.flows = {<<1, 5>>}, !.lossy = FALSE, !.floodCap = 1]
Retried   == [Base EXCEPT !.inRange = Chain, !.flows = {<<1, 4>>}, !.retries = 1]
Proactive == [Base EXCEPT !.inRange = Ring, !.heard = Ring, !.flows = {<<1, 4>>}, !.lossy = FALSE,
                          !.proactives = 1]
MCScenarios == {Capped, Retried, Proactive}

=============================================================================
