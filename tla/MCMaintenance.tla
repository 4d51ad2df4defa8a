----------------------------- MODULE MCMaintenance -----------------------------
(* Instances of Maintenance. *)
EXTENDS Maintenance

Both(pairs) == pairs \cup {<<p[2], p[1]>> : p \in pairs}

Pair     == Both({<<1, 2>>})
Line     == Both({<<1, 2>>, <<2, 3>>})
Triangle == Both({<<1, 2>>, <<1, 3>>, <<2, 3>>})

Base == [nodes |-> Nodes, inRange |-> {}, heard |-> {}, routes |-> {}, flows |-> {<<1, 3>>},
         lossy |-> FALSE, floodCap |-> -1, linkChanges |-> 1, horizon |-> 2,
         retries |-> 0, proactives |-> 0, prompt |-> TRUE, wired |-> FALSE, helloEvery |-> 1]

\* A pair whose link flaps while frames cross any number of ticks, once more often or for one
\* unit of time longer; a line where 1 has learned the route to 3.
Flapping == [Base EXCEPT !.nodes = {1, 2}, !.inRange = Pair, !.heard = Pair, !.flows = {<<1, 2>>},
                         !.linkChanges = 3, !.prompt = FALSE]
Lasting  == [Flapping EXCEPT !.linkChanges = 2, !.horizon = 3]
Broken   == [Base EXCEPT !.inRange = Line, !.heard = Line, !.routes = {<<1, 3, 2, 2>>}]

\* A cable that is cut and mended; every other hello is left out.
Cable == [Base EXCEPT !.nodes = {1, 2}, !.inRange = Pair, !.heard = Pair, !.flows = {<<1, 2>>},
                      !.linkChanges = 2, !.horizon = 3, !.prompt = FALSE, !.wired = TRUE, !.helloEvery = 2]

MCScenarios == {Flapping, Lasting, Broken, Cable}

\* A pair, and a cable, that time never ends for.
LivePair == {[Base EXCEPT !.nodes = {1, 2}, !.inRange = Pair, !.flows = {<<1, 2>>},
                          !.horizon = 0, !.prompt = FALSE],
             [Cable EXCEPT !.heard = {}, !.linkChanges = 1, !.horizon = 0]}

\* 1 and 2 reach 3 directly and through each other.
BrokenTriangle == {[Base EXCEPT !.inRange = Triangle, !.heard = Triangle,
                                !.routes = {<<1, 3, 2, 2>>, <<2, 3, 1, 2>>},
                                !.linkChanges = 2, !.horizon = 3]}
=============================================================================
