-------------------------------- MODULE MCDemo --------------------------------
(* Instances of Demo: three nodes in each kind of world. *)
EXTENDS Demo

Static(p) == [kind |-> "static", p |-> p, way |-> << >>, at |-> 1, dir |-> 0, paused |-> FALSE, pauses |-> FALSE]
Moving(kind, p) == [Static(p) EXCEPT !.kind = kind]
Along(kind, way) == [Static(way[1]) EXCEPT !.kind = kind, !.way = way]

Field == [channel |-> "disk", range |-> 12, blocks |-> <<2, 2>>, block |-> 10, street |-> 2,
          field |-> {<<0, 0, 0>>, <<20, 0, 0>>}, headings |-> {<<6, 0, 0>>, <<0, -6, 0>>}, walls |-> <<20, 20, 0>>,
          centre |-> <<10, 10, 0>>, devices |-> <<-1, -1, -1>>, ground |-> <<200, 200, 200>>,
          sats |-> {}, zones |-> {}, jams |-> {}]

Line == <<Static(<<0, 0, 0>>), Static(<<10, 0, 0>>), Static(<<20, 0, 0>>)>>
Both(pairs) == pairs \cup {<<p[2], p[1]>> : p \in pairs}

Base == [world |-> Field, mobility |-> Line, isl |-> {}, heard |-> {}, off |-> {}, charge |-> <<Mains, Mains, Mains>>,
         flows |-> <<[src |-> 1, dst |-> 3, packets |-> 1]>>, lossy |-> FALSE, horizon |-> 1, hellos |-> {2},
         retries |-> 0, proactives |-> 0, shaky |-> {}, drops |-> {},
         user |-> [switch |-> 0, cut |-> 0, drag |-> 0]]

Near12 == Both({<<1, 2>>, <<2, 3>>})

\* A relay is switched off and on between the packets of a flow.
Switched == [Base EXCEPT !.heard = Near12, !.shaky = {2}, !.user.switch = 2, !.retries = 1,
                         !.flows[1].packets = 2]

\* The relay's battery is nearly empty.
Drained == [Base EXCEPT !.charge = <<Mains, 4, Mains>>, !.retries = 1, !.heard = Near12, !.flows[1].packets = 2]

\* The source's battery is nearly empty when the receiver it knows is out of reach.
Failing == [Base EXCEPT !.charge = <<3, Mains, Mains>>, !.heard = Near12 \cup {<<1, 3>>}, !.hellos = {}, !.retries = 1,
                        !.horizon = 2]

\* The source is switched off and on between a failure and its report.
Abandoned == [Failing EXCEPT !.charge = Base.charge, !.shaky = {1}, !.user.switch = 2, !.horizon = 1]

\* The destination comes near, is heard, and is dragged away before the packet held for it leaves.
Leaving == [Base EXCEPT !.mobility[2] = Moving("waypoint", <<20, 0, 0>>), !.flows[1].dst = 2, !.retries = 1, !.horizon = 2,
                        !.drops = {<<40, 0, 0>>}, !.user.drag = 1]

\* More packets than the queue takes, for a destination nobody hears of.
Flooded == [Base EXCEPT !.off = {3}, !.flows[1].packets = 3, !.retries = 1, !.horizon = 3]

\* Two houses in a row and a car: what it hears changes at every corner.
Town == [Base EXCEPT !.horizon = 2, !.world.channel = "urban", !.world.range = 15, !.mobility[3] = Moving("manhattan", <<12, 1, 0>>), !.heard = Near12,
                     !.mobility[2].p = <<10, 10, 0>>, !.retries = 1, !.hellos = {2, 3}]

\* Two satellites, their link and a station.
Sky == [Base EXCEPT !.horizon = 2, !.world.channel = "isl", !.world.ground = <<10, 200, 200>>, !.world.sats = {2, 3},
                    !.mobility = <<Static(<<30, 10, 0>>), Along("orbit", <<<<40, 10, 0>>, <<10, 40, 0>>>>),
                                   Along("orbit", <<<<10, 40, 0>>, <<40, 10, 0>>>>)>>,
                    !.isl = {{2, 3}}, !.user.cut = 1, !.retries = 1, !.heard = Near12]

\* A station, its satellite and a device under a jammed and a dulled part of the field.
Mixed == [Sky EXCEPT !.horizon = 2, !.world.channel = "mixed", !.world.sats = {2},
                     !.mobility[3] = Along("route", <<<<34, 10, 0>>, <<34, 20, 0>>>>),
                     !.world.zones = {[xy |-> <<<<32, 0>>, <<40, 0>>, <<40, 15>>, <<32, 15>>>>, top |-> 5, factor |-> 50]},
                     !.world.jams = {[xy |-> <<<<31, 5>>, <<33, 5>>, <<33, 15>>, <<31, 15>>>>, v |-> <<0, 3>>,
                                      from |-> 1, until |-> 2]}]

\* A node that wanders and rests, one with a short reach that drifts between the walls, one that is
\* dragged.
Roaming == [Base EXCEPT !.horizon = 2, !.world.devices = <<-1, -1, 9>>,
                        !.mobility = <<Static(<<0, 0, 0>>), [Moving("waypoint", <<10, 0, 0>>) EXCEPT !.pauses = TRUE],
                                       Moving("markov", <<18, 0, 0>>)>>,
                        !.heard = Near12, !.drops = {<<8, 0, 0>>}, !.user.drag = 1]

\* Transmissions get lost.
Lossy == [Base EXCEPT !.lossy = TRUE, !.heard = Near12, !.horizon = 0]

\* Ants probe a flow's routes.
Probing == [Base EXCEPT !.heard = Near12, !.proactives = 1]

MCScenarios == {Switched, Drained, Failing, Abandoned, Leaving, Flooded, Town, Sky, Mixed, Roaming, Lossy, Probing}
=============================================================================
