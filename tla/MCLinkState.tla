------------------------------ MODULE MCLinkState ------------------------------
(***************************************************************************)
(* Instances of LinkState.  The shell is leo-walker's smallest, two planes *)
(* of three satellites, at 8000 km and 53 degrees with phasing 1; NewYork  *)
(* and London are its stations.  The phases are 300, 4200 and 6000 s into  *)
(* the orbits: London's satellite 0 is overtaken by 3 while it is still in *)
(* sight, then 3 sets for both and only London sees another.               *)
(***************************************************************************)
EXTENDS LinkState

Sats     == 0 .. 5
NewYork  == 10
London   == 11
Stations == {NewYork, London}

\* Degrees above the horizon at NewYork and London; distances in 100 km, the stations last.
ElevTable ==
  <<<<<<-12, -27, -32, 29, -18, -72>>, <<19, -17, -66, -8, 7, -69>>>>,
    <<<<-16, -44, -10, 35, -71, -21>>, <<25, -70, -18, 28, -47, -37>>>>,
    <<<<-31, -41, 5, -2, -85, 10>>, <<-8, -77, 15, 5, -59, -14>>>>>>
FarTable ==
  <<<<<<0, 249, 249, 238, 25, 258, 143, 110>>,
      <<249, 0, 249, 152, 258, 185, 161, 149>>,
      <<249, 249, 0, 210, 238, 152, 167, 200>>,
      <<238, 152, 210, 0, 249, 249, 102, 138>>,
      <<25, 258, 238, 249, 0, 249, 150, 121>>,
      <<258, 185, 152, 249, 249, 0, 203, 201>>,
      <<143, 161, 167, 102, 150, 203, 0, 54>>,
      <<110, 149, 200, 138, 121, 201, 54, 0>>>>,
    <<<<0, 249, 249, 185, 229, 193, 148, 104>>,
      <<249, 0, 249, 274, 193, 108, 181, 202>>,
      <<249, 249, 0, 121, 185, 274, 140, 150>>,
      <<185, 274, 121, 0, 249, 249, 97, 103>>,
      <<229, 193, 185, 249, 0, 249, 202, 184>>,
      <<193, 108, 274, 249, 249, 0, 154, 173>>,
      <<148, 181, 140, 97, 202, 154, 0, 54>>,
      <<104, 202, 150, 103, 184, 173, 54, 0>>>>,
    <<<<0, 249, 249, 258, 186, 152, 166, 138>>,
      <<249, 0, 249, 239, 152, 210, 177, 205>>,
      <<249, 249, 0, 24, 258, 239, 124, 114>>,
      <<258, 239, 24, 0, 249, 249, 132, 124>>,
      <<186, 152, 258, 249, 0, 249, 207, 194>>,
      <<152, 210, 239, 249, 249, 0, 118, 145>>,
      <<166, 177, 124, 132, 207, 118, 0, 54>>,
      <<138, 205, 114, 124, 194, 145, 54, 0>>>>>>

\* The HAPS of a city, numbered from 10 * city, are seen and are as far as the city is.
CityOf(n) == IF n >= 100 THEN n \div 10 ELSE n
Row(n)    == IF n \in Sats THEN n + 1 ELSE CityOf(n) - NewYork + 7

Elevation(access) == [t \in 1 .. 3 |-> [g \in access |-> [s \in Sats |-> ElevTable[t][Row(g) - 6][s + 1]]]]
Distance(nodes)   == [t \in 1 .. 3 |-> [a \in nodes |-> [b \in nodes |-> FarTable[t][Row(a)][Row(b)]]]]

Numbered(links) == {[ch |-> i, a |-> links[i][1], b |-> links[i][2]] : i \in DOMAIN links}
Shell           == Numbered(ShellLinks(2, 3, 1, <<>>))

Base ==
  [sats |-> Sats, ground |-> Stations, access |-> Stations, city |-> [g \in Stations |-> g],
   isls |-> Shell, air |-> {}, elev |-> Elevation(Stations), minElev |-> 15,
   far |-> Distance(Sats \cup Stations), unit |-> 200, arm |-> "opspf",
   shaky |-> {}, flips |-> 0, victims |-> {}, breaks |-> {}, phases |-> 1, sends |-> 1,
   flow |-> <<London, NewYork>>, hops |-> 3]

\* A link that fails twice and is repaired under floods; one that fails while the stations hand
\* over; a storm with a failure about it.
Flapping == [Base EXCEPT !.shaky = {5}, !.flips = 2, !.sends = 2]
Moving   == [Base EXCEPT !.shaky = {2, 5}, !.flips = 1, !.phases = 3, !.sends = 0]
Storm    == [Base EXCEPT !.shaky = {6}, !.flips = 1, !.victims = {0, 3}, !.phases = 2, !.sends = 0]

\* The oracles on the same shell.
Oracle      == [Base EXCEPT !.arm = "oracle", !.shaky = {2, 5}, !.flips = 2, !.phases = 3]
OracleDelay == [Base EXCEPT !.arm = "oracle-delay", !.unit = 100, !.shaky = {2}, !.flips = 1, !.phases = 3]

\* Two HAPS above each station, linked to it and to each other.
Haps == {100, 101, 110, 111}
Air  == Numbered(<<<<NewYork, 100>>, <<NewYork, 101>>, <<100, 101>>,
                   <<London, 110>>, <<London, 111>>, <<110, 111>>>>)
Sky  == [Base EXCEPT !.access = Haps, !.city = [g \in Haps |-> CityOf(g)],
                     !.air = {[l EXCEPT !.ch = @ + 100] : l \in Air},
                     !.elev = Elevation(Haps), !.far = Distance(Sats \cup Stations \cup Haps),
                     !.arm = "geo-greedy", !.shaky = {2}, !.flips = 1,
                     !.victims = {3}, !.phases = 3]

\* isl-grid: an open end of a torus with a removed link, and the scripted break of another.
GridSats == 0 .. 5
Grid == [Base EXCEPT !.sats = GridSats, !.ground = {}, !.access = {}, !.city = <<>>,
                     !.isls = Numbered(RemoveIsls(GridLinks(2, 3, TRUE), {{0, 1}})),
                     !.elev = Elevation({}), !.far = Distance(GridSats),
                     !.arm = "oracle", !.breaks = {1, 3}, !.flow = <<0, 4>>, !.sends = 2]

MCPlans == {Flapping, Moving, Storm, Oracle, OracleDelay, Sky, Grid}

\* Every grid of up to four rows and columns is the one it is said to be.
ASSUME GridsAreRight ==
  /\ \A r, c \in 1 .. 4 : \A torus \in BOOLEAN : CheckTopology(r, c, torus)
  /\ RemovedAreBuilt(GridLinks(2, 3, TRUE), {{0, 1}})
=============================================================================
