------------------------------ MODULE MCBaselines ------------------------------
(* Instances of BaselineNetwork: every arm on the topologies and under the *)
(* disturbances that make its hard cases happen.                           *)
EXTENDS BaselineNetwork

Both(S) == S \cup {<<l[2], l[1]>> : l \in S}
Line3   == Both({<<"a", "b">>, <<"b", "c">>})
Line4   == Line3 \cup Both({<<"c", "d">>})
Diamond == Both({<<"a", "b">>, <<"a", "c">>, <<"b", "d">>, <<"c", "d">>})
Tri     == Line3 \cup Both({<<"a", "c">>})

Calm == [k \in {"loss", "arp", "link", "early", "purge", "fade", "hello", "seed", "overhear", "second", "move", "outage", "address"} |-> 0]
Scene(arm, l, f, p, b) ==
  [arm |-> arm, links |-> l, flaky |-> f, packets |-> p, budget |-> b @@ Calm, mode |-> "none", at |-> <<>>, moves |-> {}]
Field(mode, at, moves, l, f, p, b) ==
  [Scene("gpsr", l, f, p, b) EXCEPT !.mode = mode, !.moves = moves,
                                    !.at = [n \in Nodes |-> LET v == at[n] IN IF Len(v) = 2 THEN v \o <<0>> ELSE v]]

\* a, b and c see each other, d is out of reach: b closest to it, then a, then c.
Metres(at) == [n \in DOMAIN at |-> [i \in DOMAIN at[n] |-> Metre * at[n][i]]]
Void   == Metres([a |-> <<0, 2>>, b |-> <<2, 0>>, c |-> <<0, 0>>, d |-> <<6, 1>>])
Corner == Metres([a |-> <<0, 0>>, b |-> <<2, 0>>, c |-> <<2, 2>>, d |-> <<4, 0>>])
Shell  == Metres([a |-> <<0, 0, 0>>, b |-> <<1, 0, 1>>, c |-> <<0, 1, 2>>, d |-> <<4, 1, 1>>])

\* In half metres: a and b stand within the metre that both are told to stand at the
\* corner of; the void and the shell with nodes between the metres; and a destination whose
\* x, 10 m, the source tells as 2 m.
Close    == [a |-> <<3, 2>>, b |-> <<3, 3>>, c |-> <<9, 9>>, d |-> <<0, 0>>]
HalfVoid == [a |-> <<1, 4>>, b |-> <<5, 0>>, c |-> <<1, 1>>, d |-> <<12, 2>>]
HalfShell == [a |-> <<1, 0, 1>>, b |-> <<2, 1, 2>>, c |-> <<0, 3, 5>>, d |-> <<8, 2, 2>>]
Distant  == Metres([a |-> <<4, 1>>, b |-> <<2, 1>>, c |-> <<3, 3>>, d |-> <<10, 1>>])

GpsrScenarios ==
  {Field("gpsr", Void, {}, Tri, {}, {<<1, "a", "d">>}, [hello |-> 3]),
   Field("gpsr", Void, {<<"d", <<3 * Metre, 0, 0>>>>}, Tri, {<<"b", "d">>}, {<<1, "a", "d">>, <<2, "c", "b">>}, [hello |-> 2, link |-> 1, move |-> 1]),
   Field("gpsr", Corner, {}, Line4, {<<"b", "c">>}, {<<1, "a", "d">>}, [hello |-> 3, link |-> 1, fade |-> 1]),
   Field("tcp", Corner, {}, Line3, {}, {<<1, "a", "c">>}, [hello |-> 2, purge |-> 1, arp |-> 1]),
   Field("greedy", Void, {}, Tri, {}, {<<1, "a", "d">>}, [hello |-> 2, fade |-> 1]),
   Field("gpcr", Corner, {}, Line4, {}, {<<1, "a", "d">>}, [hello |-> 3]),
   Field("3d", Shell, {}, Tri, {}, {<<1, "a", "d">>}, [hello |-> 3]),
   Field("gpsr", Close, {}, Line3, {}, {<<1, "a", "d">>}, [hello |-> 2]),
   Field("gpsr", HalfVoid, {}, Tri, {}, {<<1, "c", "d">>}, [hello |-> 3]),
   Field("3d", HalfShell, {}, Tri, {}, {<<1, "a", "d">>}, [hello |-> 3]),
   Field("gpsr", Distant, {}, Tri, {}, {<<1, "a", "d">>}, [hello |-> 3])}

\* Nodes whose interface goes down or loses its address.
Outages ==
  {Scene("ara", Line3, {}, {<<1, "a", "c">>, <<2, "c", "a">>}, [outage |-> 1]),
   Scene("ara", Line3, {}, {<<1, "a", "c">>}, [outage |-> 1, early |-> 1]),
   Scene("termite", Line3, {}, {<<1, "a", "c">>}, [outage |-> 1, hello |-> 2]),
   Scene("qrouting", Line3, {}, {<<1, "a", "c">>}, [outage |-> 1, hello |-> 2]),
   Scene("beeadhoc", Line3, {}, {<<1, "a", "c">>, <<2, "a", "c">>}, [outage |-> 1]),
   Scene("aomdv", Line3, {}, {<<1, "a", "c">>, <<2, "c", "a">>}, [outage |-> 1]),
   Scene("aomdv", Line3, {}, {<<1, "a", "c">>}, [address |-> 1, second |-> 1]),
   Field("gpsr", Corner, {}, Line3, {}, {<<1, "a", "c">>}, [hello |-> 2, outage |-> 1, address |-> 1])}

MCScenarios ==
  {Scene("ara", Line3, {<<"a", "b">>}, {<<1, "a", "c">>, <<2, "a", "c">>}, [link |-> 2, arp |-> 1]),
   Scene("ara", Line4, {<<"c", "d">>}, {<<1, "a", "d">>}, [link |-> 1, early |-> 2, purge |-> 1]),
   Scene("ara", Tri, {}, {<<1, "a", "c">>, <<2, "a", "c">>}, [fade |-> 1]),
   Scene("ara", Tri, {}, {<<1, "a", "c">>}, [loss |-> 1]),
   Scene("ara", Tri, {<<"a", "c">>}, {<<1, "a", "c">>}, [link |-> 2, fade |-> 1]),
   Scene("termite", Line3, {<<"b", "c">>}, {<<1, "a", "c">>}, [link |-> 1, hello |-> 2, seed |-> 1]),
   Scene("termite", Tri, {}, {<<1, "a", "c">>}, [overhear |-> 1, hello |-> 1, fade |-> 1]),
   Scene("qrouting", Line3, {}, {<<1, "a", "c">>, <<2, "c", "a">>}, [hello |-> 2]),
   Scene("qrouting", Line3, {}, {<<1, "a", "c">>, <<2, "a", "c">>, <<3, "a", "b">>}, [hello |-> 1]),
   Scene("qrouting", Line3, {<<"b", "c">>}, {<<1, "a", "c">>}, [link |-> 2, hello |-> 2, fade |-> 1, purge |-> 1]),
   Scene("beeadhoc", Line3, {}, {<<1, "a", "c">>, <<2, "c", "a">>}, [fade |-> 2]),
   Scene("beeadhoc", Line3, {<<"a", "b">>}, {<<1, "a", "c">>, <<2, "a", "c">>, <<3, "c", "a">>}, <<>>),
   Scene("beeadhoc", Tri, {<<"a", "c">>}, {<<1, "a", "c">>, <<2, "a", "c">>}, [link |-> 1]),
   Scene("aomdv", Line3, {}, {<<1, "a", "c">>, <<2, "c", "a">>}, [second |-> 1, purge |-> 1]),
   Scene("aomdv", Line3, {<<"b", "c">>}, {<<1, "a", "c">>, <<2, "a", "c">>}, [link |-> 1, early |-> 1, second |-> 1]),
   Scene("aomdv", Line3, {<<"a", "b">>}, {<<1, "a", "c">>}, [link |-> 2, arp |-> 1, hello |-> 1]),
   Scene("aomdv", Line4, {<<"c", "d">>}, {<<1, "a", "d">>, <<2, "a", "d">>}, [link |-> 1]),
   Scene("aomdv", Tri, {}, {<<1, "a", "c">>}, [fade |-> 1]),
   Scene("aomdv", Tri, {}, {<<1, "a", "c">>}, [hello |-> 2]),
   Scene("aomdv", Diamond, {}, {<<1, "a", "d">>}, <<>>)} \cup GpsrScenarios \cup Outages
=============================================================================
