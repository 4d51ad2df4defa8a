-------------------------------- MODULE Trailers --------------------------------
(***************************************************************************)
(* What the protocols hang on a data packet: BeeAdHoc's route trailer,     *)
(* which is read from the end of the packet, and the tags that stay beside *)
(* the bytes; and BeeAdHoc's scouts and swarms, whose header is made of    *)
(* lists.                                                                  *)
(***************************************************************************)
EXTENDS Wire

Address == <<Field("node", 4, "be")>>
PutAddresses(path)   == FlattenSeq([i \in DOMAIN path |-> Put(Address, [node |-> path[i]])])
GetAddresses(b)      == [i \in 1 .. Len(b) \div 4 |-> Get(Address, Part(b, 4 * (i - 1), 4)).node]

\* A number of 24 bits.
WriteU24(v) == Reverse(Bytes(3, v))
ReadU24(b)  == Spelled(Reverse(b))

-----------------------------------------------------------------------------
(* The info field: the 3-bit values of at most eight nodes of a route *)

InfoSlots == 8
InfoSpan  == 8 ^ InfoSlots

\* A node writes its value; the oldest of nine goes.
Noted(info, level) == ((8 * info) + (level % 8)) % InfoSpan

EncodeLevels(levels) == FoldLeft(Noted, 0, levels)

\* Mutant of DecodeLevels: the values come in the order they were written.
DecodeLevelsInOrder(info, hops) ==
  LET n == Min({IF hops > 0 THEN hops - 1 ELSE 0, InfoSlots})
  IN [k \in 1 .. n |-> (info \div 8 ^ (n - k)) % 8]

\* The values of a route of that many links, the last one written first.
DecodeLevels(info, hops) ==
  [k \in 1 .. Min({IF hops > 0 THEN hops - 1 ELSE 0, InfoSlots}) |-> (info \div 8 ^ (k - 1)) % 8]

-----------------------------------------------------------------------------
(* BeeRouteTrailer *)

TrailerSize(t) == 4 * Len(t.path) + 3 + 4 * Len(t.piggy) + 3 + 2

PutTrailer(t) ==
  PutAddresses(t.path) \o WriteU24(t.info) \o PutAddresses(t.piggy) \o WriteU24(t.piggyInfo)
    \o <<Len(t.piggy) % 256, Len(t.path) % 256>>

\* The trailer at the end of the packet b, and the packet without it.
RemoveTrailer(b) ==
  LET n    == Last(b)
      m    == b[Len(b) - 1]
      size == 4 * n + 3 + 4 * m + 3 + 2
      t    == Part(b, Len(b) - size, size)
  IN [trailer |-> [path      |-> GetAddresses(Part(t, 0, 4 * n)),
                   info      |-> ReadU24(Part(t, 4 * n, 3)),
                   piggy     |-> GetAddresses(Part(t, 4 * n + 3, 4 * m)),
                   piggyInfo |-> ReadU24(Part(t, 4 * n + 3 + 4 * m, 3))],
      packet  |-> Part(b, 0, Len(b) - size)]

-----------------------------------------------------------------------------
(* BeeControlHeader *)

Scout == <<Field("type", 1, "le"), Field("ttl", 1, "le"), Field("id", 4, "be"), Field("src", 4, "be"), Field("dst", 4, "be")>>

PutBee(path, levels) == <<Len(path) % 256>> \o PutAddresses(path) \o <<Len(levels) % 256>> \o levels

PutControl(h) ==
  Put(Scout, h) \o PutBee(h.path, h.levels) \o <<Len(h.cargo) % 256>>
    \o FlattenSeq([i \in DOMAIN h.cargo |-> PutBee(h.cargo[i].path, h.cargo[i].levels)])

ControlSize(h) ==
  FoldLeft(LAMBDA acc, c : acc + 1 + 4 * Len(c.path) + 1 + Len(c.levels),
           1 + 1 + 4 + 4 + 4 + 1 + 4 * Len(h.path) + 1 + Len(h.levels) + 1, h.cargo)

\* A path and its values at the front of b.
TakeBee(b) ==
  LET n    == b[1]
      rest == Rest(b, 1 + 4 * n)
  IN [bee  |-> [path |-> GetAddresses(Part(b, 1, 4 * n)), levels |-> Part(rest, 1, rest[1])],
      left |-> Rest(rest, 1 + rest[1])]

GetControl(b) ==
  LET own  == TakeBee(Rest(b, Width(Scout)))
      next == [bees |-> << >>, left |-> Rest(own.left, 1)]
      all  == FoldLeft(LAMBDA acc, i : LET t == TakeBee(acc.left) IN [bees |-> Append(acc.bees, t.bee), left |-> t.left],
                       next, [i \in 1 .. own.left[1] |-> i])
  IN Get(Scout, Part(b, 0, Width(Scout))) @@ own.bee @@ [cargo |-> all.bees]

-----------------------------------------------------------------------------
(* Tags: numbers the simulator keeps beside the bytes, in the machine's order *)

PrevHopTag       == <<Field("addr", 4, "le"), Field("upstream", 4, "le"), Field("next", 4, "le")>>
ReinjCountTag    == <<Field("count", 2, "le")>>
AomdvDeferredTag == <<Field("oif", 4, "int")>>
GpsrDeferredTag  == <<Field("isCallFromL3", 4, "le")>>

NoTag == << >>

\* ForwardData's tags: who sends, who it had the packet from, and to whom.  A packet that
\* carries this node's own tag was held here or came back from the MAC.
Forwarded(tags, me, next, backtrack) ==
  LET old == Get(PrevHopTag, tags.prevHop)
  IN [tags EXCEPT
        !.prevHop = Put(PrevHopTag, [addr |-> me, next |-> next,
                                     upstream |-> CASE tags.prevHop = NoTag -> 0
                                                    [] tags.prevHop # NoTag /\ old.addr = me -> old.upstream
                                                    [] OTHER -> old.addr]),
        !.backtrack = backtrack]

\* A data packet recovered from the MAC is counted, and not recovered once too often.
Reinjections(tags) == IF tags.count = NoTag THEN 0 ELSE Get(ReinjCountTag, tags.count).count
Reinjected(tags)   == [tags EXCEPT !.count = Put(ReinjCountTag, [count |-> Reinjections(tags) + 1])]
=============================================================================
