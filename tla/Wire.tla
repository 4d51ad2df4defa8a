---------------------------------- MODULE Wire ----------------------------------
(***************************************************************************)
(* What the protocols' messages look like as bytes: the core's ant codec,  *)
(* the AntHeader of the ns-3 adapter that has to produce the same bytes,   *)
(* and the headers of the baselines.                                       *)
(*                                                                         *)
(* A header is described by its layout, a sequence of fields in the order  *)
(* they are written, each with a name, a width in bytes and a form: "le"   *)
(* and "be" are numbers, lowest or highest byte first, "int" a signed "le" *)
(* number, "bits" a byte of flags, here the set of the bits that are on.   *)
(* A double and a float are the number their bytes spell, and a double     *)
(* that goes out as a float is <<f, r>>: the float f nearest to it, and    *)
(* what is left of it, r.  A position of GPSR is in whole metres.          *)
(***************************************************************************)
EXTENDS Integers, Sequences, FiniteSets, SequencesExt, FiniteSetsExt, Functions

CONSTANTS
  MaxVisitedOnWire,   \* kMaxVisitedOnWire
  MaxHistoryOnWire,   \* kMaxHistoryOnWire
  MaxHelloOnWire      \* kMaxHelloOnWire

\* Writer: the w lowest bytes of v, the lowest first.
Bytes(w, v) ==
  LET rest[i \in 0 .. w] == IF i = 0 THEN v ELSE rest[i - 1] \div 256
  IN [i \in 1 .. w |-> rest[i - 1] % 256]

\* Reader: the number the bytes spell, and the signed one.
Spelled(b) == FoldRight(LAMBDA x, acc : 256 * acc + x, b, 0)
Signed(b)  == IF b # << >> /\ Last(b) >= 128 THEN -1 - FoldRight(LAMBDA x, acc : 256 * acc + 255 - x, b, 0) ELSE Spelled(b)

FlagByte(S) == FoldSet(LAMBDA bit, acc : acc + 2 ^ bit, 0, S)
Flags(x)    == {bit \in 0 .. 7 : (x \div 2 ^ bit) % 2 = 1}

Field(name, width, form) == [name |-> name, width |-> width, form |-> form]
Width(layout)     == FoldLeft(LAMBDA acc, f : acc + f.width, 0, layout)
Before(layout, i) == Width(SubSeq(layout, 1, i - 1))

Cell(f, v) == CASE f.form = "be" -> Reverse(Bytes(f.width, v))
                [] f.form = "bits" -> <<FlagByte(v)>>
                [] OTHER -> Bytes(f.width, v)
Put(layout, m) == FlattenSeq([i \in DOMAIN layout |-> Cell(layout[i], m[layout[i].name])])

Part(b, from, width) == SubSeq(b, from + 1, from + width)
Read(f, b) == CASE f.form = "le"  -> Spelled(b)
                [] f.form = "be"  -> Spelled(Reverse(b))
                [] f.form = "int" -> Signed(b)
                [] f.form = "bits" -> Flags(b[1])
Get(layout, b) ==
  [name \in {f.name : f \in Range(layout)} |->
     LET i == CHOOSE j \in DOMAIN layout : layout[j].name = name
     IN Read(layout[i], Part(b, Before(layout, i), layout[i].width))]

Rest(b, used) == SubSeq(b, used + 1, Len(b))

-----------------------------------------------------------------------------
(* Ants: the core's codec *)

WireVersion    == 4
KinematicsTag  == 75
KinematicsSize == 1 + 6 * 4

AntTypes   == {1, 2, 4, 8, 16}     \* AntType: hello, reactive, proactive, repair, link failure
Directions == {17, 18}             \* AntDirection: up, down
Hello == 1

FixedPart == <<Field("type", 1, "le"), Field("dir", 1, "le"), Field("src", 4, "int"), Field("dst", 4, "int"),
               Field("seqNum", 4, "le"), Field("timeStart", 8, "le"), Field("lifeAnt", 8, "le"), Field("budget", 4, "int")>>
Hop    == <<Field("node", 4, "int"), Field("time", 8, "le")>>
Advert == <<Field("node", 4, "int"), Field("pheromone", 8, "le")>>

\* static_cast<float> of a double, and the cast back.
Single(v)  == v[1]
Double(f)  == <<f, 0>>

SerializedSize(m) ==
  1 + Width(FixedPart) + 3 * 2 + Len(m.visited) * Width(Hop) + Len(m.history) * Width(Hop)
    + Len(m.helloDests) * Width(Advert) + (IF m.kinematics = << >> THEN 0 ELSE KinematicsSize)

PutList(layout, s) == Bytes(2, Len(s)) \o FlattenSeq([i \in DOMAIN s |-> Put(layout, s[i])])

\* Mutant of Serialize: the adverts come before the two paths.
SerializeAdvertsFirst(m) ==
  <<WireVersion>> \o Put(FixedPart, m) \o PutList(Advert, m.helloDests) \o PutList(Hop, m.visited) \o PutList(Hop, m.history)
    \o (IF m.kinematics = << >> THEN << >> ELSE <<KinematicsTag>> \o FlattenSeq([i \in 1 .. 6 |-> Bytes(4, Single(m.kinematics[i]))]))

\* codec::serialize; a hello without kinematics has an empty sequence of them.
Serialize(m) ==
  <<WireVersion>> \o Put(FixedPart, m) \o PutList(Hop, m.visited) \o PutList(Hop, m.history) \o PutList(Advert, m.helloDests)
    \o (IF m.kinematics = << >> THEN << >> ELSE <<KinematicsTag>> \o FlattenSeq([i \in 1 .. 6 |-> Bytes(4, Single(m.kinematics[i]))]))

Refused == [ok |-> FALSE, items |-> << >>, left |-> << >>]

\* A list of the frame b: refused when it is longer than max or than the frame.
TakeList(layout, b, max) ==
  LET n == Spelled(Part(b, 0, 2))
      w == Width(layout)
  IN IF Len(b) < 2 \/ n > max \/ Len(b) - 2 < n * w THEN Refused
     ELSE [ok |-> TRUE, left |-> Rest(b, 2 + n * w),
           items |-> [i \in 1 .. n |-> Get(layout, Part(b, 2 + (i - 1) * w, w))]]

\* The six floats of a kinematics section; the exponent of a finite one is not all ones.
Motion(b) == [i \in 1 .. 6 |-> Double(Spelled(Part(b, 1 + 4 * (i - 1), 4)))]
Finite(v) == (Single(v) \div 8388608) % 256 < 255

\* codec::deserialize
Deserialize(b) ==
  LET fixed   == 1 + Width(FixedPart)
      head    == Get(FixedPart, Part(b, 1, Width(FixedPart)))
      visited == TakeList(Hop, Rest(b, fixed), MaxVisitedOnWire)
      history == TakeList(Hop, visited.left, MaxHistoryOnWire)
      adverts == TakeList(Advert, history.left, MaxHelloOnWire)
      tail    == adverts.left
      ok == /\ Len(b) >= fixed
            /\ b[1] = WireVersion /\ b[2] \in AntTypes /\ b[3] \in Directions
            /\ visited.ok /\ history.ok /\ adverts.ok
            /\ tail # << >> => /\ b[2] = Hello
                               /\ Len(tail) = KinematicsSize /\ tail[1] = KinematicsTag
                               /\ \A i \in 1 .. 6 : Finite(Motion(tail)[i])
  IN IF ok THEN [ok |-> TRUE,
                 msg |-> head @@ [visited |-> visited.items, history |-> history.items, helloDests |-> adverts.items,
                                  kinematics |-> IF tail = << >> THEN << >> ELSE Motion(tail)]]
     ELSE Refused

-----------------------------------------------------------------------------
(* Ants: the header of the ns-3 adapter *)

AntHeaderSize(m) ==
  1 + (1 + 1 + 4 + 4 + 4 + 8 + 8 + 4) + (2 + 2 + 2) + (Len(m.visited) + Len(m.history) + Len(m.helloDests)) * (4 + 8)
    + (IF m.kinematics = << >> THEN 0 ELSE KinematicsSize)

Hops(s) == Bytes(2, Len(s)) \o FlattenSeq([i \in DOMAIN s |-> Bytes(4, s[i].node) \o Bytes(8, s[i].time)])

AntHeaderSerialize(m) ==
  Bytes(1, WireVersion) \o Bytes(1, m.type) \o Bytes(1, m.dir) \o Bytes(4, m.src) \o Bytes(4, m.dst) \o Bytes(4, m.seqNum)
    \o Bytes(8, m.timeStart) \o Bytes(8, m.lifeAnt) \o Bytes(4, m.budget) \o Hops(m.visited) \o Hops(m.history)
    \o Bytes(2, Len(m.helloDests))
    \o FlattenSeq([i \in DOMAIN m.helloDests |-> Bytes(4, m.helloDests[i].node) \o Bytes(8, m.helloDests[i].pheromone)])
    \o (IF m.kinematics = << >> THEN << >>
        ELSE Bytes(1, KinematicsTag) \o FlattenSeq([i \in 1 .. 6 |-> Bytes(4, Single(m.kinematics[i]))]))

\* A list of a frame the adapter sent itself: as long as it says.
ReadList(layout, b) == TakeList(layout, b, 65535)

AntHeaderDeserialize(b) ==
  LET visited == ReadList(Hop, Rest(b, 1 + Width(FixedPart)))
      history == ReadList(Hop, visited.left)
      adverts == ReadList(Advert, history.left)
      tail    == adverts.left
  IN Get(FixedPart, Part(b, 1, Width(FixedPart)))
       @@ [visited |-> visited.items, history |-> history.items, helloDests |-> adverts.items,
           kinematics |-> IF Len(tail) >= KinematicsSize /\ tail[1] = KinematicsTag THEN Motion(tail) ELSE << >>]

-----------------------------------------------------------------------------
(* The baselines' headers *)

\* adaptive ControlHeader
Control == <<Field("type", 1, "le"), Field("hops", 1, "le"), Field("ttl", 1, "le"), Field("flags", 1, "le"),
             Field("seq", 4, "be"), Field("origin", 4, "be"), Field("target", 4, "be"), Field("value", 8, "be")>>

\* gpsr HelloHeader, PositionHeader and Position3dHeader
GpsrHello    == <<Field("originPosx", 8, "be"), Field("originPosy", 8, "be")>>
Position     == <<Field("dstPosx", 8, "le"), Field("dstPosy", 8, "le"), Field("updated", 4, "le"), Field("recPosx", 8, "le"),
                  Field("recPosy", 8, "le"), Field("inRec", 1, "le"), Field("lastPosx", 8, "le"), Field("lastPosy", 8, "le")>>
Position3d   == <<Field("dstPosz", 8, "le"), Field("recPosz", 8, "le"), Field("lastPosz", 8, "le"),
                  Field("plane", 1, "le"), Field("planeHops", 1, "le")>>

\* aomdv RreqHeader, RrepHeader and RrepAckHeader
Rreq == <<Field("flags", 1, "bits"), Field("reserved", 1, "le"), Field("hopCount", 1, "le"), Field("requestID", 4, "be"),
          Field("dst", 4, "be"), Field("dstSeqNo", 4, "be"), Field("origin", 4, "be"), Field("originSeqNo", 4, "be"),
          Field("firstHop", 4, "be")>>
Rrep == <<Field("flags", 1, "bits"), Field("prefixSize", 1, "le"), Field("hopCount", 1, "le"), Field("dst", 4, "be"),
          Field("dstSeqNo", 4, "be"), Field("origin", 4, "be"), Field("requestID", 4, "be"), Field("firstHop", 4, "be"),
          Field("lifeTime", 4, "be")>>
RrepAck    == <<Field("reserved", 1, "le")>>

\* The flags of a request and of a reply.
SetBit(h, bit, on) == [h EXCEPT !.flags = IF on THEN @ \cup {bit} ELSE @ \ {bit}]
SetGratuitousRrep(h, on)  == SetBit(h, 5, on)
SetDestinationOnly(h, on) == SetBit(h, 4, on)
SetUnknownSeqno(h, on)    == SetBit(h, 3, on)
SetAckRequired(h, on)     == SetBit(h, 6, on)

\* A reply keeps its lifetime in whole milliseconds; here time is in microseconds.
SetLifeTime(h, t) == [h EXCEPT !.lifeTime = t \div 1000]

\* A hello is a reply about oneself; who it goes through first is left as it was.
SetHello(h, origin, seqNo, t) ==
  SetLifeTime([h EXCEPT !.flags = {}, !.prefixSize = 0, !.hopCount = 0, !.dst = origin, !.dstSeqNo = seqNo,
                        !.origin = origin, !.requestID = 0], t)

\* aomdv RerrHeader: unreachable is a function from destinations to sequence numbers, kept in
\* the order of the addresses.  The count is one byte.
NewRerr == [flags |-> {}, reserved |-> 0, unreachable |-> << >>]
SetNoDelete(h, on) == SetBit(h, 0, on)
AddUnDestination(h, d, seqNo) ==
  IF d \in DOMAIN h.unreachable THEN h ELSE [h EXCEPT !.unreachable = (d :> seqNo) @@ @]
RemoveUnDestination(h) ==
  LET first == Min(DOMAIN h.unreachable)
  IN IF DOMAIN h.unreachable = {} THEN h ELSE [h EXCEPT !.unreachable = [d \in DOMAIN @ \ {first} |-> @[d]]]

Unreachable == <<Field("dst", 4, "be"), Field("seqNo", 4, "be")>>
RerrSize(h) == 3 + 8 * (Cardinality(DOMAIN h.unreachable) % 256)

PutRerr(h) ==
  LET s == SetToSortSeq(DOMAIN h.unreachable, <)
  IN <<FlagByte(h.flags), h.reserved, Len(s) % 256>>
       \o FlattenSeq([i \in DOMAIN s |-> Put(Unreachable, [dst |-> s[i], seqNo |-> h.unreachable[s[i]]])])

GetRerr(b) ==
  LET rows == [i \in 1 .. b[3] |-> Get(Unreachable, Part(b, 3 + 8 * (i - 1), 8))]
  IN [flags |-> Flags(b[1]), reserved |-> b[2],
      unreachable |-> [d \in {rows[i].dst : i \in DOMAIN rows} |->
                         rows[CHOOSE i \in DOMAIN rows : rows[i].dst = d].seqNo]]

-----------------------------------------------------------------------------
(* The baselines' packets *)

\* A packet of AOMDV is its type and one header; a packet of another type is dropped.
AomdvCodes == [rreq |-> 1, rrep |-> 2, rerr |-> 3, ack |-> 4]
AomdvPacket(kind, h) ==
  <<AomdvCodes[kind]>> \o CASE kind = "rreq" -> Put(Rreq, h) [] kind = "rrep" -> Put(Rrep, h)
                            [] kind = "rerr" -> PutRerr(h)   [] kind = "ack"  -> Put(RrepAck, h)

RecvAomdv(b) ==
  LET type == b[1]
      body == Rest(b, 1)
  IN CASE type = 1 -> [kind |-> "rreq", msg |-> Get(Rreq, body)]
       [] type = 2 -> [kind |-> "rrep", msg |-> Get(Rrep, body)]
       [] type = 3 -> [kind |-> "rerr", msg |-> GetRerr(body)]
       [] type = 4 -> [kind |-> "ack",  msg |-> Get(RrepAck, body)]
       [] OTHER -> [kind |-> "none", msg |-> << >>]

\* GPSR's type byte; a packet of another type is not read.
GpsrCodes == [hello |-> 1, position |-> 2]
IsValid(type) == type \in {GpsrCodes.hello, GpsrCodes.position}

\* A GPSR hello: behind the header the sender's role under GPCR, its height in three dimensions.
SendHello(setting, h) ==
  <<GpsrCodes.hello>> \o Put(GpsrHello, h)
       \o (IF setting.gpcr THEN <<h.role>> ELSE << >>) \o (IF setting.threeD THEN Reverse(Bytes(8, h.z)) ELSE << >>)

RecvGPSR(setting, b) ==
  LET payload == Rest(b, 1 + Width(GpsrHello))
      len     == (IF setting.gpcr THEN 1 ELSE 0) + (IF setting.threeD THEN 8 ELSE 0)
      here    == Len(payload) >= len
  IN IF ~ IsValid(b[1]) THEN << >>
     ELSE Get(GpsrHello, Part(b, 1, Width(GpsrHello)))
       @@ [role |-> IF setting.gpcr /\ here THEN (IF payload[1] = 0 THEN 0 ELSE 1) ELSE 0,
           z    |-> IF setting.threeD /\ here THEN Spelled(Reverse(Rest(payload, len - 8))) ELSE 0]

\* A datagram with its position headers beneath the transport header: ports, length and
\* checksum, 8 bytes.  Only UDP is wrapped; another packet travels as it is.
UdpNumber == 17
StripTransport(p, protocol) ==
  IF protocol # UdpNumber \/ Len(p) < 8 THEN [has |-> FALSE, udp |-> << >>, rest |-> p]
  ELSE [has |-> TRUE, udp |-> Part(p, 0, 8), rest |-> Rest(p, 8)]

\* Put back, the transport header has the length of what it is put in front of.
RestoreTransport(p, s) ==
  IF s.has THEN Part(s.udp, 0, 4) \o Reverse(Bytes(2, 8 + Len(p))) \o Part(s.udp, 6, 2) \o p ELSE p

Wrapped(setting, position, position3d, p) ==
  <<GpsrCodes.position>> \o Put(Position, position) \o (IF setting.threeD THEN Put(Position3d, position3d) ELSE << >>) \o p

\* Mutants of Wrap: the headers go in front of the transport header; it keeps its length.
WrapOutside(setting, protocol, position, position3d, p) ==
  IF protocol = UdpNumber THEN Wrapped(setting, position, position3d, p) ELSE p
WrapUnsized(setting, protocol, position, position3d, p) ==
  LET s == StripTransport(p, protocol)
  IN IF s.has THEN s.udp \o Wrapped(setting, position, position3d, s.rest) ELSE p

Wrap(setting, protocol, position, position3d, p) ==
  LET s == StripTransport(p, protocol)
  IN RestoreTransport(IF s.has THEN Wrapped(setting, position, position3d, s.rest) ELSE p, s)

\* The source has the x and y of the destination in a uint16_t before it writes them.
Narrow(position) == [position EXCEPT !.dstPosx = @ % 2 ^ 16, !.dstPosy = @ % 2 ^ 16]
AddHeaders(setting, protocol, position, position3d, p) == Wrap(setting, protocol, Narrow(position), position3d, p)

\* What a node on the way reads: the headers, and the datagram without them.
ReadHeaders(setting, protocol, p) ==
  LET s    == StripTransport(p, protocol)
      body == Rest(s.rest, 1 + Width(Position))
  IN IF ~ s.has THEN [ok |-> FALSE, position |-> << >>, position3d |-> << >>, datagram |-> p]
     ELSE IF Head(s.rest) # GpsrCodes.position THEN [ok |-> FALSE, position |-> << >>, position3d |-> << >>, datagram |-> << >>]
     ELSE [ok |-> TRUE, position |-> Get(Position, Part(s.rest, 1, Width(Position))),
           position3d |-> IF setting.threeD THEN Get(Position3d, Part(body, 0, Width(Position3d))) ELSE << >>,
           datagram |-> RestoreTransport(IF setting.threeD THEN Rest(body, Width(Position3d)) ELSE body, s)]

=============================================================================
