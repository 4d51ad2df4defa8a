--------------------------------- MODULE Frames ---------------------------------
(***************************************************************************)
(* One message on its way: a node writes it, the next one reads it off the *)
(* wire, changes what its protocol changes in it and writes it again.  The *)
(* message is at its "writer", on the "wire", or at its "reader".  An ant  *)
(* may have lost its end on the way (cut bytes of it).                     *)
(***************************************************************************)
EXTENDS Trailers

CONSTANTS
  MaxPathLength,   \* Config::maxPathLength
  MaxAdverts,      \* Config::maxHelloAdverts
  Here,            \* addresses a node puts into a message
  Hosts,           \* the nodes a tagged packet travels between
  Stamps,          \* numbers it puts there: times, pheromones, sequence numbers
  Motions,         \* kinematics of a hello's sender
  Payloads,        \* datagrams, transport header included
  Routes,          \* source routes of a BeeAdHoc packet
  Levels,          \* values a node writes for its hop
  MaxReinject,     \* MaxReinjectPerPacket
  MostLost,        \* bound of the instance: destinations lost at once
  MostSent         \* bound of the instance: transmissions of a tagged packet

VARIABLES
  kind, setting,
  msg,     \* what was written
  at,      \* where it is
  frame,   \* its bytes, on the wire
  got,     \* what was read
  cut

vars == <<kind, setting, msg, at, frame, got, cut>>

Reactive == 2
LinkFail == 16
Up   == 17
Down == 18

Settings == [gpcr : BOOLEAN, threeD : BOOLEAN]
Plain    == [gpcr |-> FALSE, threeD |-> FALSE]

NoPosition(setting3d) == IF setting3d THEN [n \in {"dstPosz", "recPosz", "lastPosz", "plane", "planeHops"} |-> 0] ELSE << >>
Whereabouts(x, y, u)  == [dstPosx |-> x, dstPosy |-> y, updated |-> u, recPosx |-> 0, recPosy |-> 0, inRec |-> 0,
                          lastPosx |-> x, lastPosy |-> y]

-----------------------------------------------------------------------------
(* A message as it is first sent *)

NewMessage(type, self, dst, stamp) ==
  [type |-> type, dir |-> Up, src |-> self, dst |-> dst, seqNum |-> stamp, timeStart |-> stamp, lifeAnt |-> 0,
   budget |-> -1, visited |-> << >>, history |-> << >>, helloDests |-> << >>, kinematics |-> << >>]

\* The fields of a baseline's header, all of them different.
Sent(layout) == [name \in {f.name : f \in Range(layout)} |->
                   LET i == CHOOSE j \in DOMAIN layout : layout[j].name = name
                   IN IF layout[i].form = "bits" THEN {} ELSE IF layout[i].width = 1 THEN i ELSE 65536 * i + 258]

\* An error message with the destinations of f added, and one emptied.
Naming(h, f) == FoldSet(LAMBDA d, acc : AddUnDestination(acc, d, f[d]), h, DOMAIN f)
Emptied(h)   == FoldSet(LAMBDA d, acc : RemoveUnDestination(acc), h, DOMAIN h.unreachable)

\* A hello names as many destinations as its sender is allowed, a note all that it lost.
Adverts(n) == {[i \in 1 .. k |-> [node |-> d, pheromone |-> x]] : k \in 0 .. n, d \in Here, x \in Stamps}
Hellos == {[NewMessage(Hello, n, -1, x) EXCEPT !.helloDests = a, !.kinematics = k] :
             n \in Here, x \in Stamps, a \in Adverts(Min({MaxAdverts, MaxHelloOnWire})), k \in Motions \cup {<< >>}}
Notes  == {[NewMessage(LinkFail, n, -1, x) EXCEPT !.budget = 2, !.helloDests = a] : n \in Here, x \in Stamps, a \in Adverts(MostLost) \ {<< >>}}

\* A packet that BeeAdHoc routes, its levels as they were reported; a forager may travel home
\* on it with the levels it has.
BeePackets ==
  {[path |-> r, info |-> 0, piggy |-> b.path, piggyInfo |-> EncodeLevels(b.levels), payload |-> p, reported |-> << >>, home |-> b.levels] :
     r \in Routes, p \in Payloads,
     b \in {[path |-> << >>, levels |-> << >>]}
             \cup {[path |-> q, levels |-> [i \in 1 .. Min({Len(q) - 2, InfoSlots}) |-> (3 * i) % 8]] : q \in Routes}}

Scouts == {[type |-> 1, ttl |-> 10, id |-> x, src |-> r[1], dst |-> Last(r), path |-> <<r[1]>>, levels |-> << >>, cargo |-> << >>] :
             x \in Stamps, r \in Routes}
Swarms == {[type |-> 3, ttl |-> 0, id |-> 0, src |-> r[1], dst |-> Last(r), path |-> r, levels |-> << >>,
            cargo |-> [i \in 1 .. n |-> [path |-> r, levels |-> [j \in 1 .. Len(r) - 2 |-> (i + j) % 8]]]] : r \in Routes, n \in 1 .. 3}

Untagged == [prevHop |-> NoTag, backtrack |-> FALSE, count |-> NoTag]

Starts(k, s) ==
  CASE k = "ant"      -> {NewMessage(Reactive, n, -1, x) : n \in Here, x \in Stamps} \cup Hellos \cup Notes
    [] k = "control"  -> {Sent(Control)}
    [] k = "hello"    -> {[originPosx |-> x, originPosy |-> 7, role |-> r, z |-> IF s.threeD THEN x + 1 ELSE 0] :
                            x \in Stamps, r \in IF s.gpcr THEN {0, 1} ELSE {0}}
    [] k = "datagram" -> {[by |-> "source", protocol |-> p, payload |-> b, position |-> Whereabouts(x, 9, x), position3d |-> NoPosition(s.threeD)] :
                            p \in {1, UdpNumber}, b \in Payloads, x \in Stamps}
    [] k = "rreq"     -> {SetGratuitousRrep(SetDestinationOnly(SetUnknownSeqno(Sent(Rreq), u), d), g) : u, d, g \in BOOLEAN}
    [] k = "rrep"     -> {SetLifeTime(SetAckRequired(Sent(Rrep), a), x) : a \in BOOLEAN, x \in Stamps}
                           \cup {SetHello(Sent(Rrep), 5, x, x) : x \in Stamps}
    [] k = "rerr"     -> {SetNoDelete(Naming(NewRerr, [d \in S |-> 65536 * d + 258]), b) : S \in SUBSET (1 .. MostLost) \ {{}}, b \in BOOLEAN}
    [] k = "ack"      -> {Sent(RrepAck)}
    [] k = "bee"      -> BeePackets
    [] k = "beecontrol" -> Scouts \cup Swarms
    [] k = "tagged"   -> {[tags |-> Untagged, sent |-> << >>, recovered |-> 0]}
    [] k = "aomdvdeferred" -> {[oif |-> i] : i \in {-1, 1, 258}}
    [] k = "gpsrdeferred"  -> {[isCallFromL3 |-> c] : c \in {0, 1}}

Kinds == {"ant", "control", "hello", "datagram", "rreq", "rrep", "rerr", "ack", "bee", "beecontrol", "tagged",
          "aomdvdeferred", "gpsrdeferred"}

Init ==
  /\ kind \in Kinds
  /\ setting \in IF kind \in {"hello", "datagram"} THEN Settings ELSE {Plain}
  /\ msg \in Starts(kind, setting)
  /\ at = "writer" /\ frame = << >> /\ got = << >> /\ cut = 0

-----------------------------------------------------------------------------
(* The packets *)

\* The transport header of a GPSR hello, and the position headers every broadcast gets.
Broadcast(s, b) ==
  AddHeaders(s, UdpNumber, Whereabouts(0, 0, 0), NoPosition(s.threeD), RestoreTransport(b, [has |-> TRUE, udp |-> [i \in 1 .. 8 |-> i]]))

Packet(k, s, m) ==
  CASE k = "ant"      -> AntHeaderSerialize(m)
    [] k = "control"  -> Put(Control, m)
    [] k = "hello"    -> Broadcast(s, SendHello(s, m))
    [] k = "datagram" -> IF m.by = "source" THEN AddHeaders(s, m.protocol, m.position, m.position3d, m.payload)
                         ELSE Wrap(s, m.protocol, m.position, m.position3d, m.payload)
    [] k = "bee"      -> m.payload \o PutTrailer(m)
    [] k = "beecontrol" -> PutControl(m)
    [] k = "tagged"   -> m.tags.prevHop
    [] k = "aomdvdeferred" -> Put(AomdvDeferredTag, m)
    [] k = "gpsrdeferred"  -> Put(GpsrDeferredTag, m)
    [] OTHER -> AomdvPacket(k, m)

\* What the node that gets the packet b reads; a datagram's protocol is in the network's header.
Received(k, s, protocol, b) ==
  CASE k = "ant"      -> AntHeaderDeserialize(b)
    [] k = "control"  -> Get(Control, b)
    [] k = "hello"    -> RecvGPSR(s, Rest(ReadHeaders(s, UdpNumber, b).datagram, 8))
    [] k = "datagram" -> LET r == ReadHeaders(s, protocol, b)
                         IN IF r.ok THEN [protocol |-> protocol, payload |-> r.datagram,
                                          position |-> r.position, position3d |-> r.position3d]
                            ELSE [protocol |-> protocol, payload |-> r.datagram]
    [] k = "bee"      -> LET r == RemoveTrailer(b) IN r.trailer @@ [payload |-> r.packet]
    [] k = "beecontrol" -> GetControl(b)
    [] k = "tagged"   -> IF b = NoTag THEN << >> ELSE Get(PrevHopTag, b)
    [] k = "aomdvdeferred" -> Get(AomdvDeferredTag, b)
    [] k = "gpsrdeferred"  -> Get(GpsrDeferredTag, b)
    [] OTHER -> RecvAomdv(b).msg

\* The writer sends, and the reader gets it whole.
Send ==
  /\ at = "writer"
  /\ at' = "wire" /\ frame' = Packet(kind, setting, msg)
  /\ UNCHANGED <<kind, setting, msg, got, cut>>

Receive ==
  /\ at = "wire" /\ cut = 0
  /\ at' = "reader" /\ frame' = << >>
  /\ got' = Received(kind, setting, IF kind = "datagram" THEN msg.protocol ELSE UdpNumber, frame)
  /\ UNCHANGED <<kind, setting, msg, cut>>

\* The end of an ant's packet is lost, one byte more of it.
LoseByte ==
  /\ kind = "ant" /\ at = "wire" /\ cut < Len(frame)
  /\ cut' = cut + 1
  /\ UNCHANGED <<kind, setting, msg, at, frame, got>>

-----------------------------------------------------------------------------
(* What the nodes on the way do with an ant *)

Holds(k) == at = "reader" /\ kind = k
Becomes(m) == msg' = m /\ at' = "writer" /\ got' = << >> /\ UNCHANGED <<kind, setting, frame, cut>>

\* The router stamps a forward ant.
AntGoesOn ==
  /\ Holds("ant") /\ got.type = Reactive /\ got.dir = Up
  /\ Len(got.visited) < MaxPathLength
  /\ \E n \in Here, x \in Stamps : Becomes([got EXCEPT !.visited = Append(@, [node |-> n, time |-> x])])

\* The destination turns it round; the back ant's first step is its own.
AntTurns ==
  /\ Holds("ant") /\ got.type = Reactive /\ got.dir = Up /\ got.visited # << >>
  /\ \E n \in Here, x \in Stamps :
       Becomes([NewMessage(got.type, n, got.src, x) EXCEPT
                  !.dir = Down, !.lifeAnt = got.lifeAnt, !.visited = Front(got.visited), !.history = <<Last(got.visited)>>])

AntRetraces ==
  /\ Holds("ant") /\ got.dir = Down /\ got.visited # << >>
  /\ Becomes([got EXCEPT !.visited = Front(@), !.history = Append(@, Last(got.visited))])

\* A node that a note costs the route to some of the destinations tells of these.
NoteGoesOn ==
  /\ Holds("ant") /\ got.type = LinkFail /\ got.budget > 0
  /\ \E n \in Here, x \in Stamps, S \in SUBSET DOMAIN got.helloDests :
       LET order == SetToSortSeq(S, <)
       IN /\ S # {}
          /\ Becomes([NewMessage(LinkFail, n, -1, x) EXCEPT
                         !.budget = got.budget - 1,
                         !.helloDests = [i \in DOMAIN order |-> [node |-> got.helloDests[order[i]].node, pheromone |-> x]]])

-----------------------------------------------------------------------------
(* What the baselines do *)

ControlGoesOn ==
  /\ Holds("control") /\ got.ttl > 0
  /\ \E x \in Stamps : Becomes([got EXCEPT !.hops = @ + 1, !.ttl = @ - 1, !.value = x])

\* A node advertises its own distance to the origin, and the number it knows for the destination.
RequestGoesOn ==
  /\ Holds("rreq")
  /\ \E hops \in 1 .. 2, n \in Here, x \in Stamps :
       LET m == [got EXCEPT !.hopCount = hops, !.firstHop = IF n > 0 THEN n ELSE @]
       IN Becomes(m) \/ Becomes(SetUnknownSeqno([m EXCEPT !.dstSeqNo = x], FALSE))

ReplyGoesOn ==
  /\ Holds("rrep")
  /\ \E hops \in 1 .. 2, n \in Here, ack \in BOOLEAN :
       LET m == [got EXCEPT !.hopCount = hops, !.firstHop = IF n > 0 THEN n ELSE @]
       IN Becomes(IF ack THEN SetAckRequired(m, FALSE) ELSE m)

\* The destinations that were reached through the sender are told of further on.
ErrorGoesOn ==
  /\ Holds("rerr")
  /\ \E S \in SUBSET DOMAIN got.unreachable : S # {} /\ Becomes(Naming(Emptied(got), [d \in S |-> got.unreachable[d]]))

\* A node that forwards a datagram writes the headers anew: in recovery with the destination
\* as it was told, else with where that is now.
DatagramGoesOn ==
  /\ Holds("datagram") /\ got.protocol = UdpNumber /\ msg.by = "source"
  /\ \E x \in Stamps :
       LET m == [by |-> "forwarder"] @@ got
       IN \/ Becomes([m EXCEPT
                  !.position = [@ EXCEPT !.inRec = 1, !.recPosx = x, !.recPosy = x + 1, !.lastPosx = x, !.lastPosy = x + 2],
                  !.position3d = IF setting.threeD THEN [@ EXCEPT !.planeHops = 1, !.recPosz = x, !.lastPosz = x + 3] ELSE @])
          \/ Becomes([m EXCEPT !.position = Whereabouts(x, 10, x)])

\* The next node of the route writes its value into the trailer.
BeeGoesOn ==
  /\ Holds("bee") /\ Len(msg.reported) < Len(msg.path) - 2
  /\ \E level \in Levels :
       Becomes([msg EXCEPT !.info = Noted(got.info, level), !.reported = Append(@, level)])

\* A scout collects the route and its values, and flies back along it.
ScoutGoesOn ==
  /\ Holds("beecontrol") /\ got.type = 1 /\ got.ttl > 1
  /\ LET d == got
         r == CHOOSE x \in Routes : x[1] = d.src /\ Last(x) = d.dst
         n == Len(d.path)
     IN \/ /\ n < Len(r) - 1
           /\ \E level \in Levels :
                Becomes([d EXCEPT !.ttl = @ - 1, !.path = Append(@, r[n + 1]), !.levels = Append(@, level)])
        \/ n = Len(r) - 1 /\ Becomes([d EXCEPT !.type = 2, !.path = Append(@, d.dst)])

\* A packet goes on to another node, or its node sends it again: after the retry limit, as long
\* as it was not recovered too often.
TaggedGoesOn ==
  /\ Holds("tagged") /\ Len(msg.sent) < MostSent
  /\ \E next \in Hosts, back \in BOOLEAN :
       \/ LET me == IF msg.sent = << >> THEN Min(Hosts) ELSE Last(msg.sent)[2]
          IN /\ next # me
             /\ Becomes([msg EXCEPT !.tags = Forwarded(@, me, next, back), !.sent = Append(@, <<me, next>>)])
       \/ /\ msg.sent # << >> /\ next # Last(msg.sent)[1] /\ ~ back
          /\ Reinjections(msg.tags) < MaxReinject
          /\ Becomes([msg EXCEPT !.tags = Forwarded(Reinjected(@), Last(msg.sent)[1], next, FALSE),
                                 !.sent = Append(@, <<Last(msg.sent)[1], next>>), !.recovered = @ + 1])

Next ==
  \/ Send \/ Receive \/ LoseByte
  \/ BeeGoesOn \/ ScoutGoesOn \/ TaggedGoesOn
  \/ AntGoesOn \/ AntTurns \/ AntRetraces \/ NoteGoesOn
  \/ ControlGoesOn \/ RequestGoesOn \/ ReplyGoesOn \/ ErrorGoesOn \/ DatagramGoesOn

Spec == Init /\ [][Next]_vars

-----------------------------------------------------------------------------

\* What the wire can keep of a message: kinematics as floats, and of the destination's
\* position at the source the low 16 bits.
Kept ==
  CASE kind = "ant" -> [msg EXCEPT !.kinematics = [i \in DOMAIN @ |-> Double(Single(@[i]))]]
    [] kind = "datagram" -> IF msg.by = "source" THEN [msg EXCEPT !.position = Narrow(@)] ELSE msg
    [] OTHER -> msg

WithinLimits(m) ==
  Len(m.visited) <= MaxVisitedOnWire /\ Len(m.history) <= MaxHistoryOnWire /\ Len(m.helloDests) <= MaxHelloOnWire

\* An ant: both writers give the same bytes, as many as announced, and the codec reads the
\* message that was sent, except that it refuses a note that names too many destinations.
AntReadsBack ==
  LET r == Deserialize(frame)
  IN /\ Serialize(msg) = frame
     /\ Len(frame) = SerializedSize(msg) /\ Len(frame) = AntHeaderSize(msg)
     /\ IF WithinLimits(msg) THEN r = [ok |-> TRUE, msg |-> Kept] ELSE msg.type = LinkFail /\ ~ r.ok

\* An ant that lost its end is no message, or a hello that lost all of its kinematics.
CutIsRefused ==
  LET r == Deserialize(SubSeq(frame, 1, Len(frame) - cut))
  IN \/ ~ r.ok
     \/ cut = KinematicsSize /\ msg.kinematics # << >> /\ r.msg = [msg EXCEPT !.kinematics = << >>]

\* A datagram on the wire: its ports and checksum in front, with its length as it is there.
DatagramIsUdp ==
  /\ Part(frame, 0, 4) = Part(msg.payload, 0, 4) /\ Part(frame, 6, 2) = Part(msg.payload, 6, 2)
  /\ 256 * frame[5] + frame[6] = Len(frame)

\* A route packet: the trailer comes off whole, the values of the nodes passed so far are there
\* from the last one back, eight at most, and the forager's own are turned round.
BeeReadsBack ==
  LET levels == DecodeLevels(got.info, Len(msg.path) - 1)
      n == Len(msg.reported)
  IN /\ \A f \in DOMAIN got : got[f] = msg[f]
     /\ levels = [k \in DOMAIN levels |-> IF k <= n THEN msg.reported[n + 1 - k] ELSE 0]
     /\ DecodeLevels(got.piggyInfo, Len(msg.piggy) - 1) = Reverse(msg.home)

\* A tagged packet: its sender, the node that one had it from, and the receiver; recovered no
\* more often than allowed.
TagsTell ==
  LET from  == Last(msg.sent)[1]
      other == {i \in DOMAIN msg.sent : msg.sent[i][1] # from}
  IN /\ msg.sent = << >> <=> got = << >>
     /\ msg.sent # << >> =>
          got = [addr |-> from, next |-> Last(msg.sent)[2],
                 upstream |-> IF other = {} THEN 0 ELSE msg.sent[Max(other)][1]]
     /\ Reinjections(msg.tags) = msg.recovered /\ msg.recovered <= MaxReinject

\* What a node writes into a message is what the next one reads there, whichever protocol's
\* header and whichever of the two ant codecs carries it, byte for byte and hop after hop, but
\* for what a float or 16 bits cut off; a datagram is a UDP one of its own length on every
\* link and comes off as it went in; an ant frame that is not whole is refused (ant_message_codec.cpp, anthocnet-packet.cc, the
\* baselines' packet headers, GPSR's headers beneath the transport header, BeeAdHoc's trailer
\* and the packet tags).
FramesReadBack ==
  /\ at = "wire" =>
       CASE kind = "ant" /\ cut = 0 -> AntReadsBack
         [] kind = "ant"  -> CutIsRefused
         [] kind = "bee"  -> Len(frame) = Len(msg.payload) + TrailerSize(msg)
         [] kind = "beecontrol" -> Len(frame) = ControlSize(msg)
         [] kind = "datagram" /\ msg.protocol = UdpNumber -> DatagramIsUdp
         [] kind \in DOMAIN AomdvCodes -> RecvAomdv(frame).kind = kind
         [] OTHER -> TRUE
  /\ at = "reader" =>
       CASE kind = "datagram" -> got.payload = msg.payload /\ (msg.protocol = UdpNumber => [by |-> msg.by] @@ got = Kept)
         [] kind = "bee"    -> BeeReadsBack
         [] kind = "tagged" -> TagsTell
         [] OTHER -> got = Kept

=============================================================================
