------------------------------- MODULE AirWire -------------------------------
(* The state packet on the air, in its two implementations.  A board encodes *)
(* and decodes it in C (air_wire.c, broadcaster.c, observer.c), a Pi agent   *)
(* in Python (wire/codec.py, radio/ad.py, radio/hci.py, transports/ble.py    *)
(* and udp.py), and a board not yet reflashed still sends the older v0.      *)
(* Every receiver hears every device in radio range, the ones that are not   *)
(* of this fleet included.                                                   *)
(*                                                                           *)
(* A byte has Base values instead of 256; the fields keep their widths in    *)
(* bytes, so that offsets, signs and wrapping are those of the code.  The    *)
(* length octet of an advertising element is not cut to Base.                *)
EXTENDS Integers, Sequences, FiniteSets

CONSTANTS
    Base,           \* values of a byte
    Board, Pi, Legacy, Stranger,    \* who is in range
    BoardPackets, PiPackets, LegacyPackets,     \* what the first three may send
    StrangerAds,    \* what a device of another fleet may send
    StrayDatagrams, \* what else may reach the state port
    Neighbors,      \* neighbors_id of the listening board, in order
    ListenerId,     \* node id of the listening Pi
    MaxSent,        \* bound: packets the fleet puts out
    MaxHeard        \* bound: receptions in all

ASSUME AirWireAssumption ==
    /\ Base \in Nat /\ Base > 7 /\ MaxSent \in Nat /\ MaxHeard \in Nat
    /\ Neighbors \in Seq(1 .. Base - 1) /\ ListenerId \in 1 .. Base - 1
    /\ Cardinality({Board, Pi, Legacy, Stranger}) = 4

VARIABLES
    air,        \* device -> the advertising data its controller repeats
    net,        \* the datagrams broadcast; UDP may repeat and reorder them
    said,       \* device -> the packet it advertises
    sent,       \* every packet the fleet put out
    counters,   \* observer.c's counters
    info,       \* observer.c's neighbor_info, per neighbour index
    queued,     \* custom_observer_msg_queue: none or one snapshot
    absorbed,   \* what absorb_neighbors copied into the agent
    ble,        \* BleStats of the listening Pi
    udp         \* UdpStats of the listening Pi

airVars == <<air, net, said, sent, counters, info, queued, absorbed, ble, udp>>
boardVars == <<counters, info, queued, absorbed>>
piVars == <<ble, udp>>

-----------------------------------------------------------------------------
(* Bytes.                                                                   *)

Base2 == Base * Base
Base4 == Base2 * Base2
Base6 == Base4 * Base2

\* st_u16, st_u32 and st_u48, "H", "i" and to_bytes(6, "little"): low bytes
\* first, and what is above the width is lost.
Put16(n) == <<n % Base, (n \div Base) % Base>>
Put32(n) == Put16(n) \o Put16(n \div Base2)
Put48(n) == Put32(n) \o Put16(n \div Base4)

\* ld_u16, ld_u32 and ld_u48 at an offset, and the formats' readings.
Byte(v, offset) == v[offset + 1]
Get16(v, offset) == Byte(v, offset) + Base * Byte(v, offset + 1)
Get32(v, offset) == Get16(v, offset) + Base2 * Get16(v, offset + 2)
Get48(v, offset) == Get32(v, offset) + Base4 * Get16(v, offset + 4)
\* int32_t.
Int32 == -(Base4 \div 2) .. Base4 \div 2 - 1
Signed(n) == IF 2 * n >= Base4 THEN n - Base4 ELSE n

Version1 == 1
Version2 == 2
\* 0x7F and 0x70
V0Enabled == 7
V0Disabled == 6
Company == 5                        \* 0x0059
\* 0x09 and 0xFF
AdName == 3
AdManufacturer == 4
MaxAdLen == 31

FlagBits(p) == (IF p.enabled THEN 1 ELSE 0) + (IF p.disturbance THEN 2 ELSE 0)
EnabledBit(b) == b % 2 = 1
DisturbanceBit(b) == (b \div 2) % 2 = 1

Failed(why) == [ok |-> FALSE, why |-> why]
Decoded(node, vstate, seq, time, enabled, disturbance) ==
    [ok |-> TRUE,
     packet |-> [node |-> node, vstate |-> vstate, seq |-> seq, time |-> time,
                 enabled |-> enabled, disturbance |-> disturbance]]

-----------------------------------------------------------------------------
(* The board: air_wire.c.                                                   *)

\* air_wire_encode, with its two formats.
CEncode(p) ==
    LET head == <<IF Len(p.vstate) = 2 THEN Version2 ELSE Version1, FlagBits(p), p.node>>
    IN  Put16(Company) \o
        (IF Len(p.vstate) = 2
         THEN head \o Put16(p.seq) \o Put32(p.vstate[1]) \o Put32(p.vstate[2])
         ELSE head \o <<0>> \o Put16(p.seq) \o Put32(p.vstate[1]))
        \o Put48(p.time)

CDecodeV2(v) ==
    IF Byte(v, 0) # Version2 \/ Byte(v, 2) = 0 THEN Failed("format")
    ELSE Decoded(Byte(v, 2), <<Signed(Get32(v, 5)), Signed(Get32(v, 9))>>,
                 Get16(v, 3), Get48(v, 13),
                 EnabledBit(Byte(v, 1)), DisturbanceBit(Byte(v, 1)))

(* Mutant of CDecodeV1: the reserved byte is taken for the low byte of the  *)
(* sequence number, as in v2.                                               *)
CDecodeV1Shifted(v) ==
    IF Byte(v, 0) # Version1 \/ Byte(v, 2) = 0 THEN Failed("format")
    ELSE Decoded(Byte(v, 2), <<Signed(Get32(v, 6))>>, Get16(v, 3), Get48(v, 10),
                 EnabledBit(Byte(v, 1)), DisturbanceBit(Byte(v, 1)))

CDecodeV1(v) ==
    IF Byte(v, 0) # Version1 \/ Byte(v, 3) # 0 \/ Byte(v, 2) = 0 THEN Failed("format")
    ELSE Decoded(Byte(v, 2), <<Signed(Get32(v, 6))>>, Get16(v, 4), Get48(v, 10),
                 EnabledBit(Byte(v, 1)), DisturbanceBit(Byte(v, 1)))

CDecodeV0(v) ==
    IF Byte(v, 0) \notin {V0Enabled, V0Disabled} \/ Byte(v, 1) = 0 THEN Failed("format")
    ELSE Decoded(Byte(v, 1), <<Signed(Get32(v, 2))>>, 0, 0, Byte(v, 0) = V0Enabled, FALSE)

\* air_wire_decode_any: by length, then by version.
CDecodeAny(value) ==
    LET v == SubSeq(value, 3, Len(value))
    IN  CASE Len(value) < 2             -> Failed("length")
          [] Len(value) >= 2 /\ Get16(value, 0) # Company -> Failed("company")
          [] Len(v) = 19 /\ Get16(value, 0) = Company -> CDecodeV2(v)
          [] Len(v) = 16 /\ Get16(value, 0) = Company -> CDecodeV1(v)
          [] Len(v) = 6  /\ Get16(value, 0) = Company -> CDecodeV0(v)
          [] OTHER                      -> Failed("length")

-----------------------------------------------------------------------------
(* The Pi: StatePacket and decode_any of codec.py.                          *)

\* StatePacket.__post_init__: what it refuses to hold.
Holds(p) ==
    /\ p.node \in 1 .. Base - 1
    /\ Len(p.vstate) \in {1, 2}
    /\ \A k \in DOMAIN p.vstate : p.vstate[k] \in Int32
    /\ p.seq \in 0 .. Base2 - 1 /\ p.time \in 0 .. Base6 - 1

\* StatePacket.encode: the format follows from the number of coordinates.
PyEncode(p) ==
    (IF Len(p.vstate) = 1
     THEN <<Version1, FlagBits(p), p.node, 0>> \o Put16(p.seq) \o Put32(p.vstate[1])
     ELSE <<Version2, FlagBits(p), p.node>> \o Put16(p.seq)
          \o Put32(p.vstate[1]) \o Put32(p.vstate[2]))
    \o Put48(p.time)

PyDecodeV2(v) ==
    IF Byte(v, 2) = 0 THEN Failed("node")
    ELSE Decoded(Byte(v, 2), <<Signed(Get32(v, 5)), Signed(Get32(v, 9))>>,
                 Get16(v, 3), Get48(v, 13),
                 EnabledBit(Byte(v, 1)), DisturbanceBit(Byte(v, 1)))

\* StatePacket.decode.
PyDecode(v) ==
    IF Len(v) = 19 /\ Byte(v, 0) = Version2 THEN PyDecodeV2(v)
    ELSE IF Len(v) # 16 \/ Byte(v, 0) # Version1 \/ Byte(v, 3) # 0 \/ Byte(v, 2) = 0
    THEN Failed("v1")
    ELSE Decoded(Byte(v, 2), <<Signed(Get32(v, 6))>>, Get16(v, 4), Get48(v, 10),
                 EnabledBit(Byte(v, 1)), DisturbanceBit(Byte(v, 1)))

\* decode_v0: six bytes are enough, more are ignored.
PyDecodeV0(v) ==
    IF Len(v) < 6 \/ Byte(v, 0) \notin {V0Enabled, V0Disabled} \/ Byte(v, 1) = 0
    THEN Failed("v0")
    ELSE Decoded(Byte(v, 1), <<Signed(Get32(v, 2))>>, 0, 0, Byte(v, 0) = V0Enabled, FALSE)

\* decode_any: by version, then by length.
PyDecodeAny(v) ==
    CASE Len(v) = 19 /\ Byte(v, 0) = Version2                       -> PyDecode(v)
      [] Len(v) = 16 /\ Byte(v, 0) = Version1                       -> PyDecode(v)
      [] Len(v) > 0 /\ Byte(v, 0) \in {V0Enabled, V0Disabled}       -> PyDecodeV0(v)
      [] OTHER                                                      -> Failed("unrecognised")

\* encode_manufacturer_data, and its inverse, which speaks no v0.
PyManufacturer(p) == Put16(Company) \o PyEncode(p)
PyDecodeManufacturer(data) ==
    IF Len(data) < 2 \/ Get16(data, 0) # Company THEN Failed("company")
    ELSE PyDecode(SubSeq(data, 3, Len(data)))

\* UdpTransport._decode.
UdpDecode(data) ==
    IF Len(data) >= 2 /\ Get16(data, 0) = Company
    THEN PyDecodeManufacturer(data) ELSE PyDecodeAny(data)

-----------------------------------------------------------------------------
(* Advertising data: radio/ad.py, and bt_data_parse of the board's stack.   *)

Element(type, value) == <<Len(value) + 1, type>> \o value
Fits(ad) == Len(ad) <= MaxAdLen

\* parse_ad: up to a zero length, or an element that says it is longer than
\* what is left.  Walk(ad) gives the octet each step of the walk is at; an
\* element has two octets at least.
IsElement(ad, i) == i \in DOMAIN ad /\ ad[i] # 0 /\ i + ad[i] <= Len(ad)
Walk(ad) ==
    LET at[k \in 0 .. Len(ad) \div 2] ==
            IF k = 0 THEN 1
            ELSE LET i == at[k - 1] IN IF IsElement(ad, i) THEN i + 1 + ad[i] ELSE i
    IN  at
Elements(ad) ==
    LET at == Walk(ad)
    IN  {i \in {at[k] : k \in DOMAIN at} : IsElement(ad, i)}

Value(ad, i) == SubSeq(ad, i + 2, i + ad[i])
First(places) == CHOOSE i \in places : \A j \in places : i <= j

\* on_data_parse_after_device_found: the walk ends at the first of these,
\* whatever its company.
Manufacturers(ad) == {i \in Elements(ad) : ad[i + 1] = AdManufacturer}

\* find_manufacturer: those of another company are passed over.
Ours(ad) ==
    {i \in Manufacturers(ad) : Len(Value(ad, i)) >= 2 /\ Get16(Value(ad, i), 0) = Company}

BoardReads(ad) ==
    IF Manufacturers(ad) = {} THEN Failed("none")
    ELSE CDecodeAny(Value(ad, First(Manufacturers(ad))))

PiReads(ad) ==
    IF Ours(ad) = {} THEN Failed("none")
    ELSE LET value == Value(ad, First(Ours(ad)))
         IN  PyDecodeAny(SubSeq(value, 3, Len(value)))

-----------------------------------------------------------------------------
(* What the devices send.                                                   *)

Devices == {Board, Pi, Legacy, Stranger}
Fleet == {Board, Pi, Legacy}
Silence == <<>>

\* state_packet_type, of an agent that is running: node 0 is never assigned.
Packets ==
    {p \in [node : 1 .. Base - 1, vstate : Seq(Int32), seq : 0 .. Base2 - 1,
            time : Nat, enabled : BOOLEAN, disturbance : BOOLEAN] : Len(p.vstate) \in {1, 2}}

\* The three arguments of encode_v0, and what v0 cannot say.
Legacies ==
    {p \in Packets : Len(p.vstate) = 1 /\ p.seq = 0 /\ p.time = 0 /\ p.disturbance = FALSE}

\* The arguments of StatePacket, which it then checks.
Arguments == [node : Int, vstate : Seq(Int), seq : Int, time : Int,
              enabled : BOOLEAN, disturbance : BOOLEAN]

\* agent_neighbor_index: the indices that hold this id, at most one.
IndexOf(node) == {k \in DOMAIN Neighbors : Neighbors[k] = node}

\* Two fleets in one room have different node ids.
ASSUME AirTraffic ==
    /\ BoardPackets \subseteq Packets /\ PiPackets \subseteq Arguments
    /\ LegacyPackets \subseteq Legacies /\ StrangerAds \subseteq Seq(Int)
    /\ \A ad \in StrangerAds : BoardReads(ad).ok => IndexOf(BoardReads(ad).packet.node) = {}

\* _idle_packet, advertised until the first publish.
IdlePacket == [node |-> ListenerId, vstate |-> <<0>>, seq |-> 0, time |-> 0,
               enabled |-> FALSE, disturbance |-> FALSE]

Unheard == [vstate |-> 0, vstateQ |-> 0, enabled |-> FALSE, seq |-> 0, heard |-> FALSE, rssi |-> 0]

AirInit ==
    /\ air = [d \in Devices |-> Silence]
    /\ net = {} /\ sent = {}
    /\ said = [d \in Fleet |-> IdlePacket]
    /\ counters = [f \in {"devices", "ours", "foreign", "wrong_size", "malformed",
                       "legacy_v0", "unknown_node", "queue_drops"} |-> 0]
    /\ info = [k \in DOMAIN Neighbors |-> Unheard]
    /\ queued = <<>> /\ absorbed = info
    /\ ble = [f \in {"reports", "foreign", "undecodable", "self_filtered", "delivered"} |-> 0]
    /\ udp = [f \in {"received", "undecodable", "self_filtered", "delivered"} |-> 0]

\* build_ad of broadcaster.c around on_air_packet; its fields are the agent's.
\* The microseconds since the epoch lose what is above six bytes.
BoardAdvertises ==
    \E p \in BoardPackets :
        /\ Cardinality(sent) < MaxSent
        /\ air' = [air EXCEPT ![Board] = Element(AdManufacturer, CEncode(p))]
        /\ said' = [said EXCEPT ![Board] = [p EXCEPT !.time = @ % Base6]]
        /\ sent' = sent \cup {said'[Board]}
        /\ UNCHANGED <<net, boardVars, piVars>>

\* A Pi agent's publish, on both of a bridge's media; StatePacket raises
\* before anything is sent.
PiPublishes ==
    \E p \in PiPackets :
        /\ Cardinality(sent) < MaxSent
        /\ Holds(p) /\ Fits(Element(AdManufacturer, PyManufacturer(p)))
        /\ air' = [air EXCEPT ![Pi] = Element(AdManufacturer, PyManufacturer(p))]
        /\ net' = net \cup {PyManufacturer(p)}
        /\ said' = [said EXCEPT ![Pi] = p]
        /\ sent' = sent \cup {p}
        /\ UNCHANGED <<boardVars, piVars>>

\* start of a Pi's BLE transport.
PiIdles ==
    /\ air[Pi] = Silence /\ Cardinality(sent) < MaxSent
    /\ air' = [air EXCEPT ![Pi] = Element(AdManufacturer, PyManufacturer(IdlePacket))]
    /\ sent' = sent \cup {IdlePacket}
    /\ UNCHANGED <<net, said, boardVars, piVars>>

\* encode_v0, behind the name the older firmware advertised.
LegacyAdvertises ==
    \E p \in LegacyPackets :
        /\ Cardinality(sent) < MaxSent
        /\ air' = [air EXCEPT ![Legacy] =
             Element(AdName, [k \in 1 .. 7 |-> 1]) \o
             Element(AdManufacturer, Put16(Company) \o
                <<IF p.enabled THEN V0Enabled ELSE V0Disabled, p.node>> \o Put32(p.vstate[1]))]
        /\ said' = [said EXCEPT ![Legacy] = p]
        /\ sent' = sent \cup {p}
        /\ UNCHANGED <<net, boardVars, piVars>>

StrangerAdvertises ==
    \E ad \in StrangerAds :
        /\ air' = [air EXCEPT ![Stranger] = ad]
        /\ UNCHANGED <<net, said, sent, boardVars, piVars>>

-----------------------------------------------------------------------------
(* The receivers.                                                           *)

Heard == counters.devices + ble.reports + udp.received

Bump(c, fields) == [f \in DOMAIN c |-> IF f \in fields THEN c[f] + 1 ELSE c[f]]

Verdict(r) ==
    IF r.ok THEN {"ours"} ELSE
    CASE r.why = "company" -> {"foreign"}   [] r.why = "length" -> {"wrong_size"}
      [] r.why = "format"  -> {"malformed"} [] r.why = "none"   -> {}

\* on_device_found: the snapshot is queued before the strength is recorded.
BoardHears(d, strength) ==
    LET r == BoardReads(air[d])
        heard == IF r.ok THEN IndexOf(r.packet.node) ELSE {}
        isV0 == r.ok /\ Len(Value(air[d], First(Manufacturers(air[d])))) = 8
        taken == [k \in DOMAIN Neighbors |->
                    IF k \notin heard THEN info[k]
                    ELSE [vstate |-> r.packet.vstate[1],
                          vstateQ |-> IF Len(r.packet.vstate) = 2 THEN r.packet.vstate[2] ELSE 0,
                          enabled |-> r.packet.enabled, seq |-> r.packet.seq,
                          heard |-> TRUE, rssi |-> info[k].rssi]]
    IN  /\ air[d] # Silence /\ Heard < MaxHeard
        /\ counters' = Bump(counters, {"devices"} \cup Verdict(r)
                                \cup {f \in {"legacy_v0"} : isV0}
                                \cup {f \in {"unknown_node"} : r.ok /\ heard = {}}
                                \cup {f \in {"queue_drops"} : heard # {} /\ queued # <<>>})
        /\ queued' = IF heard = {} THEN queued ELSE <<taken>>
        /\ info' = [k \in DOMAIN Neighbors |->
                      IF k \in heard THEN [taken[k] EXCEPT !.rssi = strength] ELSE taken[k]]
        /\ UNCHANGED <<air, net, said, sent, absorbed, piVars>>

\* dynamics_thread: the snapshot, then absorb_neighbors.
BoardAbsorbs ==
    /\ queued # <<>>
    /\ absorbed' = queued[1]
    /\ queued' = <<>>
    /\ UNCHANGED <<air, net, said, sent, counters, info, piVars>>

\* _consume_reports on one report of an event.
BleVerdict(ad) ==
    LET r == PiReads(ad)
    IN  CASE Ours(ad) = {}                              -> "foreign"
          [] Ours(ad) # {} /\ ~r.ok                     -> "undecodable"
          [] r.ok /\ r.packet.node = ListenerId         -> "self_filtered"
          [] OTHER                                      -> "delivered"

\* _pump on one LE Advertising Report event: the controller may batch two.
PiHears(batch) ==
    /\ batch # {} /\ \A d \in batch : air[d] # Silence
    /\ Pi \in batch => said[Pi].node # ListenerId     \* it does not hear itself
    /\ Heard + Cardinality(batch) <= MaxHeard
    /\ ble' = [f \in DOMAIN ble |->
                 ble[f] + IF f = "reports" THEN Cardinality(batch)
                          ELSE Cardinality({d \in batch : BleVerdict(air[d]) = f})]
    /\ UNCHANGED <<air, net, said, sent, udp, boardVars>>

\* UdpTransport._handle.
UdpHears(data) ==
    LET r == UdpDecode(data)
        verdict == IF ~r.ok THEN "undecodable"
                   ELSE IF r.packet.node = ListenerId THEN "self_filtered" ELSE "delivered"
    IN  /\ Heard < MaxHeard
        /\ udp' = Bump(udp, {"received", verdict})
        /\ UNCHANGED <<air, net, said, sent, ble, boardVars>>

AirNext ==
    \/ BoardAdvertises
    \/ PiPublishes
    \/ PiIdles
    \/ LegacyAdvertises
    \/ StrangerAdvertises
    \/ \E d \in Devices, strength \in {1, 2} : BoardHears(d, strength)
    \/ BoardAbsorbs
    \/ \E batch \in SUBSET Devices : PiHears(batch)
    \/ \E data \in net \cup StrayDatagrams : UdpHears(data)

AirSpec == AirInit /\ [][AirNext]_airVars

-----------------------------------------------------------------------------
(* Properties.                                                              *)

Reads(p) == [ok |-> TRUE, packet |-> p]

\* A packet of the fleet is read alike by every receiver, and as it was sent,
\* whichever implementation encoded it and whichever of the three formats it has.
ReadAlike ==
    /\ \A d \in Fleet : air[d] # Silence =>
          BoardReads(air[d]) = Reads(said[d]) /\ PiReads(air[d]) = Reads(said[d])
    /\ \A data \in net : \E p \in sent : UdpDecode(data) = Reads(p) /\ data = PyManufacturer(p)

\* Whatever is on the air, a Pi takes all a board takes, as the same packet.
\* The converse fails: a Pi passes over a first element of another company, and
\* reads a v0 packet in a longer payload.
BoardImpliesPi ==
    \A d \in Devices : BoardReads(air[d]).ok => PiReads(air[d]) = BoardReads(air[d])

\* What a board holds of a neighbour, in the observer or in the agent, is one
\* packet of that neighbour: never fields of two, and no second coordinate
\* left over from before it changed its law.
HeldIsOnePacket ==
    \A k \in DOMAIN Neighbors : \A held \in {info[k], absorbed[k]} : held.heard =>
        \E p \in sent :
            /\ p.node = Neighbors[k] /\ p.enabled = held.enabled /\ p.seq = held.seq
            /\ held.vstate = p.vstate[1]
            /\ held.vstateQ = IF Len(p.vstate) = 2 THEN p.vstate[2] ELSE 0

\* Every reception is accounted for exactly once.
CountedOnce ==
    /\ ble.reports = ble.foreign + ble.undecodable + ble.self_filtered + ble.delivered
    /\ udp.received = udp.undecodable + udp.self_filtered + udp.delivered
    /\ counters.ours + counters.foreign + counters.wrong_size + counters.malformed <= counters.devices
    /\ counters.unknown_node <= counters.ours /\ counters.legacy_v0 <= counters.ours

\* The two codecs and the three receive paths agree on everything the fleet
\* sends (codec.py:1, air_wire.h), next to devices of other fleets.
AirInv == ReadAlike /\ BoardImpliesPi /\ HeldIsOnePacket /\ CountedOnce
=============================================================================
