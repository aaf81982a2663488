------------------------------ MODULE MCAirWire ------------------------------
(* Packets at the edges of their fields for TLC: negative and extreme values, *)
(* wrapped counters and times, both laws, and devices of other fleets.        *)
EXTENDS AirWire

Packet(node, vstate, seq, time, enabled, disturbance) ==
    [node |-> node, vstate |-> vstate, seq |-> seq, time |-> time,
     enabled |-> enabled, disturbance |-> disturbance]

MCBoardPackets ==
    {Packet(1, <<-2>>, 0, 0, TRUE, FALSE), Packet(1, <<2047>>, 63, 262151, FALSE, TRUE),
     Packet(1, <<-2048, 700>>, 9, 77, TRUE, TRUE)}
MCPiPackets ==
    {Packet(2, <<513>>, 62, 262143, TRUE, FALSE), Packet(2, <<-1, -2048>>, 7, 65, FALSE, FALSE),
     Packet(3, <<77>>, 8, 64, TRUE, TRUE),
     Packet(2, <<2048>>, 1, 1, TRUE, FALSE), Packet(2, <<1>>, 1, 262144, TRUE, FALSE)}
MCLegacyPackets == {Packet(4, <<-300>>, 0, 0, TRUE, FALSE), Packet(1, <<5>>, 0, 0, FALSE, FALSE)}

MCNeighbors == <<4, 1>>

Body(n, first) == <<first>> \o [k \in 1 .. n - 1 |-> k % 5]
MCStrangerAds ==
    {Element(1, <<6>>) \o Element(AdManufacturer, <<4, 1>> \o Body(16, 1)),
     Element(AdManufacturer, <<5, 0>> \o Body(3, 1)),
     Element(AdManufacturer, <<5, 0>> \o Body(16, 1)),
     Element(AdManufacturer, <<5, 0>> \o Body(16, 7)),
     Element(AdManufacturer, <<5, 0, 1, 1, 0, 0>> \o Body(12, 3)),
     Element(AdName, <<1>>) \o <<22, AdManufacturer, 5, 0>> \o Body(8, 2),
     <<0>> \o Element(AdManufacturer, <<5, 0>> \o Body(16, 1))}
MCStrayDatagrams ==
    {<<1>>, <<5, 0, 7, 2, 1, 1, 1, 1>>, PyEncode(Packet(2, <<9>>, 2, 2, TRUE, FALSE)), Body(19, 2)}
=============================================================================
