---------------------------- MODULE MCManifests -----------------------------
(* Documents for TLC: every graph on three agents under a few type mixes,   *)
(* with and without a reference; every generator; values off the grid; the  *)
(* platform's own experiments.                                              *)
EXTENDS Campaign

Sorted(S) == SetToSortSeq(S, <)
MCDraw == [i \in 1 .. 30 |-> [state |-> 1001 + 10 * i, vstate |-> 2003 + 10 * i,
                             phase |-> 307 + 10 * i]]

Neighbor(k) == [vstate |-> 510 + k, vstateQ |-> 540 + k, seq |-> 520 + k, rssi |-> 530 + k, flags |-> k]
Ticks == <<"xP", "xQ", "zP", "zQ", "gP", "gQ", "muP", "muQ", "aP", "aQ", "sP", "sQ",
           "c", "theta", "sat", "trig", "watchdog", "vartheta", "updates", "S1", "S2",
           "realized", "cpu">>
Count(seq, base) == [f \in ToSet(seq) |-> base + SelectInSeq(seq, LAMBDA x : x = f)]
MCTick == [f \in ToSet(Ticks) |-> 700 + SelectInSeq(Ticks, LAMBDA x : x = f)]
MCVars ==
    [tick |-> MCTick, time |-> 401, state |-> 402, stateQ |-> 403, vstate |-> 404, vstateQ |-> 405,
     vartheta |-> 406, counter |-> 407, S1 |-> 408, S2 |-> 409, power |-> 410,
     neighbors |-> [k \in 1 .. 4 |-> Neighbor(k)],
     counters |-> Count(Observed \o Uart \o ParserCounts, 600)]

Plant(i) == [kappa |-> 130000 + 2 * i, S |-> <<41 + 2 * i, 61 + 2 * i>>,
             X0 |-> <<81 + 2 * i, 91 + 2 * i>>, z0 |-> <<71, 73>>]
Node(i, type, enabled, reads) ==
    [type |-> type, ip |-> i, enabled |-> enabled, publish |-> 4000,
     neighbors |-> reads, plant |-> Plant(i)]

MCDisturbance == [enabled |-> TRUE, sine_amplitude |-> 11, frequency |-> 13, phase |-> None,
                  noise_amplitude |-> 17, noise_offset |-> 19, beta |-> -23, samples |-> 3]
Grid(interface) ==
    [interface |-> interface, profile |-> "per", p_max |-> 201, q_max |-> 203,
     T_o |-> 1801, alpha_0 |-> 207, delta_o |-> 419, kappa_o |-> 211, xi |-> 213,
     c_0 |-> 215, mu_max |-> 217, gamma |-> 219, eps |-> <<>>,
     vartheta0 |-> 231, T_c |-> 1265, beta_c |-> 235, Phi |-> 237,
     terminal |-> TRUE, adapt_band |-> None]
Controller(name, grid) ==
    [name |-> name, dt |-> 800, eta |-> 101, gain_ij |-> 103, alpha |-> 105,
     delta |-> 107, disturbance |-> MCDisturbance, microgrid |-> grid]
Scalar == Controller("finite_time_adaptive", None)
MCRadio == AsFastAsAllowed
Doc(nodes, structure, controller, coordination, event) ==
    [name |-> None, nodes |-> nodes, structure |-> structure,
     controller |->
        IF controller.microgrid = None THEN controller
        ELSE [controller EXCEPT !.microgrid.eps = [i \in DOMAIN nodes |-> 220 + i]],
     radio |-> MCRadio, coordination |-> coordination, event |-> event]

Pinned(S) == [reference |-> <<5001, 6003>>, pinned |-> [i \in S |-> 301]]

\* Every graph on three agents.
Links == [1 .. 3 -> SUBSET (1 .. 3)]
Mixes == {<<"ble", "bridge", "wifi">>, <<"bridge", "ble", "ble">>}
ThreeAgents(links, types, down) ==
    [i \in 1 .. 3 |-> Node(i, types[i], i # down, Sorted(links[i]))]
ReadOthers == {l \in Links : \A i \in 1 .. 3 : i \notin l[i]}
Free(types, down) == {Doc(ThreeAgents(l, types, down), None, Scalar, None, None) : l \in ReadOthers}
Referred(down, S) ==
    {Doc(ThreeAgents(l, <<"ble", "bridge", "wifi">>, down), None, Scalar, Pinned(S), None) :
        l \in ReadOthers}
GraphDocs == UNION ({Free(t, d) : t \in Mixes, d \in {0, 2}}
                    \cup {Referred(d, S) : d \in {0, 1}, S \in {{}, {1}, {1, 3}, {4}}})

\* Generated graphs, the refused ones included.
Structures ==
    {[generator |-> "ring", order |-> o, k |-> k, directed |-> d] :
        o \in {<<1, 2, 3, 4, 5>>, <<4, 1, 3, 2>>, <<2, 1>>, <<1, 1, 2>>, <<1, 2, 6>>},
        k \in 0 .. 2, d \in BOOLEAN}
    \cup {[generator |-> g, order |-> <<3, 1, 4, 2>>, directed |-> d, hub |-> 1] :
            g \in {"line", "complete", "star", "tree"}, d \in BOOLEAN}
    \cup {[generator |-> "clusters", groups |-> <<<<1, 2, 3>>, <<4, 5>>>>,
           bridges |-> b, intra |-> i] :
            b \in {{}, {<<3, 4>>}, {<<2, 5>>, <<1, 4>>}, {<<3, 9>>}, {<<3, 3>>}},
            i \in {"complete", "ring"}}
GeneratedDocs ==
    {Doc([i \in 1 .. 5 |-> Node(i, "bridge", TRUE, IF i = r THEN <<1>> ELSE <<>>)],
         s, Scalar, None, None) : s \in Structures, r \in {0, 2}}

\* The small differences a document may have.
Pair(types, ip2) ==
    [i \in {1, 2} |-> [Node(i, types[i], TRUE, <<3 - i>>) EXCEPT !.ip = IF i = 2 THEN ip2 ELSE 1]]
SmallDocs ==
    {[Doc(Pair(t, ip), None, c, Pinned({1}), [nodes |-> {2}, enabled |-> FALSE])
        EXCEPT !.controller.dt = dt, !.radio = r] :
        t \in {<<"ble", "ble">>, <<"ble", "bridge">>}, ip \in {1, 2},
        c \in {Scalar, Controller("microgrid_adaptive", Grid("adaptive")),
               Controller("microgrid_lc", Grid("lc"))},
        dt \in {1, 800},
        r \in {MCRadio, [MCRadio EXCEPT !.advMax = 1200], [MCRadio EXCEPT !.advMax = 900],
               [MCRadio EXCEPT !.scanWindow = 1010], [MCRadio EXCEPT !.scanWindow = 310, !.passive = FALSE]}}
    \cup {[Doc(Pair(<<"ble", "bridge">>, 2), None, Controller("microgrid_lc", Grid("lc")),
               Pinned({1}), None)
             EXCEPT !.nodes[1].plant = p, !.nodes[2].publish = q] :
             p \in {None, [Plant(1) EXCEPT !.kappa = 0]}, q \in {0, 4000}}
    \cup {Doc(Pair(<<"ble", "ble">>, 2), None,
              Controller("microgrid_lc", [Grid("lc") EXCEPT !.profile = "rep", !.adapt_band = b]),
              Pinned({2}), None) : b \in {61, None}}
    \cup {Doc(Pair(<<"ble", "bridge">>, 2), None, [Scalar EXCEPT !.disturbance.enabled = FALSE],
              None, None)}

\* Values the wire does not carry: one field that rounds to zero, one beyond a
\* word; values no field may have; and controllers that are not their block's.
Grids == {Controller("microgrid_adaptive", Grid("adaptive")),
          Controller("microgrid_lc", Grid("lc"))}
Edge(c) == Doc(Pair(<<"ble", "bridge">>, 2), None, c, Pinned({1}), None)
EdgeDocs ==
    UNION {{[Edge(c) EXCEPT !.controller.dt = 1], [Edge(c) EXCEPT !.nodes[1].publish = 1],
            [Edge(c) EXCEPT !.controller.alpha = 1], [Edge(c) EXCEPT !.nodes[1].plant.kappa = 1],
            [Edge(c) EXCEPT !.coordination.pinned[1] = 1],
            [Edge(c) EXCEPT !.coordination = [reference |-> <<1, 1>>, pinned |-> <<1>>]],
            [Edge(c) EXCEPT !.nodes[1].plant.X0[2] = 400000002],
            [Edge(c) EXCEPT !.controller.delta = -400000006],
            [Edge(c) EXCEPT !.controller.alpha = LargestAlpha + 1],
            [Edge(c) EXCEPT !.controller.disturbance.frequency = -1]} :
              c \in Grids \cup {Scalar}}
    \cup UNION {{[Edge(c) EXCEPT !.controller.microgrid.p_max = 1],
                 [Edge(c) EXCEPT !.controller.microgrid.q_max = 1],
                 [Edge(c) EXCEPT !.controller.microgrid.gamma = -1],
                 [Edge(c) EXCEPT !.controller.microgrid.eps[1] = -1]} : c \in Grids}
    \cup {Edge([c EXCEPT !.name = n]) :
              c \in Grids \cup {Scalar},
              n \in {"microgrid_adaptive", "microgrid_lc", "finite_time_adaptive"}}

\* Three relays that read both others, under the two laws of the microgrid.
TriangleDocs ==
    {Doc([i \in 1 .. 3 |-> Node(i, "ble", TRUE, Sorted((1 .. 3) \ {i}))], None, c, None, None) :
        c \in {Controller("microgrid_adaptive", Grid("adaptive")), Controller("microgrid_lc", Grid("lc"))}}

\* Six ticks of four neighbours, whose values change and any of which may be
\* disabled: an agent reads as many of them as it has.
Input(a, b, on, u) ==
    [heard |-> <<a, b, <<a[1] + 1, b[2]>>, <<3, -a[2]>>>>, enabled |-> on \o on, uniform |-> u]
MCInputRuns ==
    {<<Input(<<0, 0>>, <<0, 0>>, <<FALSE, FALSE>>, 3),
       Input(<<7, -9>>, <<0, 0>>, <<TRUE, FALSE>>, 11),
       Input(<<7, -9>>, <<20, 31>>, <<TRUE, TRUE>>, 29),
       Input(<<-40, 5>>, <<20, 31>>, <<FALSE, TRUE>>, 40),
       Input(<<13, 17>>, <<-21, 2>>, <<TRUE, TRUE>>, 8),
       Input(<<13, 17>>, <<-21, 2>>, <<TRUE, TRUE>>, 19)>>}

\* A relay that reads as many agents as a board holds, and one more.
StarDocs ==
    {Doc([i \in 1 .. n |-> Node(i, IF i = 1 THEN "ble" ELSE "bridge", TRUE,
                                IF i = 1 THEN Upto(2, n) ELSE <<1>>)],
         None, Scalar, None, None) : n \in {5, 6}}

\* The experiments: everything ten hosts can hold, and a bare run's manifests
\* on a bench of two.
CampaignDocs ==
    Written(HOSTS, [only |-> {}, all |-> TRUE, campaign |-> FALSE])
    \cup Written(<<101, 102>>, [only |-> {}, all |-> FALSE, campaign |-> FALSE])

MCDocs == GraphDocs \cup GeneratedDocs \cup SmallDocs \cup EdgeDocs \cup StarDocs \cup CampaignDocs
MCFielded(d) ==
    /\ d.name \in {None, <<"dg2", "air", "per">>, <<"dg5", "mixed", "rep">>, <<"n4", "noble">>,
                   <<"n6", "50hz">>}
    /\ Cardinality(DOMAIN d.nodes) = 3 => \/ d.coordination = None /\ d.nodes[2].enabled
                                         \/ d.nodes[1].neighbors = <<2, 3>>
MCTriangleDocs == TriangleDocs

\* A board as it booted, and one a run of another manifest left.
MCBoards ==
    {BootParams,
     [BootParams EXCEPT !.law = 2, !.blocks = {"plant", "virtual"}, !.neighbors = <<9>>,
                        !.node_id = 9, !.enabled = TRUE, !.virtual.b = 7, !.virtual.rP = 7]}
=============================================================================
