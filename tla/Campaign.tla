------------------------------ MODULE Campaign ------------------------------
(* The manifests of the platform's own experiments, as                      *)
(* tools/make_manifests.py writes them: hosts are declared once, most graphs *)
(* come from the generators, the irregular ones declare their edges.  A      *)
(* document's name is the tuple of its parts; descriptions, seeds and the    *)
(* Wi-Fi transmit power, which nothing here reads, are left out.             *)
(*                                                                          *)
(* Units are those of Manifests: values in quarters of 1e-6, periods in      *)
(* quarters of a millisecond, radio times in tenths of a millisecond; a host *)
(* is the last octet of its address.                                        *)
EXTENDS Manifests

HOSTS == <<1, 2, 4, 5, 7, 8, 9, 10, 12, 13>>
BANDS == <<"ble", "wifi", "bridge">>            \* ids 1.., 11.. and 21..

-----------------------------------------------------------------------------
(* Controllers.                                                             *)

\* 300 s of samples, so that the disturbance does not repeat in a run.
DisturbanceFor(dt) ==
    [enabled |-> TRUE, sine_amplitude |-> 140000, frequency |-> 8000000, phase |-> None,
     noise_amplitude |-> 80000, noise_offset |-> 2000000, beta |-> 20000,
     samples |-> 1200000 \div dt]

ScalarLaw(dt, eta, gain) ==
    [name |-> "finite_time_adaptive", dt |-> dt, eta |-> eta, gain_ij |-> gain,
     alpha |-> 2000000, delta |-> 40000, disturbance |-> DisturbanceFor(dt), microgrid |-> None]

CONTROLLER == ScalarLaw(800, 200, 400000)
CONTROLLER_FAST == ScalarLaw(160, 5000, 2000000)
CONTROLLER_25HZ == ScalarLaw(160, 10000, 2000000)
CONTROLLER_40HZ == ScalarLaw(100, 10000, 2000000)
CONTROLLER_50HZ == ScalarLaw(80, 10000, 2000000)

-----------------------------------------------------------------------------
(* The radio.                                                               *)

ADV_FLOOR == 1000
ADV_DITHER == 500

RadioFor(adv, advMax, interval, window) ==
    [adv |-> adv, advMax |-> advMax, scanInterval |-> interval, scanWindow |-> window,
     passive |-> TRUE, dup |-> FALSE]

\* radio_for's default, which is RadioSpec's as well.
AsFastAsAllowed == RadioFor(ADV_FLOOR, None, ADV_FLOOR, ADV_FLOOR)

(* Mutant of Dither: sized on the mean of the range, as it once was. *)
DitherOnMean(publish) ==
    LET widest == 5 * publish - 2 * ADV_FLOOR
    IN  IF widest < 0 THEN 0 ELSE IF widest > ADV_DITHER THEN ADV_DITHER ELSE widest

\* The width of the advertising range: what K_MIN = 1.1 leaves of the period
\* to the slowest transmitter, to the nearest tenth, but no more than 50 ms.
Dither(publish) ==
    LET widest == ((50 * publish + 11) \div 22) - ADV_FLOOR
    IN  IF widest < 0 THEN 0 ELSE IF widest > ADV_DITHER THEN ADV_DITHER ELSE widest

\* radio_dithered: 20 ms of scanning at a duty in percent.
RadioDithered(publish, duty) ==
    RadioFor(ADV_FLOOR, ADV_FLOOR + Dither(publish), 200, 2 * duty)

-----------------------------------------------------------------------------
(* Agents on hosts, and graphs on agents.                                   *)

\* hosts_for: agent k of each band lives on the k-th host of the pool.
HostsFor(n, publish, pool) ==
    [i \in {10 * b + k : b \in 0 .. 2, k \in 1 .. n} |->
        [type |-> BANDS[((i - 1) \div 10) + 1], ip |-> pool[((i - 1) % 10) + 1],
         enabled |-> TRUE, publish |-> publish, neighbors |-> <<>>, plant |-> None]]

Upto(a, b) == [k \in 1 .. b - a + 1 |-> a + k - 1]

(* Mutant of BandOrder: the ids in numerical order, as it once was. *)
NumericalOrder == Upto(1, 30)

\* A bridge at every boundary between the ble and the wifi block.
BandOrder == Upto(1, 10) \o Upto(21, 25) \o Upto(11, 20) \o Upto(26, 30)

N4_ORDER == <<11, 12, 21, 22>>
N6_ORDER == <<1, 2, 21, 12, 11, 22>>
N9_ORDER == <<21, 2, 1, 3, 22, 13, 11, 12, 23>>
N18_ORDER == <<1, 2, 3, 4, 5, 6, 21, 12, 13, 14, 15, 16, 11, 22, 23, 24, 25, 26>>

\* One ten-agent group per transport, drawn once for ids 1 .. 10, and what the
\* two cut-points add to it.
GroupEdges == <<<<2, 3>>, <<1, 4>>, <<1, 5>>, <<2, 5, 6>>, <<3, 4, 7>>, <<4, 7, 8>>,
                <<5, 6, 9>>, <<6, 10>>, <<7, 10>>, <<8, 9>>>>
CLUSTER_DISABLED == {21, 30}
CutPoint(i) == IF i % 10 = 1 THEN 21 ELSE 30
CLUSTER_EDGES ==
    [i \in 1 .. 30 |->
        LET base == ((i - 1) \div 10) * 10
            group == [k \in DOMAIN GroupEdges[i - base] |-> base + GroupEdges[i - base][k]]
        IN  CASE i \in CLUSTER_DISABLED -> <<i - 20, i - 10>> \o group
              [] i \in {1, 10, 11, 20}  -> Append(group, CutPoint(i))
              [] OTHER                  -> group]

Experiment(name, controller, radio, nodes, structure) ==
    [name |-> name, nodes |-> nodes, structure |-> structure, controller |-> controller,
     radio |-> radio, coordination |-> None, event |-> None]

\* Agents whose undirected cycle is written out: the order is forced, so that
\* every edge crosses hosts and joins no ble agent to a wifi one.
Cycle(name, controller, radio, n, publish, pool, order) ==
    LET links == Ring(order, 1, FALSE)  fleet == HostsFor(n, publish, pool)
    IN  Experiment(name, controller, radio,
                   [i \in DOMAIN links |-> [fleet[i] EXCEPT !.neighbors = links[i]]], None)

\* The three graphs of thirty agents.  The cut-points of the clusters start
\* disabled and are enabled by an event.
DirectedRing == [generator |-> "ring", order |-> BandOrder, k |-> 1, directed |-> TRUE]
Ring4 == [generator |-> "ring", order |-> BandOrder, k |-> 2, directed |-> FALSE]
DirectedLine == [generator |-> "line", order |-> BandOrder, directed |-> TRUE]

Thirty(name, controller, radio, publish, structure, hosts) ==
    Experiment(name, controller, radio, HostsFor(10, publish, hosts), structure)

Clustered(name, controller, radio, publish, hosts) ==
    LET fleet == HostsFor(10, publish, hosts)
        nodes == [i \in DOMAIN fleet |->
                    [fleet[i] EXCEPT !.neighbors = CLUSTER_EDGES[i],
                                     !.enabled = i \notin CLUSTER_DISABLED]]
    IN  [Experiment(name, controller, radio, nodes, None)
            EXCEPT !.event = [nodes |-> CLUSTER_DISABLED, enabled |-> TRUE]]

-----------------------------------------------------------------------------
(* The microgrid benchmark: named boards, one agent each.                   *)

DG5_X0 == <<<<5, 1>>, <<2, 5>>, <<6, 3>>, <<1, 7>>, <<4, 2>>>>
DG5_TOPOLOGIES == [mixed |-> <<"bridge", "wifi", "bridge", "ble", "ble">>,
                   bridge5 |-> [i \in 1 .. 5 |-> "bridge"]]
DG5_MIXED_HOSTS == <<5, 13, 7, 2, 4>>
DG2_NODES == <<[type |-> "bridge", ip |-> 5], [type |-> "ble", ip |-> 2]>>
DG5_EPS == [per |-> <<375040, 384000, 364040, 370000, 391240>>,
            rep |-> <<368800, 371800, 346280, 347320, 364200>>]

\* kappa_i = i/15, S_i = [i, i], z0_i = [i, 6 - i].
DgPlant(i) ==
    [kappa |-> (4000000 * i) \div 15, S |-> <<4000000 * i, 4000000 * i>>,
     X0 |-> <<4000000 * DG5_X0[i][1], 4000000 * DG5_X0[i][2]>>,
     z0 |-> <<4000000 * i, 4000000 * (6 - i)>>]

DgNode(i, type, ip, reads) ==
    [type |-> type, ip |-> ip, enabled |-> TRUE, publish |-> 500,
     neighbors |-> reads, plant |-> DgPlant(i)]

\* The arm C_DZ at h = 25 ms; what the manifest does not say, MicrogridSpec
\* and ControllerSpec do.
DgController(profile, eps) ==
    [name |-> "microgrid_adaptive", dt |-> 100, eta |-> 200, gain_ij |-> 400000,
     alpha |-> 2000000, delta |-> 40000, disturbance |-> DefaultScalars.disturbance,
     microgrid |->
        [interface |-> "adaptive", profile |-> profile, p_max |-> 40000000,
         q_max |-> 48000000, T_o |-> 120000, T_c |-> 160000, alpha_0 |-> 4000000,
         delta_o |-> 500, kappa_o |-> 4000, xi |-> 100000, c_0 |-> 400000,
         mu_max |-> 40000000, gamma |-> 10000, eps |-> eps, vartheta0 |-> 0,
         beta_c |-> 8000000, Phi |-> 12000000, terminal |-> TRUE, adapt_band |-> None]]

Dg(name, nodes, structure, profile) ==
    [Experiment(name, DgController(profile, SubSeq(DG5_EPS[profile], 1, Len(nodes))),
                RadioDithered(500, 100), nodes, structure)
        EXCEPT !.coordination = [reference |-> <<80000000, 100000000>>, pinned |-> <<4000000>>]]

dg2(place, profile) ==
    Dg(<<"dg2", place, profile>>,
       [i \in 1 .. 2 |-> DgNode(i, IF place = "wire" THEN "bridge" ELSE DG2_NODES[i].type,
                                DG2_NODES[i].ip, <<3 - i>>)],
       None, profile)

dg5(place, profile) ==
    Dg(<<"dg5", place, profile>>,
       [i \in 1 .. 5 |-> DgNode(i, DG5_TOPOLOGIES[place][i], DG5_MIXED_HOSTS[i], <<>>)],
       [generator |-> "ring", order |-> Upto(1, 5), k |-> 1, directed |-> FALSE], profile)

-----------------------------------------------------------------------------
(* manifests(): every manifest the declared hosts can accommodate.          *)

\* The two-host family runs on the second and third host.
N6Pair(hosts) == SubSeq(hosts, IF Len(hosts) >= 3 THEN 2 ELSE 1, IF Len(hosts) >= 3 THEN 3 ELSE 2)

N4(hosts) ==
    {Cycle(<<"n4", "noble">>, CONTROLLER, RadioDithered(4000, 100), 2, 4000,
           N6Pair(hosts), N4_ORDER)}

N6Fast(hosts) ==
    {Cycle(<<"n6", "fast">>, CONTROLLER_FAST, AsFastAsAllowed, 2, 800, N6Pair(hosts), N6_ORDER)}

N6At50Hz(hosts) ==
    {Cycle(<<"n6", "50hz">>, CONTROLLER_50HZ, RadioDithered(400, 100), 2, 400,
           N6Pair(hosts), N6_ORDER)}

N6Ring(hosts) ==
    {Cycle(<<"n6", "ring">>, CONTROLLER, AsFastAsAllowed, 2, 4000, N6Pair(hosts), N6_ORDER)}

N9(hosts) ==
    LET Nine(name, controller, radio, publish) ==
            Cycle(<<"n9", name>>, controller, radio, 3, publish, SubSeq(hosts, 1, 3), N9_ORDER)
    IN  {Nine("ring", CONTROLLER, AsFastAsAllowed, 4000),
         Nine("50hz", CONTROLLER_50HZ, RadioDithered(400, 100), 400),
         Nine("jitter", CONTROLLER_50HZ, [AsFastAsAllowed EXCEPT !.advMax = 1200], 400)}

N9Filtering(hosts) ==
    {Cycle(<<"n9", IF dup THEN "k2-dupfilter" ELSE "k2">>, CONTROLLER_50HZ,
           [AsFastAsAllowed EXCEPT !.dup = dup], 3, 800, SubSeq(hosts, 1, 3), N9_ORDER) :
        dup \in BOOLEAN}

\* The advertising interval follows the period where the controller allows it.
Sweep(hosts) ==
    {Cycle(<<"sweep", publish>>, CONTROLLER_FAST,
           RadioFor(LET adv == (5 * publish) \div 2 IN IF adv > ADV_FLOOR THEN adv ELSE ADV_FLOOR,
                    None, 200, 200),
           2, publish, N6Pair(hosts), N6_ORDER) :
        publish \in {160, 320, 800, 1600}}

N18(hosts) ==
    {Cycle(<<"n18", name>>, CONTROLLER_50HZ, RadioDithered(400, 100), 6, 400,
           SubSeq(hosts, 1, 6), N18_ORDER) : name \in {"50hz", "50hz-scan100"}}

N30(hosts) ==
    {Clustered(<<"n30", "clusters">>, CONTROLLER, AsFastAsAllowed, 4000, hosts)}
    \cup {Thirty(<<"n30", g[1]>>, CONTROLLER, AsFastAsAllowed, 4000, g[2], hosts) :
            g \in {<<"ring-directed", DirectedRing>>, <<"ring4", Ring4>>,
                   <<"line-directed", DirectedLine>>}}

N30At50Hz(hosts) ==
    LET radio == RadioDithered(400, 100)
    IN  {Thirty(<<"n30", "dring", "50hz">>, CONTROLLER_50HZ, radio, 400, DirectedRing, hosts),
         Thirty(<<"n30", "ring4", "50hz">>, CONTROLLER_50HZ, radio, 400, Ring4, hosts),
         Clustered(<<"n30", "clusters", "50hz">>, CONTROLLER_50HZ, radio, 400, hosts)}

\* The three graphs at one rate.  The manifests at 40 Hz are built twice, and
\* the second, at 95% duty, is the one that is kept.
N30At(rate, controller, publish, hosts) ==
    LET radio == RadioDithered(publish, 95)
    IN  {Thirty(<<"n30", "dring", rate>>, controller, radio, publish, DirectedRing, hosts),
         Thirty(<<"n30", "ring4", rate>>, controller, radio, publish, Ring4, hosts),
         Clustered(<<"n30", "clusters", rate>>, controller, radio, publish, hosts)}

manifests(hosts) ==
    UNION {{dg2(place, p) : place \in {"air", "wire"}, p \in {"per", "rep"}},
           IF Len(hosts) < 5 THEN {}
           ELSE {dg5(place, p) : place \in {"mixed", "bridge5"}, p \in {"per", "rep"}},
           IF Len(hosts) < 2 THEN {}
           ELSE N4(hosts) \cup N6Fast(hosts) \cup N6At50Hz(hosts) \cup N6Ring(hosts)
                \cup Sweep(hosts),
           IF Len(hosts) < 3 THEN {} ELSE N9(hosts) \cup N9Filtering(hosts),
           IF Len(hosts) < 6 THEN {} ELSE N18(hosts),
           IF Len(hosts) < 10 THEN {}
           ELSE N30(hosts) \cup N30At50Hz(hosts) \cup N30At("40hz", CONTROLLER_40HZ, 500, hosts)
                \cup N30At("25hz", CONTROLLER_25HZ, 800, hosts)}

TEST_SET == {<<"n4", "noble">>, <<"n9", "50hz">>} \cup {<<"sweep", p>> : p \in {160, 320, 800, 1600}}
CAMPAIGN_SET ==
    {<<"n30", g, rate>> : g \in {"dring", "ring4", "clusters"}, rate \in {"40hz", "25hz"}}

\* main: --only, --all, --campaign or a bare run; what it writes, a manifest
\* that check refuses included.
Written(hosts, asked) ==
    LET built == manifests(hosts)
        names == {m.name : m \in built}
        wanted == CASE asked.only # {} -> IF asked.only \subseteq names THEN asked.only ELSE {}
                    [] asked.all       -> names
                    [] asked.campaign  -> TEST_SET \cup CAMPAIGN_SET
                    [] OTHER           -> TEST_SET
    IN  {m \in built : m.name \in wanted}

-----------------------------------------------------------------------------
(* Properties.                                                              *)

Ours == {d \in Docs : d.name # None}

\* Every link of the fleet joins two hosts, for a link inside one never
\* reaches the radio, but for the links of a cut-point: make_manifests.py:706
\* wants every edge to cross hosts, and the cut-points 21 and 30 read the two
\* agents of their own host.
LinksCrossHosts(d, nodes) ==
    \A i \in DOMAIN nodes : \A j \in ToSet(nodes[i].neighbors) :
        \/ nodes[i].ip # nodes[j].ip
        \/ d.event # None /\ {i, j} \cap d.event.nodes # {}

\* Each published value is radiated by the slowest transmitter, which takes
\* the upper end of the advertising range, with the margin of K_MIN: unless it
\* advertises as fast as it may, follows the period, or is the one manifest
\* that varies the range (make_manifests.py:346).
ValuesReachTheAir(d, publish) ==
    LET r == d.radio
    IN  IF r.advMax = None THEN r.adv \in {ADV_FLOOR, (5 * publish) \div 2}
        ELSE r.advMax = ADV_FLOOR \/ 11 * r.advMax <= 25 * publish \/ d.name = <<"n9", "jitter">>

\* The clusters run in three pieces until the event joins them, and the other
\* experiments in one (make_manifests.py:1171).
EventMerges(d, nodes) ==
    LET joined == [i \in DOMAIN nodes |->
                     [nodes[i] EXCEPT !.enabled = @ \/ i \in d.event.nodes]]
        pieces == Cardinality(Components(BuildGraph(nodes, TRUE)))
    IN  IF d.event = None THEN pieces = 1
        ELSE pieces = 3 /\ Cardinality(Components(BuildGraph(joined, TRUE))) = 1

\* Two manifests that are compared differ in nothing but what the comparison
\* is about: the filter, the edges, the agents' types, the profile, the rate
\* (make_manifests.py:978, 1262, 593, 613, 1012).  The advertising pair of nine
\* agents is documented to differ in the upper interval alone (:955) and differs
\* in the scan timing too; the scan-duty pair of eighteen is documented to
\* differ in the window (:1116) and does not differ at all.
Paired(d, e) ==
    LET n == d.name  m == e.name
        Bench(x)   == {x.nodes[i].ip : i \in DOMAIN x.nodes}
        Rest(x)    == [x EXCEPT !.name = None]
        Filter(x)  == [Rest(x) EXCEPT !.radio.dup = None]
        Radio(x)   == [Rest(x) EXCEPT !.radio = None]
        Window(x)  == [Rest(x) EXCEPT !.radio.scanWindow = None]
        Edges(x)   == [Rest(x) EXCEPT !.structure = None]
        Types(x)   == [Rest(x) EXCEPT !.nodes =
                         [i \in DOMAIN @ |-> [@[i] EXCEPT !.type = None]]]
        Profile(x) == [Rest(x) EXCEPT !.controller.microgrid.profile = None,
                                      !.controller.microgrid.eps = None]
        Rate(x)    == [Rest(x) EXCEPT !.radio.adv = None, !.nodes =
                         [i \in DOMAIN @ |-> [@[i] EXCEPT !.publish = None]]]
    IN  n[1] = m[1] =>
          /\ {n, m} = {<<"n9", "k2">>, <<"n9", "k2-dupfilter">>} => Filter(d) = Filter(e)
          /\ {n, m} = {<<"n9", "50hz">>, <<"n9", "jitter">>} => Radio(d) = Radio(e)
          /\ {n, m} = {<<"n18", "50hz">>, <<"n18", "50hz-scan100">>} => Window(d) = Window(e)
          /\ n[1] = "n30" /\ Len(n) = 3 /\ Len(m) = 3 /\ "clusters" \notin {n[2], m[2]} =>
                (n[3] = m[3] => Edges(d) = Edges(e))
          /\ n[1] \in {"dg2", "dg5"} =>
                /\ n[3] = m[3] => Types(d) = Types(e)
                /\ n[2] = m[2] => Profile(d) = Profile(e)
          /\ n[1] = "sweep" /\ Bench(d) = Bench(e) => Rate(d) = Rate(e)

\* Every manifest of the experiments can carry its experiment: the hub loads
\* and admits it, its links cross hosts and media (a cut-point's excepted), no
\* disturbance repeats within a run, agents publish whole numbers of control
\* periods, at a rate the radios carry, and what is compared is comparable.
ExperimentsAreSound ==
    (stage = "read" /\ doc.name # None) =>
        LET m == [doc EXCEPT !.nodes = Expand(doc)]  c == m.controller
        IN  /\ LoadAccepts(doc) /\ Assignable(m) /\ Check(m).errors = {}
            /\ LinksCrossHosts(doc, m.nodes)
            /\ EventMerges(doc, m.nodes)
            /\ c.disturbance.enabled => c.disturbance.samples * c.dt >= 1200000
            /\ \A i \in Ids : /\ m.nodes[i].publish % c.dt = 0
                              /\ ValuesReachTheAir(doc, m.nodes[i].publish)
            /\ \A d \in Ours : Paired(doc, d)

\* What the generators build can be used: a graph is the one its generator
\* documents, and the experiments built from the graphs are sound
\* (generators.py, make_manifests.py).
GeneratedAreSound == GraphsAsDocumented /\ ExperimentsAreSound
=============================================================================
