------------------------------ MODULE Manifests -----------------------------
(* From a manifest to the parameters a fleet runs: the hub loads and checks *)
(* the document, builds every agent's assignment, changes it by the options *)
(* of the command line, and configures the agents one by one; a relay turns *)
(* its assignment into the positional payloads of the serial frames, which  *)
(* the board reads back, and a Pi agent builds its controller.  A session   *)
(* configures the same agents again for every arm.                          *)
(*                                                                          *)
(* Engineering values count quarters of a step of the wire grid and periods *)
(* quarters of a millisecond, so that what is not on the grid is rounded,   *)
(* some of it to zero; radio times are tenths of a millisecond.             *)
EXTENDS Topology, BoardParams, RunColumns, BoardLaw, PiLaw

CONSTANTS
    Docs,           \* the documents the hub may be given
    Boards,         \* the parameters earlier sessions may have left on a board
    Draw,           \* the initial conditions drawn for each id, from its seed
    Periods,        \* values given to --publish-period
    MaxNeighbors,   \* MAX_NEIGHBORS of a NETWORK frame
    WordMax,        \* the largest number an int32 field of a frame takes
    InputRuns,      \* what a running law may read, tick by tick
    Fielded(_),     \* bound: of these documents the fleet is configured and run;
                    \* the others are loaded and checked only
    MaxCut          \* bound: the largest fleet whose cuts are enumerated

VARIABLES
    doc,        \* the document read
    forced,     \* --force
    stage,      \* how far the hub is
    manifest,   \* the loaded document, its structure expanded to neighbours
    report,     \* what check found: errors and warnings
    period,     \* the --publish-period in force, or None
    arm,        \* the arm chosen, or None
    assigned,   \* id -> its assignment
    board,      \* id -> the parameters its board holds
    law,        \* id -> the law the agent runs, or None
    told,       \* id -> outcome of its last configure
    stats,      \* id -> what its board said of itself at configure, or None
    logged,     \* the last row logged: of which agent, and its cells; or None
    changed,    \* the nodes this run's scheduled event was applied to
    altered     \* the nodes whose assignment an event of this session changed

vars == <<doc, forced, stage, manifest, report, period, arm, assigned, board,
          law, told, stats, logged, changed, altered>>

reports == <<stats, logged>>
events == <<changed, altered>>

Arms == {"LC0", "LC+", "AA", "DZ"}
Microgrid == {"microgrid_adaptive", "microgrid_lc"}

-----------------------------------------------------------------------------
(* The types of a document, models.py, and of microgrid_blocks.  The       *)
(* controller is one that is registered, an event sets the enable switch.  *)

Coordinate == Int \X Int
NodePlantSpecs == [kappa : Int, S : Coordinate, X0 : Coordinate, z0 : Coordinate]
NodeSpecs ==
    [type : {"ble", "wifi", "bridge"}, ip : Nat, enabled : BOOLEAN, publish : Int,
     neighbors : Seq(Int), plant : NodePlantSpecs \cup {None}]
MicrogridSpecs(ids) ==
    [interface : {"adaptive", "lc"}, profile : {"rep", "per"}, p_max : Int, q_max : Int,
     T_o : Int, alpha_0 : Int, delta_o : Int, kappa_o : Int, xi : Int, c_0 : Int,
     mu_max : Int, gamma : Int, eps : [ids -> Int], vartheta0 : Int, T_c : Int,
     beta_c : Int, Phi : Int, terminal : BOOLEAN, adapt_band : Int \cup {None}]
DisturbanceSpecs ==
    [enabled : BOOLEAN, sine_amplitude : Int, frequency : Int, phase : Int \cup {None},
     noise_amplitude : Int, noise_offset : Int, beta : Int, samples : Int]
ControllerSpecs(ids) ==
    [name : {"finite_time_adaptive"} \cup Microgrid, dt : Int, eta : Int, gain_ij : Int,
     alpha : Int, delta : Int, disturbance : DisturbanceSpecs,
     microgrid : MicrogridSpecs(ids) \cup {None}]

IsDocument(d) ==
    /\ DOMAIN d = {"name", "nodes", "structure", "controller", "radio", "coordination", "event"}
    /\ d = [f \in DOMAIN d |-> d[f]]
    /\ DOMAIN d.nodes \subseteq 1 .. 255 /\ d.nodes \in [DOMAIN d.nodes -> NodeSpecs]
    /\ d.controller \in ControllerSpecs(DOMAIN d.nodes)
    /\ d.coordination # None =>
         /\ d.coordination.reference \in Coordinate
         /\ \A i \in DOMAIN d.coordination.pinned : d.coordination.pinned[i] \in Int
    /\ d.event # None => d.event.enabled \in BOOLEAN

Blocks ==
    [kind : {"adaptive", "lc"}, degree : Nat, X0 : Coordinate, z0 : Coordinate,
     plant : [kappa : Int, S1 : Int, S2 : Int, profile : {"rep", "per"}, p_max : Int, q_max : Int],
     virtual : [T_o : Int, alpha_0 : Int, delta_o : Int, kappa_o : Int, xi : Int, c_0 : Int,
                b : Int, rP : Int, rQ : Int],
     interface : [gamma : Int, eps : Int, vartheta0 : Int, mu_max : Int]
                 \cup [T_c : Int, beta_c : Int, Phi : Int, terminal : BOOLEAN, mu_max : Int,
                       adapt_band : Int \cup {None}, delta_c : Int]]

ASSUME ManifestsAssumption ==
    /\ {MaxNeighbors, WordMax, MaxCut} \subseteq Nat
    /\ None \notin Periods /\ None \notin Arms /\ None \notin Blocks
    /\ \A d \in Docs : IsDocument(d) /\ Fielded(d) \in BOOLEAN
    /\ \A b \in Boards : DOMAIN b = DOMAIN BootParams

-----------------------------------------------------------------------------
(* The document: models.py and loader.py.                                  *)

Expand(d) ==
    IF d.structure = None THEN d.nodes
    ELSE LET links == Generate(d.structure)
         IN  [i \in DOMAIN d.nodes |->
                [d.nodes[i] EXCEPT !.neighbors = IF i \in DOMAIN links THEN links[i] ELSE <<>>]]

\* NodeSpec and ExperimentManifest._coherent.
NodesValid(nodes) ==
    \A i \in DOMAIN nodes :
        /\ nodes[i].neighbors \in Seq(DOMAIN nodes \ {i}) /\ Distinct(nodes[i].neighbors)
        /\ nodes[i].publish > 0
        /\ nodes[i].plant # None => nodes[i].plant.kappa > 0
        /\ \A j \in DOMAIN nodes \ {i} :
              <<nodes[i].ip, nodes[i].type>> # <<nodes[j].ip, nodes[j].type>>

LargestAlpha == 4000000         \* 1.0, in quarters of 1e-6

\* ControllerSpec, MicrogridSpec, NodePlantSpec, DisturbanceSpec.
ControllerValid(c) ==
    /\ c.dt > 0 /\ c.alpha \in 1 .. LargestAlpha /\ c.disturbance.samples > 0
    /\ \A f \in {"noise_amplitude", "sine_amplitude", "frequency"} : c.disturbance[f] >= 0
    /\ c.microgrid # None =>
         /\ \A f \in {"p_max", "q_max", "T_o", "alpha_0", "delta_o", "mu_max", "T_c", "beta_c"} :
               c.microgrid[f] > 0
         /\ c.microgrid.gamma >= 0
         /\ \A i \in DOMAIN c.microgrid.eps : c.microgrid.eps[i] >= 0

LongestInterval == 102400       \* tenths of a millisecond, as all radio times

\* RadioSpec, its _adv_range_ordered and _window_fits.
RadioValid(r) ==
    /\ r.adv \in 1000 .. LongestInterval
    /\ r.advMax # None => r.advMax \in r.adv .. LongestInterval
    /\ {r.scanInterval, r.scanWindow} \subseteq 25 .. LongestInterval
    /\ r.scanWindow <= r.scanInterval

\* load_manifest: it raises, or it yields the expanded manifest.
LoadAccepts(d) ==
    /\ d.structure # None =>
         /\ \A i \in DOMAIN d.nodes : d.nodes[i].neighbors = <<>>
         /\ Generates(d.structure)
         /\ DOMAIN Generate(d.structure) \subseteq DOMAIN d.nodes
    /\ NodesValid(Expand(d))
    /\ ControllerValid(d.controller)
    /\ RadioValid(d.radio)
    /\ d.coordination # None =>
         \A i \in DOMAIN d.coordination.pinned : d.coordination.pinned[i] > 0

Pins(m) == IF m.coordination = None THEN {} ELSE DOMAIN m.coordination.pinned

\* check: the errors that stop a run, and the warnings that do not.
Check(m) ==
    [errors   |-> GraphErrors(m.nodes)
                  \cup (IF m.coordination = None THEN {} ELSE ReferenceErrors(m.nodes, Pins(m))),
     warnings |-> GraphWarnings(m.nodes, Pins(m))
                  \cup {w \in {"faster than dt", "faster than advertising"} :
                          \E i \in DOMAIN m.nodes :
                             \/ w = "faster than dt" /\ m.nodes[i].publish < m.controller.dt
                             \/ /\ w = "faster than advertising"
                                /\ m.nodes[i].type # "wifi"
                                /\ 5 * m.nodes[i].publish < 2 * m.radio.adv}]

\* arm_manifest: one arm's fields changed, everything else shared.
ArmManifest(m, a) ==
    LET adaptive == a \in {"AA", "DZ"}
        g == m.controller.microgrid
        settings == [g EXCEPT !.interface = IF adaptive THEN "adaptive" ELSE "lc",
                              !.eps = IF a = "AA" THEN [i \in DOMAIN @ |-> 0] ELSE @,
                              !.terminal = IF adaptive THEN @ ELSE a = "LC0"]
    IN  [m EXCEPT !.controller =
            [@ EXCEPT !.name = IF adaptive THEN "microgrid_adaptive" ELSE "microgrid_lc",
                      !.microgrid = settings]]

-----------------------------------------------------------------------------
(* The assignment: loader.py and assignment.py.                            *)

\* Initial conditions: drawn in the band of the agent's type.
IcLow(type) == CASE type = "ble" -> 0 [] type = "wifi" -> 40000000 [] type = "bridge" -> 80000000

\* The reference is put in for a pinned agent only.
Seen(c, b) == IF c = None \/ b = 0 THEN <<0, 0>> ELSE c.reference

\* microgrid_blocks, carried as dicts by _microgrid_dicts.
MicrogridBlocks(m, i) ==
    LET g == m.controller.microgrid  n == m.nodes[i]  c == m.coordination
        b == IF c # None /\ i \in Pins(m) THEN c.pinned[i] ELSE 0
        ref == Seen(c, b)
    IN  [kind |-> g.interface, degree |-> Len(n.neighbors),
         plant |-> [kappa |-> n.plant.kappa, S1 |-> n.plant.S[1], S2 |-> n.plant.S[2],
                    profile |-> g.profile, p_max |-> g.p_max, q_max |-> g.q_max],
         virtual |-> [T_o |-> g.T_o, alpha_0 |-> g.alpha_0, delta_o |-> g.delta_o,
                      kappa_o |-> g.kappa_o, xi |-> g.xi, c_0 |-> g.c_0,
                      b |-> b, rP |-> ref[1], rQ |-> ref[2]],
         interface |-> IF g.interface = "adaptive"
                       THEN [gamma |-> g.gamma, eps |-> g.eps[i],
                             vartheta0 |-> g.vartheta0, mu_max |-> g.mu_max]
                       ELSE [T_c |-> g.T_c, beta_c |-> g.beta_c, Phi |-> g.Phi,
                             terminal |-> g.terminal, mu_max |-> g.mu_max,
                             adapt_band |-> g.adapt_band, delta_c |-> 0],
         X0 |-> n.plant.X0, z0 |-> n.plant.z0]

\* The defaults of ControllerParams, which a microgrid assignment carries.
DefaultScalars ==
    [state |-> 0, vstate |-> 0, vartheta |-> 0, eta |-> 200, gain_ij |-> 400000,
     alpha |-> 2000000, delta |-> 40000,
     disturbance |-> [enabled |-> FALSE, sine_amplitude |-> 0, frequency |-> 0,
                      phase |-> 0, noise_amplitude |-> 0, noise_offset |-> 0,
                      beta |-> 0, samples |-> 1000]]

\* controller_params_for, under the scalar law.
Scalars(m, i) ==
    LET c == m.controller  d == c.disturbance
    IN  [state |-> IcLow(m.nodes[i].type) + Draw[i].state,
         vstate |-> IcLow(m.nodes[i].type) + Draw[i].vstate,
         vartheta |-> 0, eta |-> c.eta, gain_ij |-> c.gain_ij,
         alpha |-> c.alpha, delta |-> c.delta,
         disturbance |-> [d EXCEPT !.phase = IF @ = None THEN Draw[i].phase ELSE @]]

\* assignment_for raises on a microgrid agent without a plant.
Assignable(m) ==
    m.controller.microgrid # None => \A i \in DOMAIN m.nodes : m.nodes[i].plant # None

\* assignment_for.
Assignment(m, i) ==
    LET n == m.nodes[i]
    IN  [node_id |-> i, type |-> n.type, enabled |-> n.enabled,
         neighbors |-> n.neighbors, dt |-> m.controller.dt, publish |-> n.publish,
         controller |-> m.controller.name,
         scalar |-> IF m.controller.microgrid = None THEN Scalars(m, i) ELSE DefaultScalars,
         microgrid |-> IF m.controller.microgrid = None THEN None ELSE MicrogridBlocks(m, i),
         radio |-> m.radio]

Assignments(m) == [i \in DOMAIN m.nodes |-> Assignment(m, i)]

-----------------------------------------------------------------------------
(* The frames of one relay: relay.py and serial/proto.py.                  *)

Quantize(v) == (v + 2) \div 4                   \* round half up
RoundMs(t) == IF t % 8 = 2 THEN t \div 4 ELSE (t + 2) \div 4     \* half to even
RadioUnits(t) == (16 * t + 50) \div 100         \* of 0.625 ms

AlgorithmFields == <<"dt", "clock", "state", "vstate", "vartheta", "counter",
                     "gain_ij", "delta", "eta", "alpha">>
DisturbanceFields == <<"enabled", "sine_amplitude", "frequency", "phase",
                       "noise_amplitude", "noise_offset", "beta", "samples">>
PlantFields == <<"profile", "kappa", "S1", "S2", "p_max", "q_max", "X0_P", "X0_Q">>
VirtualFields == <<"T_o", "alpha_0", "delta_o", "kappa_o", "xi", "c_0", "b",
                   "rP", "rQ", "degree", "z0_P", "z0_Q">>
InterfaceFields == <<"law", "terminal", "mu_max", "gamma", "eps", "vartheta_0",
                     "T_c", "beta_c", "Phi", "delta_c", "adapt_band">>

\* struct.pack: the fields in wire order.
Pack(fields, r) == [k \in DOMAIN fields |-> r[fields[k]]]
Bit(flag) == IF flag THEN 1 ELSE 0

NetworkPayload(a) == <<Bit(a.enabled), a.node_id>> \o a.neighbors

AlgorithmRecord(a) ==
    [dt |-> RoundMs(a.dt), clock |-> RoundMs(a.publish), counter |-> 0,
     state |-> Quantize(a.scalar.state), vstate |-> Quantize(a.scalar.vstate),
     vartheta |-> Quantize(a.scalar.vartheta), gain_ij |-> Quantize(a.scalar.gain_ij),
     delta |-> Quantize(a.scalar.delta), eta |-> Quantize(a.scalar.eta),
     alpha |-> Quantize(a.scalar.alpha)]

DisturbanceRecord(a) ==
    [f \in ToSet(DisturbanceFields) |->
        CASE f = "enabled" -> Bit(a.scalar.disturbance.enabled)
          [] f = "samples" -> a.scalar.disturbance.samples
          [] OTHER         -> Quantize(a.scalar.disturbance[f])]

PlantRecord(g) ==
    [profile |-> IF g.plant.profile = "rep" THEN 0 ELSE 1,
     kappa |-> Quantize(g.plant.kappa), S1 |-> Quantize(g.plant.S1),
     S2 |-> Quantize(g.plant.S2), p_max |-> Quantize(g.plant.p_max),
     q_max |-> Quantize(g.plant.q_max),
     X0_P |-> Quantize(g.X0[1]), X0_Q |-> Quantize(g.X0[2])]

VirtualRecord(g) ==
    [f \in ToSet(VirtualFields) |->
        CASE f = "degree"           -> g.degree
          [] f = "z0_P"             -> Quantize(g.z0[1])
          [] f = "z0_Q"             -> Quantize(g.z0[2])
          [] f \in {"T_o", "delta_o"} -> RoundMs(g.virtual[f])
          [] OTHER                  -> Quantize(g.virtual[f])]

\* LAW_MICROGRID_ADAPTIVE or LAW_MICROGRID_LC; the other family's fields are 0.
InterfaceRecord(g) ==
    LET i == g.interface
    IN  IF g.kind = "lc"
        THEN [law |-> 2, terminal |-> Bit(i.terminal), mu_max |-> Quantize(i.mu_max),
              gamma |-> 0, eps |-> 0, vartheta_0 |-> 0,
              T_c |-> RoundMs(i.T_c), beta_c |-> Quantize(i.beta_c),
              Phi |-> Quantize(i.Phi), delta_c |-> RoundMs(i.delta_c),
              adapt_band |-> IF i.adapt_band = None THEN -1 ELSE Quantize(i.adapt_band)]
        ELSE [law |-> 1, terminal |-> 0, mu_max |-> Quantize(i.mu_max),
              gamma |-> Quantize(i.gamma), eps |-> Quantize(i.eps),
              vartheta_0 |-> Quantize(i.vartheta0), T_c |-> 0, beta_c |-> 0,
              Phi |-> 0, delta_c |-> 0, adapt_band |-> -1]

RadioPayload(r) ==
    <<RadioUnits(r.adv), RadioUnits(IF r.advMax = None THEN r.adv ELSE r.advMax),
      RadioUnits(r.scanInterval), RadioUnits(r.scanWindow), Bit(~r.passive)>>

\* assignment_to_frames and microgrid_frames, then the RADIO frame: the order
\* BleRelay.configure sends them in.
Frames(a) ==
    <<[type |-> "NETWORK", payload |-> NetworkPayload(a)],
      [type |-> "ALGORITHM", payload |-> Pack(AlgorithmFields, AlgorithmRecord(a))],
      [type |-> "DISTURBANCE", payload |-> Pack(DisturbanceFields, DisturbanceRecord(a))]>>
    \o (IF a.microgrid = None THEN <<>>
        ELSE <<[type |-> "MG_PLANT", payload |-> Pack(PlantFields, PlantRecord(a.microgrid))],
               [type |-> "MG_VIRTUAL", payload |-> Pack(VirtualFields, VirtualRecord(a.microgrid))],
               [type |-> "MG_IFACE", payload |-> Pack(InterfaceFields, InterfaceRecord(a.microgrid))]>>)
    \o <<[type |-> "RADIO", payload |-> RadioPayload(a.radio)]>>

\* What the encoders let through: nothing is sent when one of them raises.
Int32s(a) ==
    UNION {ToSet(Frames(a)[k].payload) :
              k \in {j \in DOMAIN Frames(a) : Frames(a)[j].type \notin {"NETWORK", "RADIO"}}}
Encodes(a) ==
    /\ Len(a.neighbors) <= MaxNeighbors
    /\ Int32s(a) \subseteq -WordMax - 1 .. WordMax
    /\ AlgorithmRecord(a).dt > 0 /\ AlgorithmRecord(a).clock > 0 /\ AlgorithmRecord(a).alpha > 0
    /\ DisturbanceRecord(a).samples > 0
    /\ a.microgrid # None =>
         LET p == PlantRecord(a.microgrid)  v == VirtualRecord(a.microgrid)
         IN  /\ p.kappa > 0 /\ p.p_max > 0 /\ p.q_max > 0
             /\ v.b # 0 \/ (v.rP = 0 /\ v.rQ = 0)
    /\ a.radio.scanWindow <= a.radio.scanInterval
    /\ \A k \in 1 .. 4 : RadioPayload(a.radio)[k] \in 4 .. 16384

\* create: the registered controller of that name is built, or it raises.
LawOf(a) == CASE a.controller = "finite_time_adaptive" -> 0
              [] a.controller = "microgrid_adaptive"   -> 1
              [] a.controller = "microgrid_lc"         -> 2
Creates(a) ==
    a.controller \in Microgrid =>
        /\ a.microgrid # None
        /\ a.microgrid.kind = IF a.controller = "microgrid_lc" THEN "lc" ELSE "adaptive"

\* What a controller is built of, its values on the grid of the wire.
OnGrid(a) ==
    LET c == a.scalar  g == a.microgrid  i == g.interface
    IN  IF g = None
        THEN [kind |-> "scalar", dt |-> RoundMs(a.dt),
              state |-> Quantize(c.state), vstate |-> Quantize(c.vstate),
              vartheta |-> Quantize(c.vartheta), eta |-> Quantize(c.eta),
              gain_ij |-> Quantize(c.gain_ij), alpha |-> Quantize(c.alpha),
              delta |-> Quantize(c.delta),
              disturbance |->
                [f \in DOMAIN c.disturbance |->
                    IF f \in {"enabled", "samples"} THEN c.disturbance[f]
                    ELSE Quantize(c.disturbance[f])]]
        ELSE [kind |-> g.kind, dt |-> RoundMs(a.dt), degree |-> g.degree,
              plant |-> [f \in DOMAIN g.plant |->
                           IF f = "profile" THEN g.plant[f] ELSE Quantize(g.plant[f])],
              virtual |-> [f \in DOMAIN g.virtual |->
                             IF f \in {"T_o", "delta_o"} THEN RoundMs(g.virtual[f])
                             ELSE Quantize(g.virtual[f])],
              interface |-> [f \in DOMAIN i |->
                               CASE f = "terminal"                    -> i[f]
                                 [] f = "T_c"                         -> RoundMs(i[f])
                                 [] f = "delta_c"                     -> None
                                 [] f = "adapt_band" /\ i[f] = None   -> None
                                 [] OTHER                             -> Quantize(i[f])],
              X0 |-> <<Quantize(g.X0[1]), Quantize(g.X0[2])>>,
              z0 |-> <<Quantize(g.z0[1]), Quantize(g.z0[2])>>]

-----------------------------------------------------------------------------
(* The hub's session: hub/__main__.py, runner.py and AgentService.         *)

Ids == DOMAIN doc.nodes

Init ==
    /\ doc \in Docs
    /\ forced \in BOOLEAN
    /\ stage = "read"
    /\ manifest = None /\ report = None
    /\ period = None /\ arm = None
    /\ assigned = None
    /\ board \in {[i \in Ids |-> b] : b \in Boards}
    /\ law = [i \in Ids |-> None]
    /\ told = [i \in Ids |-> "none"]
    /\ stats = [i \in Ids |-> None] /\ logged = None
    /\ changed = {} /\ altered = {}

\* load_manifest_file.
LoadManifest ==
    /\ stage = "read"
    /\ IF LoadAccepts(doc)
       THEN /\ stage' = "loaded"
            /\ manifest' = [doc EXCEPT !.nodes = Expand(doc)]
       ELSE stage' = "refused" /\ UNCHANGED manifest
    /\ UNCHANGED <<doc, forced, report, period, arm, assigned, board, law, told, reports, events>>

\* check, the refusal, and ExperimentRunner with its assignments.
CheckManifest ==
    /\ stage = "loaded"
    /\ report' = Check(manifest)
    /\ IF (report'.errors # {} /\ ~forced) \/ ~Assignable(manifest)
       THEN stage' = "refused" /\ UNCHANGED assigned
       ELSE stage' = "ready" /\ assigned' = Assignments(manifest)
    /\ altered' = {}
    /\ UNCHANGED <<doc, forced, manifest, period, arm, board, law, told, reports, changed>>

\* --publish-period, before the session starts.
OverridePeriod(p) ==
    /\ stage = "ready" /\ period = None /\ arm = None /\ \A i \in Ids : told[i] = "none"
    /\ IF p % manifest.controller.dt # 0 \/ (5 * p < 2 * manifest.radio.adv /\ ~forced)
       THEN stage' = "refused" /\ UNCHANGED <<period, assigned>>
       ELSE /\ UNCHANGED stage
            /\ period' = p
            /\ assigned' = [i \in Ids |-> [assigned[i] EXCEPT !.publish = p]]
    /\ UNCHANGED <<doc, forced, manifest, report, arm, board, law, told, reports, events>>

\* set_arm, between runs: the assignments are rebuilt from the manifest, without
\* the period the command line gave and without what an event changed.
SetArm(a) ==
    /\ stage = "ready" /\ arm # a
    /\ manifest.controller.microgrid # None
    /\ arm' = a
    /\ assigned' = Assignments(ArmManifest(manifest, a))
    /\ altered' = {}
    /\ \A i \in Ids : told[i] = "none"
    /\ UNCHANGED <<doc, forced, stage, manifest, report, period, board, law, told, reports, changed>>

\* read_stats: None when the payload is another layout's.
ReadStats(b) ==
    LET p == StatsPayload(Vars.counters, b.radio)
    IN  IF Len(p) = StatsLength /\ Take(p, 0, 1) = 1 THEN DecodeStats(p) ELSE None

\* configure of a relay: nothing is sent unless every payload encodes, and
\* the board keeps what it took before a frame it refused.  A board of older
\* firmware answers no STATS request, which leaves None and changes nothing else.
ConfigureBoard(i, a) ==
    LET r == Configured(board[i], Frames(a))
    IN  IF ~Encodes(a)
        THEN told' = [told EXCEPT ![i] = "raised"] /\ UNCHANGED <<board, law, stats>>
        ELSE /\ stats' = IF r.ok THEN [stats EXCEPT ![i] = ReadStats(r.board)] ELSE stats
             /\ board' = [board EXCEPT ![i] = r.board]
             /\ law' = [law EXCEPT ![i] = r.board.law]
             /\ told' = [told EXCEPT ![i] = IF r.ok THEN "ok" ELSE "rejected"]

\* configure of a Pi agent: its controller is built anew.
ConfigurePi(i, a) ==
    /\ IF Creates(a)
       THEN law' = [law EXCEPT ![i] = LawOf(a)] /\ told' = [told EXCEPT ![i] = "ok"]
       ELSE UNCHANGED law /\ told' = [told EXCEPT ![i] = "raised"]
    /\ UNCHANGED <<board, stats>>

Configure(i) ==
    /\ stage = "ready" /\ told[i] = "none" /\ Fielded(doc)
    /\ IF assigned[i].type = "ble" THEN ConfigureBoard(i, assigned[i])
       ELSE ConfigurePi(i, assigned[i])
    /\ UNCHANGED <<doc, forced, stage, manifest, report, period, arm, assigned, logged, events>>

\* The trigger: a board under a law of the microgrid resets it once more.
Trigger ==
    /\ stage = "ready" /\ \A i \in Ids : told[i] = "ok"
    /\ stage' = "running"
    /\ board' = [i \in Ids |-> IF doc.nodes[i].type = "ble" /\ board[i].law # 0
                               THEN Reset(board[i]) ELSE board[i]]
    /\ UNCHANGED <<doc, forced, manifest, report, period, arm, assigned, law, told, reports, events>>

\* _apply_event on one of its nodes: the assignment is copied with the change
\* and the running agent configured with it; a local agent is updated in
\* place, and the hub takes the change back when configure fails.
ApplyEvent(i) ==
    /\ stage = "running" /\ i \notin changed
    /\ doc.event # None /\ i \in doc.event.nodes
    /\ changed' = changed \cup {i}
    /\ LET a == [assigned[i] EXCEPT !.enabled = doc.event.enabled]
       IN  IF a.type = "ble"
           THEN /\ ConfigureBoard(i, a)
                /\ IF told'[i] = "ok"
                   THEN assigned' = [assigned EXCEPT ![i] = a] /\ altered' = altered \cup {i}
                   ELSE UNCHANGED <<assigned, altered>>
           ELSE /\ assigned' = [assigned EXCEPT ![i] = a]
                /\ altered' = altered \cup {i}
                /\ UNCHANGED <<board, law, told, stats>>
    /\ UNCHANGED <<doc, forced, stage, manifest, report, period, arm, logged>>

Logged(i, row) == logged' = [of |-> i, cells |-> row]

\* A report of a running board reaches its relay, which logs it under the
\* columns the run was started with.
Report(i) ==
    LET a == assigned[i]
        r == DecodeState(ReportPayload(board[i].law, Len(board[i].neighbors)), MaxNeighbors)
    IN  /\ stage = "running" /\ a.type = "ble"
        /\ Logged(i, IF r.ok THEN RelayRow(a.controller, a.neighbors, r) ELSE Dropped)
        /\ UNCHANGED <<doc, forced, stage, manifest, report, period, arm, assigned, board,
                       law, told, stats, events>>

\* A control period of a running Pi agent, stepping or disabled.
Sample(i) ==
    LET a == assigned[i]
    IN  /\ stage = "running" /\ a.type # "ble"
        /\ Logged(i, PiRow(a.controller, a.enabled, a.neighbors))
        /\ UNCHANGED <<doc, forced, stage, manifest, report, period, arm, assigned, board,
                       law, told, stats, events>>

\* The run is over; the next one, a repeat or another arm, configures again:
\* a repeat with the assignments as the event left them.
Finish ==
    /\ stage = "running"
    /\ stage' = "ready"
    /\ told' = [i \in Ids |-> "none"] /\ changed' = {}
    /\ logged' = None
    /\ UNCHANGED <<doc, forced, manifest, report, period, arm, assigned, board, law, stats, altered>>

Next ==
    \/ LoadManifest
    \/ CheckManifest
    \/ \E p \in Periods : OverridePeriod(p)
    \/ \E a \in Arms : SetArm(a)
    \/ \E i \in Ids : Configure(i)
    \/ Trigger
    \/ \E i \in Ids : ApplyEvent(i)
    \/ \E i \in Ids : Report(i) \/ Sample(i)
    \/ Finish

Spec == Init /\ [][Next]_vars

-----------------------------------------------------------------------------
(* Properties.                                                             *)

\* What the manifest says under the arm in force.
InForce == IF arm = None THEN manifest ELSE ArmManifest(manifest, arm)

\* What the hub may change: the period by the command line, which choosing an
\* arm undoes, and the enable switch by the scheduled event.
PeriodOf(i) == IF period # None /\ arm = None THEN period ELSE manifest.nodes[i].publish
SwitchOf(i) == IF i \in altered THEN doc.event.enabled ELSE manifest.nodes[i].enabled

\* A board that holds what manifest m says of agent i, switched on or off and
\* publishing at the given period.
HoldsTheManifest(b, m, i, on, publish) ==
    LET n == m.nodes[i]  c == m.controller  g == c.microgrid  r == m.radio
        al == b.algorithm  d == b.disturbance
    IN  /\ b.node_id = i /\ b.neighbors = n.neighbors /\ b.enabled = on
        /\ al.dt = RoundMs(c.dt) /\ al.clock = RoundMs(publish)
        /\ al.vartheta = 0 /\ al.counter = 0
        /\ b.radio = <<RadioUnits(r.adv), RadioUnits(IF r.advMax = None THEN r.adv ELSE r.advMax),
                       RadioUnits(r.scanInterval), RadioUnits(r.scanWindow), Bit(~r.passive)>>
        /\ g = None =>
             /\ b.law = 0
             /\ \A f \in {"gain_ij", "alpha", "delta", "eta"} : al[f] = Quantize(c[f])
             /\ al.state = Quantize(IcLow("ble") + Draw[i].state)
             /\ al.vstate = Quantize(IcLow("ble") + Draw[i].vstate)
             /\ d.enabled = Bit(c.disturbance.enabled)
             /\ d.samples = c.disturbance.samples
             /\ d.phase = Quantize(IF c.disturbance.phase = None THEN Draw[i].phase
                                   ELSE c.disturbance.phase)
             /\ \A f \in {"sine_amplitude", "frequency", "noise_amplitude",
                          "noise_offset", "beta"} : d[f] = Quantize(c.disturbance[f])
        /\ g # None =>
             /\ b.law = (IF g.interface = "lc" THEN 2 ELSE 1)
             /\ b.interface.law = b.law
             /\ b.blocks = {"plant", "virtual"}
             /\ b.plant.profile = (IF g.profile = "rep" THEN 0 ELSE 1)
             /\ b.plant.kappa = Quantize(n.plant.kappa)
             /\ <<b.plant.p_max, b.plant.q_max>> = <<Quantize(g.p_max), Quantize(g.q_max)>>
             /\ <<b.plant.S1, b.plant.S2>> = <<Quantize(n.plant.S[1]), Quantize(n.plant.S[2])>>
             /\ <<b.plant.X0_P, b.plant.X0_Q>>
                   = <<Quantize(n.plant.X0[1]), Quantize(n.plant.X0[2])>>
             /\ <<b.virtual.z0_P, b.virtual.z0_Q>>
                   = <<Quantize(n.plant.z0[1]), Quantize(n.plant.z0[2])>>
             /\ b.virtual.degree = Len(n.neighbors)
             /\ IF i \in Pins(m)
                THEN <<b.virtual.b, b.virtual.rP, b.virtual.rQ>>
                       = <<Quantize(m.coordination.pinned[i]),
                           Quantize(m.coordination.reference[1]),
                           Quantize(m.coordination.reference[2])>>
                ELSE <<b.virtual.b, b.virtual.rP, b.virtual.rQ>> = <<0, 0, 0>>
             /\ \A f \in {"alpha_0", "kappa_o", "xi", "c_0"} : b.virtual[f] = Quantize(g[f])
             /\ b.virtual.T_o = RoundMs(g.T_o) /\ b.virtual.delta_o = RoundMs(g.delta_o)
             /\ b.interface.mu_max = Quantize(g.mu_max) /\ b.interface.delta_c = 0
             /\ IF g.interface = "lc"
                THEN /\ b.interface.terminal = Bit(g.terminal)
                     /\ b.interface.T_c = RoundMs(g.T_c)
                     /\ b.interface.beta_c = Quantize(g.beta_c)
                     /\ b.interface.Phi = Quantize(g.Phi)
                     /\ b.interface.adapt_band
                           = (IF g.adapt_band = None THEN -1 ELSE Quantize(g.adapt_band))
                     /\ <<b.interface.gamma, b.interface.eps, b.interface.vartheta_0>> = <<0, 0, 0>>
                ELSE /\ b.interface.gamma = Quantize(g.gamma)
                     /\ b.interface.eps = Quantize(g.eps[i])
                     /\ b.interface.vartheta_0 = Quantize(g.vartheta0)
                     /\ <<b.interface.terminal, b.interface.T_c, b.interface.beta_c,
                          b.interface.Phi>> = <<0, 0, 0, 0>>
                     /\ b.interface.adapt_band = -1

\* A relay whose configure succeeded has a board that holds what the manifest
\* says under the arm in force, every parameter of the law it runs and every
\* radio setting, each rounded to the wire's grid, whatever the board held
\* before and however the frames lay the fields out: its links, its law, the
\* reference on a pinned agent only, the other family's fields at zero, the
\* period of the command line and the switch as the event left it
\* (assignment.py, relay.py, agent.c).
BoardHoldsTheManifest ==
    \A i \in {j \in Ids : told[j] = "ok" /\ doc.nodes[j].type = "ble"} :
        HoldsTheManifest(board[i], InForce, i, SwitchOf(i), PeriodOf(i))

\* A manifest whose controller is the one its microgrid block is for.  Nothing
\* in the hub checks it: a Pi agent takes its law from the name, a board from
\* the block.
NamesItsLaw(m) ==
    m.controller.name = IF m.controller.microgrid = None THEN "finite_time_adaptive"
                        ELSE IF m.controller.microgrid.interface = "lc" THEN "microgrid_lc"
                        ELSE "microgrid_adaptive"

\* What the hub admits and the encoders do not take: a value that must be
\* positive and rounds to zero, a pin that does while the reference does not,
\* or one beyond an int32.  A period below the control period is a warning.
OffTheWire(m, i, publish) ==
    LET c == m.controller  g == c.microgrid  p == m.nodes[i].plant
    IN  \/ 0 \in {RoundMs(c.dt), RoundMs(publish)}
        \/ g = None /\ Quantize(c.alpha) = 0
        \/ /\ g # None
           /\ \/ 0 \in {Quantize(p.kappa), Quantize(g.p_max), Quantize(g.q_max)}
              \/ /\ i \in Pins(m) /\ Quantize(m.coordination.pinned[i]) = 0
                 /\ <<Quantize(m.coordination.reference[1]),
                      Quantize(m.coordination.reference[2])>> # <<0, 0>>
        \/ \E v \in Int32s(assigned[i]) : v > WordMax \/ v < -WordMax - 1

\* No board refuses a frame of a manifest the hub admitted without --force:
\* what the encoders let through agent.c takes, the reference of an unpinned
\* agent and the board's neighbour limit included.  What the encoders stop
\* before any frame is sent is a value off the wire's grid (validate.py:320
\* warns of some, and nothing of others); a Pi agent is stopped only by a name
\* of another law.
AdmittedIsAccepted ==
    ~forced => \A i \in Ids :
        /\ told[i] # "rejected"
        /\ told[i] = "raised" => IF doc.nodes[i].type = "ble"
                                 THEN OffTheWire(InForce, i, PeriodOf(i))
                                 ELSE ~NamesItsLaw(InForce)

\* A set of agents no link enters from outside.
ClosedToTheRest(nodes, S) ==
    \A i \in DOMAIN nodes \ S : ToSet(nodes[i].neighbors) \cap S = {}

\* A manifest the hub admits without --force can do what its run measures, by
\* cuts instead of by searches: no split of the fleet lets neither side read
\* the other, the pins' side of no split keeps the reference to itself, every
\* link has a medium, every board holds its neighbours, and two agents of a
\* type never share a host's control port (validate.py, models.py).
AdmittedIsSound ==
    (stage = "ready" /\ ~forced /\ Cardinality(Ids) <= MaxCut
       /\ \A i \in Ids : told[i] = "none") =>
        LET nodes == manifest.nodes  all == DOMAIN nodes
        IN  /\ \A S \in SUBSET all \ {{}, all} :
                  \/ ~ClosedToTheRest(nodes, S)
                  \/ ~ClosedToTheRest(nodes, all \ S)
            /\ manifest.coordination # None =>
                 /\ Pins(manifest) # {}
                 /\ \A p \in Pins(manifest) : p \in all /\ nodes[p].enabled
                 /\ \A S \in SUBSET all \ {all} :
                      Pins(manifest) \subseteq S => ~ClosedToTheRest(nodes, S)
            /\ \A i \in all : \A j \in all \ {i} :
                  /\ <<nodes[i].ip, nodes[i].type>> # <<nodes[j].ip, nodes[j].type>>
                  /\ j \in ToSet(nodes[i].neighbors) =>
                        {nodes[i].type, nodes[j].type} # {"ble", "wifi"}
            /\ \A i \in all : nodes[i].type = "ble" => Len(nodes[i].neighbors) <= AgentMaxNeighbors
            \* an admitted fleet whose enabled agents are in pieces is reported as such
            /\ (\E S \in SUBSET all : LET up == {i \in all : nodes[i].enabled} IN
                    /\ S \cap up # {} /\ up \ S # {}
                    /\ \A i \in S \cap up, j \in up \ S :
                          i \notin ToSet(nodes[j].neighbors) /\ j \notin ToSet(nodes[i].neighbors))
                 => "fragmented" \in report.warnings

\* The quantity a column of a Pi agent's row names.
Quantity == [state |-> "xP", state_P |-> "xP", state_Q |-> "xQ",
             vstate |-> "zP", vstate_P |-> "zP", vstate_Q |-> "zQ",
             g_P |-> "gP", g_Q |-> "gQ", mu_P |-> "muP", mu_Q |-> "muQ",
             muapp_P |-> "aP", muapp_Q |-> "aQ", sigma_P |-> "sP", sigma_Q |-> "sQ",
             c |-> "c", theta |-> "theta", saturated |-> "sat", trig |-> "trig",
             watchdog |-> "watchdog", vartheta |-> "vartheta", updates |-> "updates",
             S1 |-> "S1", S2 |-> "S2", realized_h |-> "realized", cpu_us |-> "cpu"]

\* What a board has under a column's name.
OfBoard == [state |-> "state", state_P |-> "state", state_Q |-> "stateQ",
            vstate |-> "vstate", vstate_P |-> "vstate", vstate_Q |-> "vstateQ",
            vartheta |-> "vartheta", S1 |-> "S1", S2 |-> "S2"]

Logging == logged # None
IsRelay(i) == doc.nodes[i].type = "ble"
HeardOf(i, id) == Vars.neighbors[SelectInSeq(assigned[i].neighbors, LAMBDA j : j = id)]

\* Every sample of a running fleet is logged, its fields under their names:
\* the law the frames gave the board, which shapes its report, fits the
\* controller whose name gave the log its columns, and the step of a Pi's
\* controller forms its channels in the order they are declared.  And the radio
\* settings the run's metadata records are those in force on the board.
ReportsAreLogged ==
    /\ Logging =>
         LET i == logged.of  cells == logged.cells
         IN  /\ cells # Dropped
             /\ \A k \in DOMAIN cells :
                  LET c == cells[k].column  v == cells[k].value
                  IN  CASE c[1] \in {"seq", "rssi"} -> v = HeardOf(i, c[2])[c[1]]
                        [] c[1] = "rx"              -> v = (HeardOf(i, c[2]).flags \div 2) % 2
                        [] c[2] = 0 /\ IsRelay(i)   -> v = Vars[OfBoard[c[1]]]
                        [] c[2] = 0 /\ ~IsRelay(i) /\ assigned[i].enabled ->
                              v = Vars.tick[Quantity[c[1]]]
                        [] c[1] \in {"", "P"} /\ ~IsRelay(i) -> v = HeardOf(i, c[2]).vstate
                        [] c[1] = "Q" /\ ~IsRelay(i) -> v = HeardOf(i, c[2]).vstateQ
                        [] OTHER                    -> TRUE
    /\ \A i \in Ids : stats[i] # None =>
         /\ <<stats[i].adv_interval_min, stats[i].adv_interval_max, stats[i].scan_interval,
              stats[i].scan_window, stats[i].scan_active>> = board[i].radio
         /\ \A f \in DOMAIN Vars.counters : stats[i][f] = Vars.counters[f]

\* What is read back of a relay's own columns is converted, whatever the law
\* named them, and its flags and sequence numbers are not (analysis/units.py
\* derives the columns from relay_columns rather than restating them).
OwnColumnsConvert ==
    Logging => LET relay == IsRelay(logged.of)  cells == logged.cells
               IN  \A k \in DOMAIN cells :
                     /\ cells[k].column[2] = 0 => k \notin Unknown(relay, cells)
                     /\ Converted(relay, cells)[k] =>
                           cells[k].column[1] \in {""} \cup DOMAIN OfBoard

\* The column of a neighbour's first coordinate holds what the board had of
\* that neighbour: neighbor_vstates has `dim` values per neighbour
\* (runlog.py:294), and the row's shape "follows the wire and cannot disagree
\* with it" (service.py:521).
NeighborColumnsAreTheirs ==
    Logging => LET i == logged.of  cells == logged.cells
               IN  \A k \in DOMAIN cells :
                     cells[k].column[1] \in {"", "P"} =>
                        cells[k].value = HeardOf(i, cells[k].column[2]).vstate

\* All agents of a running fleet run one law, the boards as the Pis, though a
\* board takes it from the interface block and a Pi from the controller's name
\* (agent.h, relay.py, controllers/base.py).
OneLaw == stage = "running" => \A i, j \in Ids : law[i] = law[j]

\* What an agent's neighbours let it read in a run.
ReadBy(i, inputs) ==
    LET n == Len(assigned[i].neighbors)
    IN  [k \in DOMAIN inputs |-> [heard   |-> SubSeq(inputs[k].heard, 1, n),
                                  enabled |-> SubSeq(inputs[k].enabled, 1, n),
                                  uniform |-> inputs[k].uniform]]

\* What two runs of a law have in common, tick by tick.
SameSteps(l, b, p) ==
    \A k \in DOMAIN b :
        /\ b[k].x = p[k].x /\ b[k].z = p[k].z
        /\ l \in {0, 1} => b[k].vartheta = p[k].vartheta
        /\ l \in {1, 2} => b[k].c = p[k].c /\ b[k].updates = p[k].updates
        /\ l = 2 => b[k].S = p[k].S /\ b[k].watchdog = p[k].watchdog_cause
        /\ l = 1 /\ "saturation" \notin {b[k].watchdog, p[k].watchdog_cause}
             => b[k].watchdog = p[k].watchdog_cause

\* A board that runs does, tick by tick, what the controller of a Pi built
\* from the same assignment does on the same inputs: the manifest through the
\* frames, the parameters by position, the reset at the trigger and the C law
\* come out where the blocks, the constructors and the Python law do.  The
\* estimate, the gain, the number of updates and the watchdog's cause are part
\* of it, but the cause "saturation" under the adaptive law, which has a
\* deadline on the Pi only (test/crossval, microgrid_task.c,
\* coordination_task.c, controllers/).
BoardStepsAsAPi ==
    stage = "running" /\ changed = {} /\ ~Logging =>
        \A i \in {j \in Ids : doc.nodes[j].type = "ble"}, inputs \in InputRuns :
            SameSteps(law[i], BoardTrajectory(board[i], ReadBy(i, inputs)),
                      PiTrajectory(OnGrid(assigned[i]), ReadBy(i, inputs)))

\* Without --force the hub admits only what can run: no board refuses it and
\* its graph carries the experiment; and where the controller named is the one
\* the microgrid block is for, its agents run one law, and what they sample is
\* logged and read back (validate.py, relay.py, agent.c, report.c, service.py,
\* analysis/units.py).
AdmittedCanRun ==
    /\ AdmittedIsSound /\ AdmittedIsAccepted
    /\ manifest # None /\ NamesItsLaw(InForce) =>
         OneLaw /\ BoardStepsAsAPi /\ ReportsAreLogged /\ OwnColumnsConvert

\* How far apart two members of a cyclic order are.
Distance(order, a, b) ==
    LET p == SelectInSeq(order, LAMBDA x : x = a)  q == SelectInSeq(order, LAMBDA x : x = b)
        d == IF p < q THEN q - p ELSE p - q
    IN  IF 2 * d > Len(order) THEN Len(order) - d ELSE d

\* A generated graph is the one its generator documents: the ring reads its k
\* nearest on each side, the directed ring one predecessor each around one
\* cycle, the line from its first agent on, the star through its hub alone,
\* and clusters are their groups once the bridges are cut (generators.py).
GraphsAsDocumented ==
    (stage = "loaded" /\ doc.structure # None) =>
        LET s == doc.structure  nodes == manifest.nodes
            reads(i) == ToSet(nodes[i].neighbors)
            g == BuildGraph(nodes, FALSE)
        IN  /\ s.generator = "ring" /\ ~s.directed =>
                 \A i \in ToSet(s.order) :
                    reads(i) = {j \in ToSet(s.order) \ {i} : Distance(s.order, i, j) <= s.k}
            /\ s.generator = "ring" /\ s.directed =>
                 \A i \in ToSet(s.order) : Cardinality(reads(i)) = 1 /\ OutDegree(g, i) = 1
            /\ s.generator = "line" /\ s.directed =>
                 /\ \A i \in ToSet(s.order) : (reads(i) = {}) = (i = s.order[1])
                 /\ Len(s.order) > 1 => ~Strong(g)
            /\ s.generator = "complete" => \A i \in ToSet(s.order) : reads(i) = ToSet(s.order) \ {i}
            /\ s.generator = "star" => \A e \in g.edges : s.hub \in {e[1], e[2]}
            /\ s.generator = "clusters" =>
                 \A e \in g.edges :
                    \/ \E h \in ToSet(s.groups) : {e[1], e[2]} \subseteq ToSet(h)
                    \/ <<e[1], e[2]>> \in s.bridges \/ <<e[2], e[1]>> \in s.bridges
            /\ s.generator \in {"complete", "star", "clusters"} \/
               (s.generator = "ring" /\ ~s.directed) => Symmetric(g) /\ Balanced(g)
=============================================================================
