----------------------------- MODULE BoardParams ----------------------------
(* The board's side of a configuration: agent_apply_frame and apply_radio   *)
(* check a frame's payload, read it by position and change the parameters  *)
(* it carries, and where the microgrid's integrators start.  A result is a *)
(* code and the board after it.                                            *)
EXTENDS Integers, Sequences, SequencesExt

CONSTANT AgentMaxNeighbors   \* AGENT_MAX_NEIGHBORS of the build

ASSUME BoardParamsAssumption == AgentMaxNeighbors \in Nat

Ok(b) == [ok |-> TRUE, board |-> b]
Refused(b) == [ok |-> FALSE, board |-> b]

\* Where agent.c reads each field, in units of fields.
AlgorithmLayout == <<"dt", "clock", "state", "vstate", "vartheta", "counter",
                     "gain_ij", "delta", "eta", "alpha">>
DisturbanceLayout == <<"enabled", "sine_amplitude", "frequency", "phase",
                       "noise_amplitude", "noise_offset", "beta", "samples">>
PlantLayout == <<"profile", "kappa", "S1", "S2", "p_max", "q_max", "X0_P", "X0_Q">>
VirtualLayout == <<"T_o", "alpha_0", "delta_o", "kappa_o", "xi", "c_0", "b",
                   "rP", "rQ", "degree", "z0_P", "z0_Q">>
InterfaceLayout == <<"law", "terminal", "mu_max", "gamma", "eps", "vartheta_0",
                     "T_c", "beta_c", "Phi", "delta_c", "adapt_band">>

Load(layout, p) ==
    [f \in ToSet(layout) |-> p[SelectInSeq(layout, LAMBDA x : x = f)]]
Zero(layout) == [f \in ToSet(layout) |-> 0]

\* microgrid_reset: the integrators start from what the blocks say now.
Integrators(plant, virtual, interface) ==
    [kappa |-> plant.kappa, X0 |-> <<plant.X0_P, plant.X0_Q>>,
     z0 |-> <<virtual.z0_P, virtual.z0_Q>>, c_0 |-> virtual.c_0,
     vartheta_0 |-> interface.vartheta_0]
Reset(b) == [b EXCEPT !.start = Integrators(b.plant, b.virtual, b.interface)]

\* A board after boot, agent_init: zeroed but for three, the scalar law.
BootParams ==
    [law |-> 0, blocks |-> {}, enabled |-> FALSE, node_id |-> 0, neighbors |-> <<>>,
     algorithm |-> [Zero(AlgorithmLayout) EXCEPT !.dt = 200, !.clock = 1000],
     disturbance |-> [Zero(DisturbanceLayout) EXCEPT !.samples = 1000],
     plant |-> Zero(PlantLayout), virtual |-> Zero(VirtualLayout),
     interface |-> Zero(InterfaceLayout), radio |-> <<0, 0, 0, 0, 0>>,
     start |-> Integrators(Zero(PlantLayout), Zero(VirtualLayout), Zero(InterfaceLayout))]

(* Mutant of ApplyNetwork: the law of the previous run is kept. *)
ApplyNetworkKeepingLaw(b, p) ==
    IF Len(p) - 2 > AgentMaxNeighbors THEN Refused(b)
    ELSE Ok([b EXCEPT !.enabled = p[1] = 1, !.node_id = p[2],
                      !.neighbors = SubSeq(p, 3, Len(p))])

\* Every configuration sequence declares the law afresh.
ApplyNetwork(b, p) ==
    IF \/ Len(p) < 2
       \/ Len(p) - 2 > AgentMaxNeighbors
       \/ p[2] = 0
    THEN Refused(b)
    ELSE Ok([b EXCEPT !.law = 0, !.blocks = {}, !.enabled = p[1] = 1,
                      !.node_id = p[2], !.neighbors = SubSeq(p, 3, Len(p))])

ApplyAlgorithm(b, p) ==
    LET r == Load(AlgorithmLayout, p)
    IN  IF r.dt <= 0 \/ r.clock <= 0 THEN Refused(b)
        ELSE Ok([b EXCEPT !.algorithm = r])

ApplyDisturbance(b, p) ==
    LET r == Load(DisturbanceLayout, p)
    IN  IF r.samples <= 0 THEN Refused(b) ELSE Ok([b EXCEPT !.disturbance = r])

\* The fields are stored before they are checked; the block's bit says which
\* of the two outcomes they had.
ApplyPlant(b, p) ==
    LET r == Load(PlantLayout, p)
    IN  IF r.kappa <= 0 \/ r.p_max <= 0 \/ r.q_max <= 0
        THEN Refused([b EXCEPT !.plant = r, !.blocks = @ \ {"plant"}])
        ELSE Ok([b EXCEPT !.plant = r, !.blocks = @ \cup {"plant"}])

\* An unpinned node is not to be sent the reference.
ApplyVirtual(b, p) ==
    LET r == Load(VirtualLayout, p)
    IN  IF r.b = 0 /\ (r.rP # 0 \/ r.rQ # 0)
        THEN Refused([b EXCEPT !.virtual = r, !.blocks = @ \ {"virtual"}])
        ELSE Ok([b EXCEPT !.virtual = r, !.blocks = @ \cup {"virtual"}])

\* The commit: it names a microgrid law, needs both other blocks, and resets
\* the law's integrators, a running board's as well.
ApplyInterface(b, p) ==
    LET r == Load(InterfaceLayout, p)
    IN  IF r.law \notin {1, 2} \/ b.blocks # {"plant", "virtual"} THEN Refused(b)
        ELSE Ok(Reset([b EXCEPT !.interface = r, !.law = r.law]))

\* apply_radio: agent_parse_radio, then the broadcaster and the observer keep it.
ApplyRadio(b, p) ==
    IF \/ p[3] = 0 \/ p[4] > p[3]
       \/ p[1] = 0 \/ p[1] > p[2]
    THEN Refused(b)
    ELSE Ok([b EXCEPT !.radio = p])

ApplyFrame(b, f) ==
    CASE f.type = "NETWORK"     -> ApplyNetwork(b, f.payload)
      [] f.type = "ALGORITHM"   -> ApplyAlgorithm(b, f.payload)
      [] f.type = "DISTURBANCE" -> ApplyDisturbance(b, f.payload)
      [] f.type = "MG_PLANT"    -> ApplyPlant(b, f.payload)
      [] f.type = "MG_VIRTUAL"  -> ApplyVirtual(b, f.payload)
      [] f.type = "MG_IFACE"    -> ApplyInterface(b, f.payload)
      [] f.type = "RADIO"       -> ApplyRadio(b, f.payload)

\* BleRelay.configure: the frames in order, up to the first one refused.
Configured(b, frames) ==
    LET after[k \in 0 .. Len(frames)] ==
            IF k = 0 THEN Ok(b)
            ELSE LET r == after[k - 1] IN IF r.ok THEN ApplyFrame(r.board, frames[k]) ELSE r
    IN  after[Len(frames)]
=============================================================================
