------------------------------ MODULE Topology ------------------------------
(* The communication graph of an experiment: the generators that expand a  *)
(* `structure` block, and the graph preconditions `check` tests before a   *)
(* run.  An agent's links are the sequence of ids it reads FROM; an edge   *)
(* <<j, i>> says that i reads j.  A fleet is a function from ids to nodes. *)
EXTENDS Integers, FiniteSets, Sequences, SequencesExt

CONSTANT MaxNeighborsFirmware   \* N_MAX_NEIGHBORS_FIRMWARE, the host's copy

ASSUME TopologyAssumption == MaxNeighborsFirmware \in Nat

Distinct(order) == Cardinality(ToSet(order)) = Len(order)

-----------------------------------------------------------------------------
(* Generators: the links they produce, and when they raise instead.        *)

\* The member of a cyclic order o places after node.
At(order, node, o) ==
    order[((SelectInSeq(order, LAMBDA x : x = node) - 1 + o + Len(order))
              % Len(order)) + 1]

(* Mutant of Ring: the upper side starts two places on, not one. *)
RingFarther(order, k, directed) ==
    [node \in ToSet(order) |->
        IF directed THEN <<At(order, node, -1)>>
        ELSE [j \in 1 .. 2 * k |->
                At(order, node, IF j <= k THEN j - k - 1 ELSE j - k + 1)]]

Ring(order, k, directed) ==
    [node \in ToSet(order) |->
        IF directed THEN <<At(order, node, -1)>>
        ELSE [j \in 1 .. 2 * k |->
                At(order, node, IF j <= k THEN j - k - 1 ELSE j - k)]]

RingAccepts(order, k, directed) ==
    /\ Distinct(order)
    /\ k >= 1
    /\ IF directed THEN Len(order) >= 2 ELSE 2 * k < Len(order)

Line(order, directed) ==
    [node \in ToSet(order) |->
        (IF node = order[1] THEN <<>> ELSE <<At(order, node, -1)>>)
        \o (IF directed \/ node = order[Len(order)] THEN <<>>
            ELSE <<At(order, node, 1)>>)]

Complete(order) ==
    [node \in ToSet(order) |-> SelectSeq(order, LAMBDA o : o # node)]

Star(order, hub) ==
    [node \in ToSet(order) |->
        IF node = hub THEN SelectSeq(order, LAMBDA o : o # hub) ELSE <<hub>>]

Clusters(groups, bridges, intra) ==
    LET Sub(g) == IF intra = "ring" /\ Len(g) > 2
                  THEN Ring(g, 1, FALSE) ELSE Complete(g)
        Within(v) == UNION {ToSet(Sub(g)[v]) : g \in {h \in ToSet(groups) : v \in ToSet(h)}}
        Across(v) == {b \in UNION {ToSet(g) : g \in ToSet(groups)} :
                        <<v, b>> \in bridges \/ <<b, v>> \in bridges}
    IN  [v \in UNION {ToSet(g) : g \in ToSet(groups)} |->
            SetToSortSeq(Within(v) \cup Across(v), <)]

ClustersAccepts(groups, bridges, intra) ==
    /\ intra \in {"complete", "ring"}
    /\ \A g \in ToSet(groups) : Distinct(g)
    /\ \A b \in bridges : {b[1], b[2]} \subseteq UNION {ToSet(g) : g \in ToSet(groups)}

\* generate: dispatch a StructureSpec s on its generator.
Generates(s) ==
    CASE s.generator = "ring"     -> RingAccepts(s.order, s.k, s.directed)
      [] s.generator = "star"     -> Distinct(s.order) /\ s.hub \in ToSet(s.order)
      [] s.generator = "clusters" -> ClustersAccepts(s.groups, s.bridges, s.intra)
      [] s.generator \in {"line", "complete"} -> Distinct(s.order)
      [] OTHER                    -> FALSE

Generate(s) ==
    CASE s.generator = "ring"     -> Ring(s.order, s.k, s.directed)
      [] s.generator = "line"     -> Line(s.order, s.directed)
      [] s.generator = "complete" -> Complete(s.order)
      [] s.generator = "star"     -> Star(s.order, s.hub)
      [] s.generator = "clusters" -> Clusters(s.groups, s.bridges, s.intra)

-----------------------------------------------------------------------------
(* Graph preconditions, validate.py.                                       *)

(* Mutant of BuildGraph: an edge points from the reader to what it reads. *)
BuildGraphBackwards(nodes, enabledOnly) ==
    LET keep == {i \in DOMAIN nodes : nodes[i].enabled \/ ~enabledOnly}
    IN  [ids   |-> keep,
         edges |-> {e \in keep \X keep : e[2] \in ToSet(nodes[e[1]].neighbors)}]

\* A graph of the fleet's agents, or of the enabled ones only.
BuildGraph(nodes, enabledOnly) ==
    LET keep == {i \in DOMAIN nodes : nodes[i].enabled \/ ~enabledOnly}
    IN  [ids   |-> keep,
         edges |-> {e \in keep \X keep : e[1] \in ToSet(nodes[e[2]].neighbors)}]

InDegree(g, v) == Cardinality({e \in g.edges : e[2] = v})
OutDegree(g, v) == Cardinality({e \in g.edges : e[1] = v})

\* Everything a path leads to from a member of S: S and its descendants.
Reach(g, S) ==
    LET step[k \in 0 .. Cardinality(g.ids)] ==
            IF k = 0 THEN S
            ELSE LET near == step[k - 1]
                 IN  near \cup {e[2] : e \in {d \in g.edges : d[1] \in near}}
    IN  step[Cardinality(g.ids)]

\* The pieces the graph falls into when directions are ignored: each edge
\* joins those of its ends.
Components(g) ==
    LET Join(e, pieces) ==
            LET ends == {p \in pieces : e[1] \in p \/ e[2] \in p}
            IN  (pieces \ ends) \cup {UNION ends}
    IN  FoldSet(Join, {{v} : v \in g.ids}, g.edges)

\* Some agent has a path to every other and one from every other.
Strong(g) ==
    g.ids # {} /\ LET v == CHOOSE x \in g.ids : TRUE
                      back == [g EXCEPT !.edges = {<<e[2], e[1]>> : e \in @}]
                  IN  Reach(g, {v}) = g.ids /\ Reach(back, {v}) = g.ids
Weak(g) == Components(g) = {g.ids}
Balanced(g) == \A v \in g.ids : InDegree(g, v) = OutDegree(g, v)
Symmetric(g) == \A e \in g.edges : <<e[2], e[1]>> \in g.edges

\* AGENT_MEDIA: what each type can transmit and receive on.
Media(type) ==
    CASE type = "ble"    -> {"ble"}
      [] type = "wifi"   -> {"udp"}
      [] type = "bridge" -> {"ble", "udp"}

\* _check_reference: a declared reference must be pinned and reachable.
ReferenceErrors(nodes, pinned) ==
    LET g == BuildGraph(nodes, FALSE)
        known == pinned \cap DOMAIN nodes
        live == {p \in known : nodes[p].enabled}
    IN  {e \in {"unknown pin", "no pin", "disabled pin", "unreachable"} :
            \/ e = "unknown pin" /\ pinned # known
            \/ e = "no pin" /\ known = {}
            \/ e = "disabled pin" /\ known # live
            \/ e = "unreachable" /\ live # {} /\ Reach(g, live) # g.ids}

\* Agents whose board cannot hold their neighbours.
Oversized(nodes) ==
    {i \in DOMAIN nodes :
        nodes[i].type = "ble" /\ Len(nodes[i].neighbors) > MaxNeighborsFirmware}

\* The errors of `check` that the links, the types and the board's size cause.
GraphErrors(nodes) ==
    LET g == BuildGraph(nodes, FALSE)
        shared(d) == Media(nodes[d[1]].type) \cap Media(nodes[d[2]].type)
    IN  {e \in {"isolated", "disconnected", "no medium", "too many neighbours"} :
            \/ e = "isolated" /\ \E v \in g.ids : InDegree(g, v) + OutDegree(g, v) = 0
            \/ e = "disconnected" /\ ~Weak(g)
            \/ e = "no medium" /\ \E d \in g.edges : shared(d) = {}
            \/ e = "too many neighbours" /\ Oversized(nodes) # {}}

\* What `check` warns of: a run may start, and the operator is told.
GraphWarnings(nodes, pinned) ==
    LET g == BuildGraph(nodes, FALSE)
        eff == BuildGraph(nodes, TRUE)
    IN  {w \in {"many pins", "not strong", "unbalanced", "fragmented",
                "disabled but read", "same host", "periods"} :
            \/ w = "many pins" /\ Cardinality(pinned \cap g.ids) > 1
            \/ w = "not strong" /\ ~Strong(g)
            \/ w = "unbalanced" /\ ~Balanced(g)
            \/ w = "fragmented" /\ Cardinality(Components(eff)) > 1
            \/ w = "disabled but read"
               /\ \E i \in g.ids : ~nodes[i].enabled /\ nodes[i].neighbors # <<>>
            \/ w = "same host" /\ \E d \in g.edges : nodes[d[1]].ip = nodes[d[2]].ip
            \/ w = "periods" /\ Cardinality({nodes[i].publish : i \in g.ids}) > 1}
=============================================================================
