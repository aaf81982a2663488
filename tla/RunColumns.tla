----------------------------- MODULE RunColumns -----------------------------
(* The rows of a run and the names of their cells.  The host chooses the     *)
(* columns from the controller's name before the run begins (service.py,     *)
(* controllers/); a row is built by position, from the report of a relay's   *)
(* board or from the step of a Pi agent's controller, one control period     *)
(* after another (agent.py, runlog.py); reading the run back converts each   *)
(* column to engineering units by its name (analysis/units.py).              *)
EXTENDS RelayReport

Coords == <<"P", "Q">>

\* _controller_dim.
Dim(name) == IF name \in {"microgrid_adaptive", "microgrid_lc"} THEN 2 ELSE 1

-----------------------------------------------------------------------------
(* The columns.                                                             *)

CommonChannels == <<"g_P", "g_Q", "mu_P", "mu_Q", "muapp_P", "muapp_Q", "sigma_P",
                    "sigma_Q", "c", "theta", "saturated", "trig", "watchdog">>
OwnChannels(name) ==
    CASE name = "finite_time_adaptive" -> <<"vartheta">>
      [] name = "microgrid_adaptive"   -> CommonChannels \o <<"vartheta", "updates">>
      [] name = "microgrid_lc"         -> CommonChannels \o <<"S1", "S2", "updates">>

\* Controller.column_names: a Pi agent's channels.
StateNames(name) ==
    IF Dim(name) = 1 THEN <<"state", "vstate">>
    ELSE <<"state_P", "state_Q", "vstate_P", "vstate_Q">>
ColumnNames(name) == StateNames(name) \o OwnChannels(name)

\* relay_columns: what crosses the STATE frame of each family.
RelayColumns(name) ==
    CASE name = "finite_time_adaptive" -> ColumnNames(name)
      [] name = "microgrid_adaptive" -> StateNames(name) \o <<"vartheta">>
      [] name = "microgrid_lc" -> StateNames(name) \o <<"S1", "S2">>

\* _controller_columns and _timing_columns.
StateColumns(name, relay) == IF relay THEN RelayColumns(name) ELSE ColumnNames(name)
TimingColumns(name, relay) ==
    IF relay \/ Dim(name) = 1 THEN <<>> ELSE <<"realized_h", "cpu_us">>

\* RunLog.column_names, behind the two timestamps, with the id a column is of.
LogColumns(name, relay, neighbors) ==
    LET own == TimingColumns(name, relay) \o StateColumns(name, relay)
        values(id) == IF Dim(name) = 1 THEN <<<<"", id>>>>
                      ELSE [c \in 1 .. 2 |-> <<Coords[c], id>>]
    IN  [k \in DOMAIN own |-> <<own[k], 0>>]
        \o FlattenSeq([k \in DOMAIN neighbors |->
              values(neighbors[k]) \o <<<<"rx", neighbors[k]>>, <<"seq", neighbors[k]>>,
                                        <<"rssi", neighbors[k]>>>>])

\* record_width, which fixes the record's format before any row is written.
RecordWidth(neighbors, channels, timing, dim) ==
    Len(timing) + Len(channels) + (3 + dim) * Len(neighbors)

-----------------------------------------------------------------------------
(* The rows.                                                                *)

Dropped == <<>>

\* RunLog.append: a row of another shape is refused, and what is missing of
\* the neighbours' values reads 0.
LogRow(name, relay, neighbors, timing, channels, heard) ==
    LET dim == Dim(name)
        columns == LogColumns(name, relay, neighbors)
        at(seq, k) == IF k \in DOMAIN seq THEN seq[k] ELSE 0
        row == timing \o channels \o FlattenSeq([i \in DOMAIN neighbors |->
                  [c \in 1 .. dim |-> at(heard.vstates, (i - 1) * dim + c)]
                  \o <<at(heard.fresh, i), at(heard.seqs, i), at(heard.rssis, i)>>])
    IN  IF \/ Len(timing) # Len(TimingColumns(name, relay))
           \/ Len(channels) # Len(StateColumns(name, relay))
           \/ Len(row) # RecordWidth(neighbors, StateColumns(name, relay),
                                     TimingColumns(name, relay), dim)
        THEN Dropped
        ELSE [k \in DOMAIN columns |-> [column |-> columns[k], value |-> row[k]]]

\* _record_report: the row of a relay.
RelayRow(name, neighbors, r) ==
    LogRow(name, TRUE, neighbors, <<>>, Channels(r),
           [vstates |-> r.vstates, seqs |-> r.seqs, rssis |-> r.rssis,
            fresh |-> [k \in DOMAIN r.flags |-> (r.flags[k] \div 2) % 2]])

\* What one step of a law yields: its states, its virtual states, and its
\* extra channels in the order the step forms them.
StepOutput(name) ==
    LET t == Vars.tick
        common == <<t.gP, t.gQ, t.muP, t.muQ, t.aP, t.aQ, t.sP, t.sQ, t.c, t.theta,
                    t.sat, t.trig, t.watchdog>>
    IN  CASE name = "finite_time_adaptive" ->
               [state |-> <<t.xP>>, vstate |-> <<t.zP>>, extra |-> <<t.vartheta>>]
          [] name = "microgrid_adaptive" ->
               [state |-> <<t.xP, t.xQ>>, vstate |-> <<t.zP, t.zQ>>,
                extra |-> common \o <<t.vartheta, t.updates>>]
          [] name = "microgrid_lc" ->
               [state |-> <<t.xP, t.xQ>>, vstate |-> <<t.zP, t.zQ>>,
                extra |-> common \o <<t.S1, t.S2, t.updates>>]

\* _control_step: a disabled agent does not step, and samples its frozen
\* virtual state in the place of its state.
Sampled(name, enabled) ==
    LET out == StepOutput(name)
    IN  IF enabled THEN out.state \o out.vstate \o out.extra
        ELSE out.vstate \o out.vstate \o [k \in DOMAIN out.extra |-> 0]

\* NeighborTable.snapshot: dim values per neighbour, none of them heard late.
Snapshot(name, n) ==
    FlattenSeq([k \in 1 .. n |->
        SubSeq(<<Vars.neighbors[k].vstate, Vars.neighbors[k].vstateQ>>, 1, Dim(name))])

\* _record: the row of a Pi agent.
PiRow(name, enabled, neighbors) ==
    LET n == Len(neighbors)
    IN  LogRow(name, FALSE, neighbors,
               IF Dim(name) = 1 THEN <<>> ELSE <<Vars.tick.realized, Vars.tick.cpu>>,
               Sampled(name, enabled),
               [vstates |-> Snapshot(name, n),
                fresh |-> [k \in 1 .. n |-> (Vars.neighbors[k].flags \div 2) % 2],
                seqs  |-> [k \in 1 .. n |-> Vars.neighbors[k].seq],
                rssis |-> [k \in 1 .. n |-> Vars.neighbors[k].rssi]])

-----------------------------------------------------------------------------
(* Reading a run back.                                                      *)

\* STATE_COLUMNS: every column that crosses the frame under some law.
ScaledColumns ==
    UNION {ToSet(RelayColumns(name)) :
             name \in {"finite_time_adaptive", "microgrid_adaptive", "microgrid_lc"}}
Passed == {"rx", "seq", "rssi"}

\* normalize_run of a row: a run labelled engineering is left alone, and a
\* scaled one is refused for a column it knows nothing of; a neighbour's one
\* value is named by its id, in digits.
Unknown(relay, row) ==
    IF ~relay THEN {}
    ELSE {k \in DOMAIN row : row[k].column[1] \notin ScaledColumns \cup Passed \cup {""}}
Converted(relay, row) ==
    [k \in DOMAIN row |-> relay /\ row[k].column[1] \in ScaledColumns \cup {""}]
=============================================================================
