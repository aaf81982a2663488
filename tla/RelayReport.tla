---------------------------- MODULE RelayReport ----------------------------
(* What a board says of itself to its relay, and what the relay logs of it:  *)
(* the STATE report and the STATS dump, packed by the firmware (report.c,    *)
(* control.c) and read by the host (serial/proto.py) by position and length. *)
EXTENDS Integers, Sequences, SequencesExt

CONSTANT Vars   \* the state a board reports: its own fields, and one record
                \* per neighbour index, all different numbers

-----------------------------------------------------------------------------
(* A payload: each byte says whose it is, so that a field read at another    *)
(* offset or width than it was written is garbage.                           *)

Garbage == -1
Put(value, w) == [k \in 1 .. w |-> <<value, k, w>>]
Take(p, offset, w) ==
    LET value == p[offset + 1][1]
    IN  IF SubSeq(p, offset + 1, offset + w) = Put(value, w) THEN value ELSE Garbage

HeaderSize == 25
NeighborSize == 8
TailSize == 8
LcTailSize == 16

\* report_state, under the board's law and its neighbours.
ReportPayload(law, n) ==
    LET neighbor(k) == LET v == Vars.neighbors[k]
                       IN  Put(v.vstate, 4) \o Put(v.seq, 2) \o Put(v.rssi, 1) \o Put(v.flags, 1)
    IN  Put(Vars.time, 8) \o Put(Vars.state, 4) \o Put(Vars.vstate, 4)
        \o Put(Vars.vartheta, 4) \o Put(Vars.counter, 4) \o Put(n, 1)
        \o FlattenSeq([k \in 1 .. n |-> neighbor(k)])
        \o (IF law # 0 THEN Put(Vars.stateQ, 4) \o Put(Vars.vstateQ, 4) ELSE <<>>)
        \o (IF law = 2 THEN Put(Vars.S1, 4) \o Put(Vars.S2, 4) ELSE <<>>)

\* decode_state: the tail, and with it the law, follows from the length.
DecodeState(p, limit) ==
    LET n == Take(p, 24, 1)
        want == HeaderSize + n * NeighborSize
        tail == Len(p) - want
        field(k, offset, w) == Take(p, HeaderSize + (k - 1) * NeighborSize + offset, w)
    IN  IF \/ Len(p) < HeaderSize
           \/ tail \notin {0, TailSize, LcTailSize}
           \/ n > limit
        THEN [ok |-> FALSE]
        ELSE [ok |-> TRUE, state |-> Take(p, 8, 4), vstate |-> Take(p, 12, 4),
              vartheta |-> Take(p, 16, 4),
              vstates |-> [k \in 1 .. n |-> field(k, 0, 4)],
              seqs    |-> [k \in 1 .. n |-> field(k, 4, 2)],
              rssis   |-> [k \in 1 .. n |-> field(k, 6, 1)],
              flags   |-> [k \in 1 .. n |-> field(k, 7, 1)],
              second  |-> IF tail = 0 THEN <<>> ELSE <<Take(p, want, 4), Take(p, want + 4, 4)>>,
              lc      |-> IF tail # LcTailSize THEN <<>>
                          ELSE <<Take(p, want + 8, 4), Take(p, want + 12, 4)>>]

-----------------------------------------------------------------------------
\* _record_report: the row's shape follows the report.
Channels(r) ==
    CASE r.second = <<>> -> <<r.state, r.vstate, r.vartheta>>
      [] r.second # <<>> /\ r.lc = <<>> ->
            <<r.state, r.second[1], r.vstate, r.second[2], r.vartheta>>
      [] r.lc # <<>> -> <<r.state, r.second[1], r.vstate, r.second[2], r.lc[1], r.lc[2]>>

-----------------------------------------------------------------------------
(* The STATS dump.                                                          *)

Observed == <<"devices", "ours", "foreign", "wrong_size", "malformed", "legacy_v0",
              "unknown_node", "queue_drops">>
Uart     == <<"tx_frames", "tx_dropped", "rx_overrun_bytes", "rx_stopped",
              "rx_partial_flushes", "rx_full_flushes">>
ParserCounts == <<"frames_ok", "crc_errors", "len_errors", "resyncs", "timeouts">>

\* The PROTO_T_STATS_REQ handler: the observer's, the link's and the parser's
\* counters, then the radio in force.
StatsPayload(counters, radio) ==
    Put(1, 1)
    \o FlattenSeq([k \in 1 .. 8 |-> Put(counters[Observed[k]], 4)])
    \o FlattenSeq([k \in 1 .. 6 |-> Put(counters[Uart[k]], 4)])
    \o FlattenSeq([k \in 1 .. 5 |-> Put(counters[ParserCounts[k]], 4)])
    \o FlattenSeq([k \in 1 .. 4 |-> Put(radio[k], 2)])
    \o Put(Vars.power, 1) \o Put(radio[5], 1)

\* STATS_V1_COUNTERS and STATS_V1_RADIO, in the host's order.
StatsCounters ==
    <<"devices", "ours", "foreign", "wrong_size", "malformed", "legacy_v0",
      "unknown_node", "queue_drops", "tx_frames", "tx_dropped", "rx_overrun_bytes",
      "rx_stopped", "rx_partial_flushes", "rx_full_flushes", "frames_ok",
      "crc_errors", "len_errors", "resyncs", "timeouts">>
StatsRadio == <<"adv_interval_min", "adv_interval_max", "scan_interval", "scan_window">>
StatsLength == 1 + 4 * Len(StatsCounters) + 2 * Len(StatsRadio) + 2

\* decode_stats on the coordination firmware's layout.
DecodeStats(p) ==
    LET c == Len(StatsCounters)
        index(seq, f) == SelectInSeq(seq, LAMBDA x : x = f)
    IN  [f \in ToSet(StatsCounters) \cup ToSet(StatsRadio) \cup {"granted_tx_power", "scan_active"} |->
          IF f \in ToSet(StatsCounters) THEN Take(p, 1 + 4 * (index(StatsCounters, f) - 1), 4)
          ELSE IF f \in ToSet(StatsRadio) THEN Take(p, 1 + 4 * c + 2 * (index(StatsRadio, f) - 1), 2)
          ELSE Take(p, 1 + 4 * c + 2 * Len(StatsRadio) + (IF f = "scan_active" THEN 1 ELSE 0), 1)]
=============================================================================
