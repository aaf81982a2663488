---------------------------- MODULE StateExchange -----------------------------
(***************************************************************************)
(* The exchange of states between agents (vertex/agent/agent.py) as one    *)
(* agent hears it: its neighbours' publish steps, a medium that loses,     *)
(* repeats and reorders packets, the receive callback, the control steps   *)
(* that read the neighbour table and log a row, and the delivery that an   *)
(* analysis derives from the rows (vertex/analysis/load.py).               *)
(***************************************************************************)
EXTENDS NeighborTable, Sequences, FiniteSets, SequencesExt

CONSTANTS
  FirstSeqs,    \* sequence numbers a neighbour may have reached
  MaxSent,      \* per peer, bound on the packets it publishes
  MaxHeard,     \* per peer, bound on the packets heard of it
  MaxRows,      \* bound on the rows logged
  Enabled       \* config.enabled of each peer

ASSUME ExchangeAssumption ==
  /\ FirstSeqs \subseteq Seqs
  /\ MaxSent \in [Peers -> Nat]
  /\ MaxHeard \in [Peers -> Nat]
  /\ MaxRows \in Nat
  /\ Enabled \in [Peers -> BOOLEAN]

VARIABLES
  seq,       \* Agent._seq of each peer
  sent,      \* packets it has published: the value the next one carries
  air,       \* packets that can be received
  restarted, \* the neighbours whose process started again
  rows,      \* per row logged, the last_seq column of each neighbour
  first,     \* history: the value first heard of a neighbour
  heard      \* history: the values heard of it

senders == <<seq, sent, restarted>>
vars == <<tableVars, senders, air, rows, first, heard>>

Packets ==
  [from : Peers, seq : Seqs, value : Nat, enabled : BOOLEAN]

Init ==
  /\ TableInit
  /\ seq \in [Peers -> FirstSeqs]
  /\ sent = [p \in Peers |-> 0]
  /\ air = {}
  /\ rows = <<>>
  /\ restarted = {}
  /\ first = [p \in Declared |-> 0]
  /\ heard = [p \in Declared |-> {}]

-----------------------------------------------------------------------------
(* The neighbours *)

\* _publish_step, with the task it creates for _publish: a packet the transport
\* refuses is a loss.
PublishStep(p) ==
  /\ sent[p] < MaxSent[p]
  /\ seq' = [seq EXCEPT ![p] = (@ + 1) % SeqModulus]
  /\ sent' = [sent EXCEPT ![p] = @ + 1]
  /\ \/ air' = air \cup {[from |-> p, seq |-> seq'[p],
                          value |-> sent'[p], enabled |-> Enabled[p]]}
     \/ UNCHANGED air
  /\ UNCHANGED <<tableVars, rows, restarted, first, heard>>

\* The process dies and is started again, once: a new Agent numbers its packets
\* from the start, and what the radio repeats of the old one may stay on the air.
Restart(p) ==
  /\ p \notin restarted
  /\ restarted' = restarted \cup {p}
  /\ seq' = [seq EXCEPT ![p] = 0]
  /\ UNCHANGED <<tableVars, sent, air, rows, first, heard>>

-----------------------------------------------------------------------------
(* The medium and the agent *)

\* _on_receive: a packet is received as often as the radio repeats it, after
\* any delay, or never.
Receive(pkt) ==
  /\ IF pkt.from \in Declared THEN record[pkt.from].updates < MaxHeard[pkt.from]
                              ELSE ignored < MaxHeard[pkt.from]
  /\ Observe(pkt)
  /\ IF pkt.from \in Declared
     THEN /\ first' = [first EXCEPT ![pkt.from] = IF @ = 0 THEN pkt.value ELSE @]
          /\ heard' = [heard EXCEPT ![pkt.from] = @ \cup {pkt.value}]
     ELSE UNCHANGED <<first, heard>>
  /\ UNCHANGED <<senders, air, rows>>

\* _control_step, as far as it reads the table: a row of last_seq().
ControlStep ==
  /\ Len(rows) < MaxRows
  /\ rows' = Append(rows, [p \in Declared |-> record[p].seq])
  /\ Arrivals
  /\ UNCHANGED <<stats, lastSeq, record, ignored, senders, air, first, heard>>

\* The clock moves on.
Tick ==
  /\ Age
  /\ UNCHANGED <<stats, lastSeq, arrived, ignored, senders, air, rows, first, heard>>

Next ==
  \/ \E p \in Peers : PublishStep(p)
  \/ \E p \in Declared : Restart(p)
  \/ \E pkt \in air : Receive(pkt)
  \/ ControlStep
  \/ Tick

Spec == Init /\ [][Next]_vars

\* Time passes.
FairSpec == Spec /\ WF_vars(Tick)

-----------------------------------------------------------------------------
(* The delivery an analysis reads in the rows: NodeRun.link_delivery *)

\* The column without the rows where nothing had been heard.
Column(p) ==
  LET upto[i \in 0 .. Len(rows)] ==
        IF i = 0 THEN << >>
        ELSE IF rows[i][p] = 0 THEN upto[i - 1] ELSE Append(upto[i - 1], rows[i][p])
  IN  upto[Len(rows)]
\* What comes before its least value is a leftover of an earlier run.
Stale(c) == CHOOSE i \in DOMAIN c :
              /\ \A j \in DOMAIN c : c[i] <= c[j]
              /\ \A j \in 1 .. i - 1 : c[j] # c[i]
Series(c) == SubSeq(c, Stale(c), Len(c))
Span(s) == ((Last(s) - s[1]) % SeqModulus) + 1
Seen(s) == Cardinality(ToSet(s))

\* It gives a ratio only of two samples at least, and one of at most 1.
LinkDelivery(p) ==
  LET c == Column(p)
      s == Series(c)
  IN  IF Len(c) < 2 \/ Len(s) < 2 \/ Span(s) < Seen(s)
      THEN [derivable |-> FALSE, expected |-> 0, received |-> 0]
      ELSE [derivable |-> TRUE, expected |-> Span(s), received |-> Seen(s)]

-----------------------------------------------------------------------------
(* Correctness *)

TypeOK ==
  /\ stats \in [Declared -> [received : Nat, expected : Nat, lost : Nat,
                             duplicates : Nat, reordered : Nat, resets : Nat]]
  /\ lastSeq \in [Declared -> Seqs \cup {NoSeq}]
  /\ record \in [Declared -> [value : Nat, seq : Seqs, enabled : BOOLEAN,
                              age : 0 .. MaxAge + 1, updates : Nat]]
  /\ arrived \in SUBSET Declared
  /\ ignored \in Nat
  /\ seq \in [Peers -> Seqs]
  /\ sent \in [Peers -> Nat]
  /\ restarted \in SUBSET Declared
  /\ air \in SUBSET Packets

\* The monitor's counters add up: every packet expected is received or lost,
\* and every packet heard, which the table counts on its own, is received, a
\* duplicate or out of order (LinkMonitor.observe beside NeighborTable.observe).
Accounted ==
  \A p \in Declared :
    /\ stats[p].expected = stats[p].received + stats[p].lost
    /\ record[p].updates =
         stats[p].received + stats[p].duplicates + stats[p].reordered

\* The table is always well formed and accounted for: the numbers of the packets
\* stay on 16 bits across the wrap and a restart, and no packet is counted
\* twice or not at all (Agent._publish_step, LinkMonitor.observe).
ExchangeInv == TypeOK /\ Accounted

Newest(p) == CHOOSE v \in heard[p] : \A w \in heard[p] : w <= v
Oldest(p) == CHOOSE v \in heard[p] : \A w \in heard[p] : v <= w

\* While a neighbour does not restart and its packets stay within the window,
\* across the wrap of the numbers as well, the monitor takes nothing for a
\* restart, expects exactly what was sent from the first packet heard to the
\* newest, and calls lost at least what never arrived: only packets that came
\* late are counted lost and heard (delivery_ratio understates, never flatters).
LossNeverUnderstated ==
  \A p \in Declared :
    heard[p] # {} /\ p \notin restarted /\ Newest(p) - Oldest(p) < Window =>
      LET missing == (first[p] .. Newest(p)) \ heard[p]
      IN  /\ stats[p].resets = 0
          /\ stats[p].expected = Newest(p) - first[p] + 1
          /\ stats[p].lost >= Cardinality(missing)
          /\ stats[p].reordered = 0 => stats[p].lost = Cardinality(missing)

\* The value the controller is given of a neighbour that did not restart goes
\* back to an older one only when the monitor has counted a packet out of
\* order, or taken one for a restart: the record itself is overwritten by
\* whatever comes last (NeighborTable.observe).
GoingBackIsCounted ==
  \A p \in Declared \ restarted :
    heard[p] # {} /\ record[p].value < Newest(p) =>
      stats[p].reordered + stats[p].resets > 0

\* The values of a neighbour that did not restart that carry the numbers from
\* the first to the last of a series.
Delivered(p, s) ==
  {v \in heard[p] :
     ((v - (sent[p] - seq[p]) - s[1]) % SeqModulus) <= ((Last(s) - s[1]) % SeqModulus)}

NoMoreThanDelivered(p) ==
  LET d == LinkDelivery(p)
  IN  d.derivable => d.received <= Cardinality(Delivered(p, Series(Column(p))))

\* Delivery derived from the rows is a floor as its note says, so long as the
\* neighbour did not restart and nothing was heard out of order.
InOrderRowsAreLowerBound ==
  \A p \in Declared :
    p \notin restarted /\ stats[p].reordered + stats[p].resets = 0 =>
      NoMoreThanDelivered(p)

\* What is said of a link is honest: the loss the monitor counts, the value that
\* goes back and the delivery read in the rows (LinkMonitor.observe,
\* NeighborTable.observe, NodeRun.link_delivery).
DeliveryIsHonest ==
  LossNeverUnderstated /\ GoingBackIsCounted /\ InOrderRowsAreLowerBound

\* A neighbour nothing is heard of any more is dropped from the coupling,
\* unless the law holds stale values (AgentConfig.max_neighbor_age_s).
SilentDropped ==
  \A p \in Declared :
    (<>[][record'[p].updates = record[p].updates]_record /\ ~Hold) => <>[]~Usable(p)
===============================================================================
