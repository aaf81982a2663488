---------------------------- MODULE NeighborTable -----------------------------
(***************************************************************************)
(* What an agent keeps of the packets it hears: the latest state of each   *)
(* declared neighbour (vertex/agent/neighbors.py), and the account of the  *)
(* link that the sequence numbers give (LinkMonitor, vertex/wire/codec.py).*)
(*                                                                         *)
(* Sequence numbers are 16 bits and wrap; a packet less than Window behind *)
(* the last is out of order, one more than Window ahead is a sender that   *)
(* started again.                                                          *)
(***************************************************************************)
EXTENDS Integers

CONSTANTS
  Peers,     \* whoever transmits within range
  Declared,  \* neighbor_ids: the neighbours the manifest gives this node
  SeqModulus,    \* 2^16
  Window,    \* LinkMonitor.reorder_window
  MaxAge,    \* max_age_us: the age up to which a neighbour's value is used
  Hold       \* holds_stale_neighbours: a stale value is used all the same

ASSUME NeighborAssumption ==
  /\ Declared \subseteq Peers
  /\ Window \in Nat \ {0}
  /\ SeqModulus \in Nat /\ SeqModulus > 2 * Window
  /\ MaxAge \in Nat
  /\ Hold \in BOOLEAN

VARIABLES
  stats,    \* LinkMonitor.stats
  lastSeq,  \* LinkMonitor._last_seq, NoSeq where there is none
  record,   \* NeighborTable._records; one with no updates does not exist
  arrived,  \* NeighborTable._arrived: heard since the last logged row
  ignored   \* NeighborTable._ignored: packets of undeclared senders

tableVars == <<stats, lastSeq, record, arrived, ignored>>

NoSeq == -1
Seqs == 0 .. SeqModulus - 1
NoStats == [received |-> 0, expected |-> 0, lost |-> 0,
            duplicates |-> 0, reordered |-> 0, resets |-> 0]
NoRecord == [value |-> 0, seq |-> 0, enabled |-> FALSE, age |-> 0, updates |-> 0]

TableInit ==
  /\ stats = [p \in Declared |-> NoStats]
  /\ lastSeq = [p \in Declared |-> NoSeq]
  /\ record = [p \in Declared |-> NoRecord]
  /\ arrived = {}
  /\ ignored = 0

-----------------------------------------------------------------------------
(* LinkMonitor.observe *)

(* Mutant of Gap: the difference is taken without the modulus.             *)
GapUnwrapped(p, seq) == seq - lastSeq[p]

Gap(p, seq) == (seq - lastSeq[p]) % SeqModulus

First(p) == lastSeq[p] = NoSeq
Duplicate(p, seq) == ~First(p) /\ Gap(p, seq) = 0
Reordered(p, seq) == ~First(p) /\ Gap(p, seq) > SeqModulus - Window
Reset(p, seq) ==
  ~First(p) /\ ~Reordered(p, seq) /\ Gap(p, seq) > Window

\* The packets of the link this one says were sent since the last.
Advance(p, seq) == IF First(p) \/ Reset(p, seq) THEN 1 ELSE Gap(p, seq)

(* Mutant of Counted: a duplicate is left counted as received.            *)
CountedTwice(p, seq) ==
  IF Duplicate(p, seq)
  THEN [stats[p] EXCEPT !.duplicates = @ + 1, !.received = @ + 1]
  ELSE IF Reordered(p, seq)
  THEN [stats[p] EXCEPT !.reordered = @ + 1]
  ELSE [stats[p] EXCEPT !.received = @ + 1,
                        !.expected = @ + Advance(p, seq),
                        !.lost = @ + Advance(p, seq) - 1]

\* Only a packet that moves the last sequence number is a delivery.
Counted(p, seq) ==
  IF Duplicate(p, seq)
  THEN [stats[p] EXCEPT !.duplicates = @ + 1]
  ELSE IF Reordered(p, seq)
  THEN [stats[p] EXCEPT !.reordered = @ + 1]
  ELSE [stats[p] EXCEPT !.received = @ + 1,
                        !.expected = @ + Advance(p, seq),
                        !.lost = @ + Advance(p, seq) - 1,
                        !.resets = IF Reset(p, seq) THEN @ + 1 ELSE @]

LastSeqAfter(p, seq) ==
  IF Duplicate(p, seq) \/ Reordered(p, seq) THEN lastSeq[p] ELSE seq

-----------------------------------------------------------------------------
(* NeighborTable *)

\* The record is replaced whatever the monitor made of the packet.
Observe(pkt) ==
  LET p == pkt.from
  IN  IF p \in Declared
      THEN /\ arrived' = arrived \cup {p}
           /\ stats' = [stats EXCEPT ![p] = Counted(p, pkt.seq)]
           /\ lastSeq' = [lastSeq EXCEPT ![p] = LastSeqAfter(p, pkt.seq)]
           /\ record' = [record EXCEPT ![p] =
                           [value |-> pkt.value, seq |-> pkt.seq, age |-> 0,
                            enabled |-> pkt.enabled, updates |-> @.updates + 1]]
           /\ UNCHANGED ignored
      ELSE /\ ignored' = ignored + 1
           /\ UNCHANGED <<stats, lastSeq, record, arrived>>

\* snapshot(): what the controller is told of a neighbour.
Heard(p) == record[p].updates > 0

(* Mutant of Usable: the age of a value is not looked at.                  *)
UsableOnceHeard(p) == Heard(p) /\ record[p].enabled

Usable(p) ==
  /\ Heard(p)
  /\ record[p].enabled
  /\ Hold \/ record[p].age <= MaxAge

\* arrivals(): read and cleared by each logged row.
Arrivals == arrived' = {}

\* Ages past MaxAge are alike.
Older(r) == IF r.age > MaxAge THEN r ELSE [r EXCEPT !.age = @ + 1]
Age == record' = [p \in Declared |-> IF Heard(p) THEN Older(record[p]) ELSE record[p]]
===============================================================================
