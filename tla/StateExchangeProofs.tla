------------------------- MODULE StateExchangeProofs --------------------------
(***************************************************************************)
(* The neighbour table of an agent is well formed and accounts for every   *)
(* packet, whatever the medium does: the counters of the link monitor add  *)
(* up, for any number of neighbours, any window and any modulus; and what  *)
(* is said of a link is honest: its losses, a value that goes back, and    *)
(* the delivery read in the rows of a log.                                 *)
(***************************************************************************)
EXTENDS StateExchange, FiniteSetTheorems, WellFoundedInduction, TLAPS

-----------------------------------------------------------------------------
(* Sequence numbers.                                                       *)

LEMMA ModRange ==
  ASSUME NEW a \in Int, NEW n \in Nat, n > 0
  PROVE  a % n \in 0 .. n - 1
OBVIOUS

LEMMA ModulusType == SeqModulus \in Nat /\ SeqModulus > 0 /\ Window \in Nat /\ Window > 0
BY NeighborAssumption

LEMMA SeqsClosed == ASSUME NEW a \in Int PROVE a % SeqModulus \in Seqs
BY ModRange, ModulusType DEF Seqs

LEMMA FirstSeqType == FirstSeqs \subseteq Seqs /\ 0 \in Seqs /\ NoSeq \notin Seqs
BY ExchangeAssumption, ModulusType DEF Seqs, NoSeq

-----------------------------------------------------------------------------
(* The monitor.                                                            *)

Stats == [received : Nat, expected : Nat, lost : Nat,
          duplicates : Nat, reordered : Nat, resets : Nat]
Records == [value : Nat, seq : Seqs, enabled : BOOLEAN, age : 0 .. MaxAge + 1, updates : Nat]

LEMMA GapType ==
  ASSUME TypeOK, NEW p \in Declared, NEW s \in Seqs, ~First(p)
  PROVE  Gap(p, s) \in Nat
<1>1. lastSeq[p] \in Int /\ s \in Int
  BY ModulusType DEF TypeOK, Seqs, NoSeq
<1>2. s - lastSeq[p] \in Int
  BY <1>1
<1> QED BY <1>2, ModRange, ModulusType DEF Gap

\* A packet that moves the last sequence number says at least one was sent.
LEMMA AdvanceType ==
  ASSUME TypeOK, NEW p \in Declared, NEW s \in Seqs, ~Duplicate(p, s)
  PROVE  Advance(p, s) \in Nat /\ Advance(p, s) >= 1
BY GapType DEF Duplicate, Advance

\* One packet more is counted once, and what is expected is received or lost.
LEMMA CountedOnce ==
  ASSUME TypeOK, NEW p \in Declared, NEW s \in Seqs
  PROVE  LET old == stats[p]  new == Counted(p, s)
         IN  /\ new \in Stats
             /\ new.expected - new.received - new.lost
                  = old.expected - old.received - old.lost
             /\ new.received + new.duplicates + new.reordered
                  = old.received + old.duplicates + old.reordered + 1
<1>1. stats[p] \in Stats
  BY DEF TypeOK, Stats
<1>2. CASE Duplicate(p, s)
  <2>1. Counted(p, s) = [stats[p] EXCEPT !.duplicates = @ + 1]
    BY <1>2 DEF Counted
  <2>2. /\ Counted(p, s) \in Stats
        /\ Counted(p, s).expected = stats[p].expected
        /\ Counted(p, s).received = stats[p].received
        /\ Counted(p, s).lost = stats[p].lost
        /\ Counted(p, s).duplicates = stats[p].duplicates + 1
        /\ Counted(p, s).reordered = stats[p].reordered
    BY <1>1, <2>1 DEF Stats
  <2> HIDE DEF Stats
  <2>3. /\ stats[p].expected \in Nat /\ stats[p].received \in Nat /\ stats[p].lost \in Nat
        /\ stats[p].duplicates \in Nat /\ stats[p].reordered \in Nat
    BY <1>1 DEF Stats
  <2> QED BY <2>2, <2>3
<1>3. CASE ~Duplicate(p, s) /\ Reordered(p, s)
  <2>1. Counted(p, s) = [stats[p] EXCEPT !.reordered = @ + 1]
    BY <1>3 DEF Counted
  <2>2. /\ Counted(p, s) \in Stats
        /\ Counted(p, s).expected = stats[p].expected
        /\ Counted(p, s).received = stats[p].received
        /\ Counted(p, s).lost = stats[p].lost
        /\ Counted(p, s).duplicates = stats[p].duplicates
        /\ Counted(p, s).reordered = stats[p].reordered + 1
    BY <1>1, <2>1 DEF Stats
  <2> HIDE DEF Stats
  <2>3. /\ stats[p].expected \in Nat /\ stats[p].received \in Nat /\ stats[p].lost \in Nat
        /\ stats[p].duplicates \in Nat /\ stats[p].reordered \in Nat
    BY <1>1 DEF Stats
  <2> QED BY <2>2, <2>3
<1>4. CASE ~Duplicate(p, s) /\ ~Reordered(p, s)
  <2>1. Advance(p, s) \in Nat /\ Advance(p, s) >= 1
    BY <1>4, AdvanceType
  <2> DEFINE n == Advance(p, s)
             r == IF Reset(p, s) THEN stats[p].resets + 1 ELSE stats[p].resets
  <2>2. Counted(p, s) = [stats[p] EXCEPT !.received = @ + 1, !.expected = @ + n,
                                         !.lost = @ + n - 1, !.resets = r]
    BY <1>1, <1>4 DEF Counted, Stats
  <2>3. r \in Nat
    BY <1>1 DEF Stats
  <2> HIDE DEF n, r
  <2>4. n \in Nat /\ n >= 1
    BY <2>1 DEF n
  <2>5. Counted(p, s) = [received |-> stats[p].received + 1,
                         expected |-> stats[p].expected + n,
                         lost |-> stats[p].lost + n - 1,
                         duplicates |-> stats[p].duplicates,
                         reordered |-> stats[p].reordered,
                         resets |-> r]
    BY <1>1, <2>2 DEF Stats
  <2> HIDE DEF Stats
  <2>6. /\ stats[p].expected \in Nat /\ stats[p].received \in Nat /\ stats[p].lost \in Nat
        /\ stats[p].duplicates \in Nat /\ stats[p].reordered \in Nat
    BY <1>1 DEF Stats
  <2>7. Counted(p, s) \in Stats
    BY <2>3, <2>4, <2>5, <2>6 DEF Stats
  <2>8. /\ Counted(p, s).expected = stats[p].expected + n
        /\ Counted(p, s).received = stats[p].received + 1
        /\ Counted(p, s).lost = stats[p].lost + n - 1
        /\ Counted(p, s).duplicates = stats[p].duplicates
        /\ Counted(p, s).reordered = stats[p].reordered
    BY <2>5
  <2> HIDE DEF n
  <2> DEFINE e == stats[p].expected
             g == stats[p].received
             l == stats[p].lost
             d == stats[p].duplicates
             o == stats[p].reordered
  <2>9. e \in Nat /\ g \in Nat /\ l \in Nat /\ d \in Nat /\ o \in Nat
    BY <2>6
  <2> HIDE DEF e, g, l, d, o
  <2>10. /\ (e + n) - (g + 1) - (l + n - 1) = e - g - l
         /\ (g + 1) + d + o = g + d + o + 1
    BY <2>4, <2>9
  <2>11. /\ Counted(p, s).expected - Counted(p, s).received - Counted(p, s).lost
              = stats[p].expected - stats[p].received - stats[p].lost
         /\ Counted(p, s).received + Counted(p, s).duplicates + Counted(p, s).reordered
              = stats[p].received + stats[p].duplicates + stats[p].reordered + 1
    BY <2>8, <2>10, Zenon DEF e, g, l, d, o
  <2> QED BY <2>7, <2>11, Zenon
<1> QED BY <1>2, <1>3, <1>4

LEMMA LastSeqType ==
  ASSUME TypeOK, NEW p \in Declared, NEW s \in Seqs
  PROVE  LastSeqAfter(p, s) \in Seqs \cup {NoSeq}
BY DEF TypeOK, LastSeqAfter

-----------------------------------------------------------------------------
(* The steps.                                                              *)

LEMMA InitHolds == Init => ExchangeInv
<1> SUFFICES ASSUME Init PROVE ExchangeInv
  OBVIOUS
<1>1. TypeOK
  BY FirstSeqType, NeighborAssumption
  DEF Init, TableInit, TypeOK, NoStats, NoRecord
<1>2. Accounted
  <2>1. stats = [p \in Declared |-> NoStats] /\ record = [p \in Declared |-> NoRecord]
    BY DEF Init, TableInit
  <2>2. \A p \in Declared : stats[p] = NoStats /\ record[p] = NoRecord
    BY <2>1
  <2> QED BY <2>2 DEF Accounted, NoStats, NoRecord
<1> QED BY <1>1, <1>2 DEF ExchangeInv

LEMMA PublishKeeps ==
  ASSUME ExchangeInv, NEW p \in Peers, PublishStep(p)
  PROVE  ExchangeInv'
<1>1. (seq[p] + 1) % SeqModulus \in Seqs
  BY SeqsClosed, ModulusType DEF ExchangeInv, TypeOK, Seqs
<1>2. seq' \in [Peers -> Seqs] /\ sent' \in [Peers -> Nat]
  BY <1>1 DEF ExchangeInv, TypeOK, PublishStep
<1>3. air' \in SUBSET Packets
  BY <1>2, ExchangeAssumption DEF ExchangeInv, TypeOK, PublishStep, Packets
<1>4. UNCHANGED tableVars /\ UNCHANGED restarted
  BY DEF PublishStep
<1> QED BY <1>2, <1>3, <1>4 DEF ExchangeInv, TypeOK, Accounted, tableVars

LEMMA RestartKeeps ==
  ASSUME ExchangeInv, NEW p \in Declared, Restart(p)
  PROVE  ExchangeInv'
<1>1. seq' \in [Peers -> Seqs] /\ restarted' \in SUBSET Declared
  BY FirstSeqType DEF ExchangeInv, TypeOK, Restart
<1>2. UNCHANGED <<tableVars, sent, air>>
  BY DEF Restart
<1> QED BY <1>1, <1>2 DEF ExchangeInv, TypeOK, Accounted, tableVars

LEMMA ReceiveKeeps ==
  ASSUME ExchangeInv, NEW pkt \in air, Receive(pkt)
  PROVE  ExchangeInv'
<1> DEFINE p == pkt.from  new == Counted(p, pkt.seq)
<1>1. /\ pkt \in Packets /\ UNCHANGED <<seq, sent, restarted, air>>
      /\ TypeOK /\ Accounted
  BY DEF ExchangeInv, TypeOK, Receive, senders
<1>2. CASE p \notin Declared
  <2>1. ignored' = ignored + 1 /\ UNCHANGED <<stats, lastSeq, record, arrived>>
    BY <1>2 DEF Receive, Observe
  <2> QED BY <1>1, <2>1 DEF ExchangeInv, TypeOK, Accounted
<1>3. CASE p \in Declared
  <2>1. /\ arrived' = arrived \cup {p} /\ ignored' = ignored
        /\ stats' = [stats EXCEPT ![p] = new]
        /\ lastSeq' = [lastSeq EXCEPT ![p] = LastSeqAfter(p, pkt.seq)]
        /\ record' = [record EXCEPT ![p] =
                        [value |-> pkt.value, seq |-> pkt.seq, age |-> 0,
                         enabled |-> pkt.enabled, updates |-> record[p].updates + 1]]
    BY <1>3 DEF Receive, Observe
  <2>2. pkt.seq \in Seqs /\ pkt.value \in Nat /\ pkt.enabled \in BOOLEAN
    BY <1>1 DEF Packets
  <2>3. /\ new \in Stats
        /\ new.expected - new.received - new.lost
             = stats[p].expected - stats[p].received - stats[p].lost
        /\ new.received + new.duplicates + new.reordered
             = stats[p].received + stats[p].duplicates + stats[p].reordered + 1
    BY <1>1, <1>3, <2>2, CountedOnce
  <2>4. LastSeqAfter(p, pkt.seq) \in Seqs \cup {NoSeq}
    BY <1>1, <1>3, <2>2, LastSeqType
  <2> HIDE DEF new
  <2>5. stats \in [Declared -> Stats] /\ record \in [Declared -> Records]
    BY <1>1 DEF TypeOK, Stats, Records
  <2>6. stats' \in [Declared -> Stats]
    BY <2>1, <2>3, <2>5
  <2>7. record' \in [Declared -> Records]
    <3> DEFINE r == [value |-> pkt.value, seq |-> pkt.seq, age |-> 0,
                     enabled |-> pkt.enabled, updates |-> record[p].updates + 1]
    <3>1. record[p].updates \in Nat
      BY <1>3, <2>5 DEF Records
    <3>2. 0 \in 0 .. MaxAge + 1
      BY NeighborAssumption
    <3>3. r \in Records
      BY <2>2, <3>1, <3>2 DEF Records
    <3> HIDE DEF r
    <3>4. record' = [record EXCEPT ![p] = r]
      BY <2>1 DEF r
    <3> QED BY <2>5, <3>3, <3>4
  <2>8. TypeOK'
    BY <1>1, <1>3, <2>1, <2>4, <2>6, <2>7 DEF TypeOK, Stats, Records
  <2>9. Accounted'
    <3> SUFFICES ASSUME NEW q \in Declared
                 PROVE  /\ stats'[q].expected = stats'[q].received + stats'[q].lost
                        /\ record'[q].updates = stats'[q].received + stats'[q].duplicates
                                                  + stats'[q].reordered
      BY DEF Accounted
    <3>1. /\ stats[q].expected = stats[q].received + stats[q].lost
          /\ record[q].updates = stats[q].received + stats[q].duplicates
                                   + stats[q].reordered
      BY <1>1 DEF Accounted
    <3>2. CASE q = p
      <4>1. stats'[q] = new /\ record'[q].updates = record[q].updates + 1
        BY <1>3, <2>1, <2>5, <3>2 DEF Records
      <4>2. stats[q] \in Stats /\ record[q].updates \in Nat
        BY <2>5 DEF Records
      <4>3. /\ {new.expected, new.received, new.lost, new.duplicates, new.reordered} \subseteq Nat
            /\ {stats[q].expected, stats[q].received, stats[q].lost,
                stats[q].duplicates, stats[q].reordered} \subseteq Nat
        BY <2>3, <4>2 DEF Stats
      <4> QED BY <2>3, <3>1, <3>2, <4>1, <4>2, <4>3
    <3>3. CASE q # p
      BY <2>1, <2>5, <3>1, <3>3
    <3> QED BY <3>2, <3>3
  <2> QED BY <2>8, <2>9 DEF ExchangeInv
<1> QED BY <1>2, <1>3

LEMMA ControlStepKeeps == ExchangeInv /\ ControlStep => ExchangeInv'
BY DEF ExchangeInv, TypeOK, Accounted, ControlStep, Arrivals, senders

LEMMA TickKeeps == ExchangeInv /\ Tick => ExchangeInv'
<1> SUFFICES ASSUME ExchangeInv, Tick PROVE ExchangeInv'
  OBVIOUS
<1>1. record \in [Declared -> Records] /\ MaxAge \in Nat
  BY NeighborAssumption DEF ExchangeInv, TypeOK, Records
<1>2. \A p \in Declared : /\ record'[p] \in Records
                          /\ record'[p].updates = record[p].updates
  BY <1>1 DEF Tick, Age, Older, Records
<1>3. record' \in [Declared -> Records]
  BY <1>2 DEF Tick, Age
<1>4. UNCHANGED <<stats, lastSeq, arrived, ignored, seq, sent, restarted, air>>
  BY DEF Tick, senders
<1> QED BY <1>2, <1>3, <1>4 DEF ExchangeInv, TypeOK, Accounted, Records

LEMMA NextKeeps == ExchangeInv /\ [Next]_vars => ExchangeInv'
<1> SUFFICES ASSUME ExchangeInv, [Next]_vars PROVE ExchangeInv'
  OBVIOUS
<1>1. CASE \E p \in Peers : PublishStep(p)
  BY <1>1, PublishKeeps
<1>2. CASE \E p \in Declared : Restart(p)
  BY <1>2, RestartKeeps
<1>3. CASE \E pkt \in air : Receive(pkt)
  BY <1>3, ReceiveKeeps
<1>4. CASE ControlStep
  BY <1>4, ControlStepKeeps
<1>5. CASE Tick
  BY <1>5, TickKeeps
<1>6. CASE UNCHANGED vars
  BY <1>6 DEF vars, tableVars, senders, ExchangeInv, TypeOK, Accounted
<1> QED BY <1>1, <1>2, <1>3, <1>4, <1>5, <1>6 DEF Next

\* Whatever is lost, repeated, reordered or restarted, and wherever the numbers
\* wrap, the table is well formed and every packet heard is counted once
\* (LinkMonitor.observe, NeighborTable.observe, Agent._publish_step).
THEOREM ExchangeAccounted == Spec => []ExchangeInv
BY InitHolds, NextKeeps, PTL DEF Spec

-----------------------------------------------------------------------------
(* Remainders.                                                             *)

LEMMA DivFacts ==
  ASSUME NEW x \in Int, NEW n \in Nat, n > 0
  PROVE  x = n * (x \div n) + (x % n) /\ (x % n) \in 0 .. n - 1 /\ x \div n \in Int
OBVIOUS

LEMMA Remainder ==
  ASSUME NEW x \in Int, NEW n \in Nat, n > 0, NEW q \in Int, NEW r \in 0 .. n - 1,
         x = q * n + r
  PROVE  x % n = r
<1> DEFINE k == x \div n  m == x % n
<1>1. x = n * k + m /\ m \in 0 .. n - 1 /\ k \in Int
  BY DivFacts
<1> HIDE DEF k, m
<1>2. (q - k) * n = m - r /\ q - k \in Int
  BY <1>1
<1>3. q - k = 0
  <2>1. CASE q - k >= 1
    <3>1. (q - k) * n >= n
      BY <2>1, <1>2
    <3> QED BY <3>1, <1>1, <1>2
  <2>2. CASE q - k <= -1
    <3>1. (q - k) * n <= -n
      BY <2>2, <1>2
    <3> QED BY <3>1, <1>1, <1>2
  <2> QED BY <2>1, <2>2, <1>2
<1> QED BY <1>1, <1>2, <1>3 DEF m

\* The number a packet of a neighbour carries.
Num(p, v) == ((seq[p] - sent[p]) + v) % SeqModulus

\* How far one number is ahead of another, on the circle.
LEMMA Ahead ==
  ASSUME NEW b \in Int, NEW v \in Int, NEW w \in Int, NEW n \in Nat, n > 0
  PROVE  (((b + v) % n) - ((b + w) % n)) % n = (v - w) % n
<1> DEFINE q1 == (b + v) \div n  r1 == (b + v) % n
           q2 == (b + w) \div n  r2 == (b + w) % n
           q3 == (v - w) \div n  r3 == (v - w) % n
<1>1. b + v = n * q1 + r1 /\ q1 \in Int /\ r1 \in 0 .. n - 1
  BY DivFacts
<1>2. b + w = n * q2 + r2 /\ q2 \in Int /\ r2 \in 0 .. n - 1
  BY DivFacts
<1>3. v - w = n * q3 + r3 /\ q3 \in Int /\ r3 \in 0 .. n - 1
  BY DivFacts
<1> HIDE DEF q1, q2, q3, r1, r2, r3
<1>4. r1 - r2 = ((q3 - q1) + q2) * n + r3
  <2>1. r1 - r2 = (v - w) - (n * q1 - n * q2)
    BY <1>1, <1>2
  <2>2. ((q3 - q1) + q2) * n = (n * q3 - n * q1) + n * q2
    BY <1>1, <1>2, <1>3
  <2>3. n * q1 \in Int /\ n * q2 \in Int /\ n * q3 \in Int
    BY <1>1, <1>2, <1>3
  <2> QED BY <2>1, <2>2, <2>3, <1>1, <1>2, <1>3
<1>5. (q3 - q1) + q2 \in Int /\ r1 - r2 \in Int
  BY <1>1, <1>2, <1>3
<1>6. (r1 - r2) % n = r3
  <2> DEFINE x == r1 - r2  k == (q3 - q1) + q2
  <2>1. x \in Int /\ k \in Int /\ x = k * n + r3 /\ r3 \in 0 .. n - 1
    BY <1>3, <1>4, <1>5
  <2> HIDE DEF x, k
  <2>2. x % n = r3
    BY <2>1, Remainder
  <2> QED BY <2>2 DEF x
<1> QED BY <1>6 DEF r1, r2, r3

LEMMA OnTheCircle ==
  ASSUME NEW d \in Int, NEW n \in Nat, n > 0
  PROVE  /\ 0 <= d /\ d < n => d % n = d
         /\ -n < d /\ d < 0 => d % n = n + d
<1>1. ASSUME 0 <= d, d < n PROVE d % n = d
  <2>1. d = 0 * n + d /\ d \in 0 .. n - 1
    BY <1>1
  <2> QED BY <2>1, Remainder
<1>2. ASSUME -n < d, d < 0 PROVE d % n = n + d
  <2>1. d = (-1) * n + (n + d) /\ n + d \in 0 .. n - 1 /\ -1 \in Int
    BY <1>2
  <2> QED BY <2>1, Remainder
<1> QED BY <1>1, <1>2

LEMMA NumType ==
  ASSUME TypeOK, NEW p \in Peers, NEW v \in Int
  PROVE  Num(p, v) \in Seqs /\ seq[p] - sent[p] \in Int
<1>1. seq[p] \in Int /\ sent[p] \in Int
  BY ModulusType DEF TypeOK, Seqs
<1>2. (seq[p] - sent[p]) + v \in Int
  BY <1>1
<1> QED BY <1>1, <1>2, SeqsClosed DEF Num

\* One packet more leaves the numbers of all packets as they were.
LEMMA NumKept ==
  ASSUME TypeOK, NEW p \in Peers, PublishStep(p), NEW q \in Peers, NEW v \in Int
  PROVE  Num(q, v)' = Num(q, v)
<1> DEFINE M == SeqModulus
<1>1. M \in Nat /\ M > 0
  BY ModulusType
<1>2. /\ seq \in [Peers -> Seqs] /\ sent \in [Peers -> Nat] /\ seq[p] \in Nat /\ sent[p] \in Nat
      /\ seq' = [seq EXCEPT ![p] = (seq[p] + 1) % M] /\ sent' = [sent EXCEPT ![p] = sent[p] + 1]
  BY ModulusType DEF TypeOK, PublishStep, Seqs
<1>3. CASE q # p
  <2>1. seq'[q] = seq[q] /\ sent'[q] = sent[q]
    BY <1>2, <1>3
  <2> QED BY <2>1 DEF Num
<1>4. CASE q = p
  <2> DEFINE a == seq[p]  b == sent[p]  k == (a + 1) \div M  r == (a + 1) % M
             x == (a - b) + v  q1 == x \div M  r1 == x % M
  <2>1. seq'[p] = r /\ sent'[p] = b + 1
    BY <1>2
  <2>2. a \in Nat /\ b \in Nat
    BY <1>2
  <2>3. a + 1 = M * k + r /\ k \in Int /\ r \in 0 .. M - 1
    <3> DEFINE z == a + 1
    <3>1. z \in Int
      BY <2>2
    <3> HIDE DEF z, M
    <3>2. z = M * (z \div M) + (z % M) /\ z \div M \in Int /\ z % M \in 0 .. M - 1
      BY <1>1, <3>1, DivFacts
    <3> QED BY <3>2 DEF z
  <2> HIDE DEF k, r
  <2>4. x \in Int
    BY <2>2
  <2>5. x = M * q1 + r1 /\ q1 \in Int /\ r1 \in 0 .. M - 1
    BY <1>1, <2>4, DivFacts
  <2>6. Num(p, v) = r1
    BY DEF Num
  <2> HIDE DEF r1, q1
  <2>7. (r - (b + 1)) + v = (q1 - k) * M + r1
    <3>1. (r - (b + 1)) + v = x - M * k
      <4>1. M * k \in Int
        BY <1>1, <2>3
      <4> QED BY <2>2, <2>3, <4>1
    <3>2. (q1 - k) * M = M * q1 - M * k
      BY <1>1, <2>3, <2>5
    <3> HIDE DEF x, M
    <3>3. M * k \in Int /\ M * q1 \in Int
      BY <1>1, <2>3, <2>5
    <3> QED BY <2>4, <2>5, <3>1, <3>2, <3>3
  <2>8. ((r - (b + 1)) + v) % M = r1
    <3>1. (r - (b + 1)) + v \in Int /\ q1 - k \in Int
      BY <2>2, <2>3, <2>5
    <3> HIDE DEF M, a, b
    <3> QED BY <1>1, <2>5, <2>7, <3>1, Remainder
  <2> QED BY <1>4, <2>1, <2>6, <2>8 DEF Num
<1> QED BY <1>3, <1>4

\* The gap to the last number says how far the packet is from the newest.
LEMMA GapIs ==
  ASSUME TypeOK, NEW p \in Declared, NEW v \in Int, NEW w \in Int, lastSeq[p] = Num(p, w)
  PROVE  /\ ~First(p)
         /\ v = w => Gap(p, Num(p, v)) = 0
         /\ w < v /\ v - w < SeqModulus => Gap(p, Num(p, v)) = v - w
         /\ v < w /\ w - v < SeqModulus => Gap(p, Num(p, v)) = SeqModulus - (w - v)
<1>1. p \in Peers
  BY NeighborAssumption
<1>2. Num(p, w) \in Seqs /\ seq[p] - sent[p] \in Int
  BY <1>1, NumType
<1>3. ~First(p)
  BY <1>2, FirstSeqType DEF First
<1>4. Gap(p, Num(p, v)) = (v - w) % SeqModulus
  <2> DEFINE b == seq[p] - sent[p]
  <2>1. b \in Int
    BY <1>2
  <2> HIDE DEF b
  <2>2. (((b + v) % SeqModulus) - ((b + w) % SeqModulus)) % SeqModulus = (v - w) % SeqModulus
    BY <2>1, Ahead, ModulusType
  <2> QED BY <2>2 DEF Gap, Num, b
<1> DEFINE d == v - w
<1>5. d \in Int
  OBVIOUS
<1>6. /\ 0 <= d /\ d < SeqModulus => d % SeqModulus = d
      /\ -SeqModulus < d /\ d < 0 => d % SeqModulus = SeqModulus + d
  <2> HIDE DEF d
  <2> QED BY <1>5, OnTheCircle, ModulusType
<1> QED BY <1>3, <1>4, <1>6, ModulusType

-----------------------------------------------------------------------------
(* Induction over the naturals, for a set, and what it is used for.        *)

Below == {ss \in Nat \X Nat : ss[1] < ss[2]}

LEMMA LeastNumber ==
  ASSUME NEW T \in SUBSET Nat, T # {}
  PROVE  \E n \in T : \A m \in T : n <= m
<1>1. IsWellFoundedOn(Below, Nat)
  BY NatLessThanWellFounded DEF OpToRel, Below
<1>2. PICK x \in T : \A y \in T : ~ (<<y, x>> \in Below)
  BY <1>1, WFMin
<1>3. ASSUME NEW y \in T, y < x PROVE FALSE
  <2>1. <<y, x>> \in Nat \X Nat
    OBVIOUS
  <2>2. <<y, x>> \in Below
    BY <1>3, <2>1 DEF Below
  <2> QED BY <2>2, <1>2
<1> QED BY <1>2, <1>3

LEMMA SetInduction ==
  ASSUME NEW S, 0 \in S, \A n \in Nat : n \in S => n + 1 \in S
  PROVE  Nat \subseteq S
<1> DEFINE T == Nat \ S
<1>1. SUFFICES ASSUME T # {} PROVE FALSE
  OBVIOUS
<1>2. PICK n \in T : \A m \in T : n <= m
  BY <1>1, LeastNumber
<1>3. n # 0 /\ n - 1 \in Nat /\ n - 1 \notin T
  BY <1>2
<1> QED BY <1>2, <1>3

LEMMA GreatestNumber ==
  ASSUME NEW k \in Nat, NEW S \in SUBSET (1 .. k), S # {}
  PROVE  \E n \in S : \A m \in S : m <= n
<1> DEFINE T == {j \in Nat : \A m \in S : m <= j}
<1>1. k \in T
  OBVIOUS
<1>2. PICK n \in T : \A m \in T : n <= m
  <2>1. T \in SUBSET Nat /\ T # {}
    BY <1>1
  <2> HIDE DEF T
  <2> QED BY <2>1, LeastNumber
<1>3. PICK x \in S : TRUE
  OBVIOUS
<1>4. n \in Nat /\ x \in 1 .. k /\ x <= n
  BY <1>2, <1>3
<1>5. n - 1 \in Nat /\ ~ (n <= n - 1)
  BY <1>4
<1>6. n - 1 \notin T
  BY <1>2, <1>5
<1>7. PICK y \in S : ~ (y <= n - 1)
  BY <1>5, <1>6
<1>8. y \in 1 .. k /\ y <= n
  BY <1>2, <1>7
<1>9. y = n
  BY <1>4, <1>7, <1>8
<1> QED BY <1>2, <1>7, <1>9

-----------------------------------------------------------------------------
(* The inductive invariant: what the numbers say of the packets heard.     *)

\* No packet stays on the air until its number comes round again.
Short == \A p \in Declared : MaxSent[p] + Window <= SeqModulus

\* The newest packet heard.
Top(p, N) == N \in heard[p] /\ \A w \in heard[p] : w <= N

Missing(p, N) == (first[p] .. N) \ heard[p]

\* The packets on the air carry the numbers they were sent with.
AirNumbers ==
  \A pkt \in air :
    /\ pkt.value \in 1 .. sent[pkt.from]
    /\ pkt.from \notin restarted => pkt.seq = Num(pkt.from, pkt.value)

Histories ==
  /\ heard \in [Declared -> SUBSET Nat] /\ first \in [Declared -> Nat]
  /\ rows \in Seq([Declared -> Seqs])
  /\ \A p \in Peers : sent[p] <= MaxSent[p]

Began(p) ==
  /\ heard[p] \subseteq 1 .. sent[p]
  /\ IF heard[p] = {}
     THEN first[p] = 0 /\ lastSeq[p] = NoSeq /\ stats[p] = NoStats /\ record[p] = NoRecord
     ELSE first[p] \in heard[p] /\ lastSeq[p] # NoSeq

\* Within the window the monitor follows the newest packet.
Followed(p) ==
  p \notin restarted /\ (\A v, w \in heard[p] : v - w < Window) =>
    \A N \in heard[p] : Top(p, N) =>
      /\ lastSeq[p] = Num(p, N) /\ stats[p].resets = 0
      /\ stats[p].expected = (N - first[p]) + 1
      /\ stats[p].lost >= Cardinality(Missing(p, N))
      /\ stats[p].reordered = 0 => stats[p].lost = Cardinality(Missing(p, N))

Counter(p) == stats[p].reordered + stats[p].resets

\* The record is of the newest packet while nothing was counted.
UpToDate(p) ==
  p \notin restarted /\ Counter(p) = 0 =>
    \A N \in heard[p] : Top(p, N) =>
      lastSeq[p] = Num(p, N) /\ record[p].value = N /\ record[p].seq = Num(p, N)

\* The packets the rows were logged with, 0 where there was none.
Logged(p, val) ==
  /\ val \in [1 .. Len(rows) -> {0} \cup heard[p]]
  /\ \A i, j \in 1 .. Len(rows) : i <= j => val[i] <= val[j]
  /\ \A i \in 1 .. Len(rows) : rows[i][p] = IF val[i] = 0 THEN 0 ELSE Num(p, val[i])

RowsInOrder(p) ==
  p \notin restarted /\ Counter(p) = 0 =>
    \E val \in [1 .. Len(rows) -> {0} \cup heard[p]] : Logged(p, val)

HonestInv ==
  /\ ExchangeInv /\ AirNumbers /\ Histories
  /\ \A p \in Declared : Began(p) /\ Followed(p)
  /\ Short => \A p \in Declared : UpToDate(p) /\ RowsInOrder(p)

LEMMA TopExists ==
  ASSUME TypeOK, NEW p \in Declared, Began(p), heard[p] # {}
  PROVE  \E N \in heard[p] : Top(p, N)
<1>1. sent[p] \in Nat
  BY NeighborAssumption DEF TypeOK
<1> QED BY <1>1, GreatestNumber DEF Top, Began

\* What the three verdicts of the monitor do to its counters.
LEMMA Verdicts ==
  ASSUME TypeOK, NEW p \in Declared, NEW s \in Seqs
  PROVE  LET old == stats[p]  new == Counted(p, s)
         IN  /\ Duplicate(p, s) =>
                  /\ new.expected = old.expected /\ new.lost = old.lost
                  /\ new.reordered = old.reordered /\ new.resets = old.resets
                  /\ LastSeqAfter(p, s) = lastSeq[p]
             /\ ~Duplicate(p, s) /\ Reordered(p, s) =>
                  /\ new.expected = old.expected /\ new.lost = old.lost
                  /\ new.reordered = old.reordered + 1 /\ new.resets = old.resets
                  /\ LastSeqAfter(p, s) = lastSeq[p]
             /\ ~Duplicate(p, s) /\ ~Reordered(p, s) =>
                  /\ new.expected = old.expected + Advance(p, s)
                  /\ new.lost = old.lost + Advance(p, s) - 1
                  /\ new.reordered = old.reordered
                  /\ new.resets = IF Reset(p, s) THEN old.resets + 1 ELSE old.resets
                  /\ LastSeqAfter(p, s) = s
<1>1. stats[p] \in Stats
  BY DEF TypeOK, Stats
<1>2. CASE Duplicate(p, s)
  <2>1. Counted(p, s) = [stats[p] EXCEPT !.duplicates = @ + 1]
    BY <1>2 DEF Counted
  <2> QED BY <1>1, <1>2, <2>1 DEF Stats, LastSeqAfter
<1>3. CASE ~Duplicate(p, s) /\ Reordered(p, s)
  <2>1. Counted(p, s) = [stats[p] EXCEPT !.reordered = @ + 1]
    BY <1>3 DEF Counted
  <2> QED BY <1>1, <1>3, <2>1 DEF Stats, LastSeqAfter
<1>4. CASE ~Duplicate(p, s) /\ ~Reordered(p, s)
  <2> DEFINE n == Advance(p, s)
             r == IF Reset(p, s) THEN stats[p].resets + 1 ELSE stats[p].resets
  <2>1. Counted(p, s) = [stats[p] EXCEPT !.received = @ + 1, !.expected = @ + n,
                                         !.lost = @ + n - 1, !.resets = r]
    BY <1>1, <1>4 DEF Counted, Stats
  <2>2. LastSeqAfter(p, s) = s
    BY <1>4 DEF LastSeqAfter
  <2> HIDE DEF n, r
  <2>3. /\ Counted(p, s).expected = stats[p].expected + n
        /\ Counted(p, s).lost = stats[p].lost + n - 1
        /\ Counted(p, s).reordered = stats[p].reordered
        /\ Counted(p, s).resets = r
    BY <1>1, <2>1 DEF Stats
  <2> QED BY <1>4, <2>2, <2>3 DEF n, r
<1> QED BY <1>2, <1>3, <1>4

LEMMA HonestAtFirst == ASSUME Init PROVE HonestInv
<1>1. ExchangeInv
  BY InitHolds
<1>2. /\ air = {} /\ rows = <<>> /\ heard = [p \in Declared |-> {}]
      /\ first = [p \in Declared |-> 0] /\ sent = [p \in Peers |-> 0]
      /\ stats = [p \in Declared |-> NoStats] /\ record = [p \in Declared |-> NoRecord]
      /\ lastSeq = [p \in Declared |-> NoSeq]
  BY DEF Init, TableInit
<1>3. AirNumbers
  BY <1>2 DEF AirNumbers
<1>4. Histories
  <2>1. rows \in Seq([Declared -> Seqs])
    BY <1>2
  <2>2. \A p \in Peers : MaxSent[p] \in Nat
    BY ExchangeAssumption
  <2> QED BY <1>2, <2>1, <2>2 DEF Histories
<1>5. ASSUME NEW p \in Declared PROVE Began(p) /\ Followed(p) /\ UpToDate(p) /\ RowsInOrder(p)
  <2>1. /\ heard[p] = {} /\ first[p] = 0 /\ stats[p] = NoStats /\ record[p] = NoRecord
        /\ lastSeq[p] = NoSeq
    BY <1>2
  <2>2. Began(p) /\ Followed(p) /\ UpToDate(p)
    BY <2>1 DEF Began, Followed, UpToDate
  <2>3. Len(rows) = 0
    BY <1>2
  <2>4. [i \in 1 .. Len(rows) |-> 0] \in [1 .. Len(rows) -> {0} \cup heard[p]]
    OBVIOUS
  <2>5. Logged(p, [i \in 1 .. Len(rows) |-> 0])
    BY <2>3, <2>4 DEF Logged
  <2> QED BY <2>2, <2>4, <2>5 DEF RowsInOrder
<1> QED BY <1>1, <1>3, <1>4, <1>5 DEF HonestInv

\* A step that leaves what was heard and logged alone, and the numbers.
LEMMA HonestKept ==
  ASSUME HonestInv, UNCHANGED <<stats, lastSeq, rows, first, heard>>,
         restarted \subseteq restarted',
         \A p \in Declared : record'[p].value = record[p].value /\ record'[p].seq = record[p].seq,
         \A p \in Declared : record[p] = NoRecord => record'[p] = NoRecord,
         \A p \in Peers : sent'[p] \in Nat /\ sent[p] <= sent'[p] /\ sent[p] \in Nat,
         \A p \in Declared : p \notin restarted' => \A v \in Nat : Num(p, v)' = Num(p, v)
  PROVE  /\ \A p \in Declared : (Began(p) /\ Followed(p))'
         /\ Short => \A p \in Declared : (UpToDate(p) /\ RowsInOrder(p))'
<1>1. \A p \in Declared : p \in Peers /\ heard[p] \subseteq Nat
  BY NeighborAssumption DEF HonestInv, Histories
<1>2. ASSUME NEW p \in Declared PROVE Began(p)'
  <2>1. Began(p) /\ heard'[p] = heard[p] /\ 1 .. sent[p] \subseteq 1 .. sent'[p]
    BY <1>1 DEF HonestInv
  <2> QED BY <2>1 DEF Began
<1>3. ASSUME NEW p \in Declared PROVE Followed(p)'
  <2> SUFFICES ASSUME p \notin restarted' PROVE Followed(p)'
    BY DEF Followed
  <2>1. Followed(p) /\ p \notin restarted
    BY DEF HonestInv
  <2>2. \A N \in heard[p] : Num(p, N)' = Num(p, N)
    BY <1>1
  <2>3. \A N : Missing(p, N)' = Missing(p, N) /\ Top(p, N)' = Top(p, N)
    BY DEF Missing, Top
  <2> QED BY <2>1, <2>2, <2>3 DEF Followed
<1>4. ASSUME Short, NEW p \in Declared PROVE UpToDate(p)'
  <2> SUFFICES ASSUME p \notin restarted' PROVE UpToDate(p)'
    BY DEF UpToDate
  <2>1. UpToDate(p) /\ p \notin restarted
    BY <1>4 DEF HonestInv
  <2>2. \A N \in heard[p] : Num(p, N)' = Num(p, N) /\ Top(p, N)' = Top(p, N)
    BY <1>1 DEF Top
  <2> QED BY <2>1, <2>2 DEF UpToDate, Counter
<1>5. ASSUME Short, NEW p \in Declared PROVE RowsInOrder(p)'
  <2> SUFFICES ASSUME p \notin restarted', Counter(p) = 0 PROVE RowsInOrder(p)'
    BY DEF RowsInOrder, Counter
  <2>1. PICK val \in [1 .. Len(rows) -> {0} \cup heard[p]] : Logged(p, val)
    BY <1>5 DEF HonestInv, RowsInOrder
  <2>2. \A i \in 1 .. Len(rows) : val[i] \in Nat
    BY <1>1
  <2>3. \A i \in 1 .. Len(rows) : Num(p, val[i])' = Num(p, val[i])
    BY <2>2
  <2>4. Logged(p, val)'
    BY <2>1, <2>3 DEF Logged
  <2> QED BY <2>1, <2>4 DEF RowsInOrder
<1> QED BY <1>2, <1>3, <1>4, <1>5

LEMMA PublishHonest ==
  ASSUME HonestInv, NEW p \in Peers, PublishStep(p)
  PROVE  HonestInv'
<1>1. ExchangeInv' /\ TypeOK
  BY PublishKeeps DEF HonestInv, ExchangeInv
<1>2. UNCHANGED <<stats, lastSeq, record, rows, first, heard, restarted>>
  BY DEF PublishStep, tableVars
<1>3. /\ sent \in [Peers -> Nat] /\ sent' = [sent EXCEPT ![p] = sent[p] + 1]
      /\ sent[p] < MaxSent[p] /\ MaxSent[p] \in Nat
  BY <1>1, ExchangeAssumption DEF TypeOK, PublishStep
<1>4. \A q \in Peers : sent[q] \in Nat /\ sent'[q] \in Nat /\ sent[q] <= sent'[q]
  BY <1>3
<1>5. \A q \in Peers : \A v \in Nat : Num(q, v)' = Num(q, v)
  <2>1. TAKE q \in Peers
  <2>2. TAKE v \in Nat
  <2> QED BY <1>1, NumKept
<1>6. /\ \A q \in Declared : (Began(q) /\ Followed(q))'
      /\ Short => \A q \in Declared : (UpToDate(q) /\ RowsInOrder(q))'
  <2>1. \A q \in Declared : q \in Peers
    BY NeighborAssumption
  <2> QED BY <1>2, <1>4, <1>5, <2>1, HonestKept
<1>7. AirNumbers'
  <2> SUFFICES ASSUME NEW pkt \in air'
               PROVE  /\ pkt.value \in 1 .. sent'[pkt.from]
                      /\ pkt.from \notin restarted' => pkt.seq = Num(pkt.from, pkt.value)'
    BY DEF AirNumbers
  <2>1. CASE pkt \in air
    <3>1. pkt.from \in Peers /\ pkt.value \in Nat
      BY <1>1, <2>1 DEF TypeOK, Packets
    <3> QED BY <1>2, <1>4, <1>5, <2>1, <3>1 DEF HonestInv, AirNumbers
  <2>2. CASE pkt \notin air
    <3>1. pkt = [from |-> p, seq |-> seq'[p], value |-> sent'[p], enabled |-> Enabled[p]]
      BY <2>2 DEF PublishStep
    <3>2. sent'[p] \in Nat /\ sent'[p] >= 1 /\ seq'[p] \in 0 .. SeqModulus - 1
      BY <1>1, <1>3 DEF ExchangeInv, TypeOK, Seqs
    <3>3. ((seq'[p] - sent'[p]) + sent'[p]) % SeqModulus = seq'[p]
      <4> DEFINE a == seq'[p]  b == sent'[p]
      <4>1. a \in Int /\ 0 <= a /\ a < SeqModulus /\ b \in Nat
        BY <3>2, ModulusType
      <4> HIDE DEF a, b
      <4>2. (a - b) + b = a /\ a % SeqModulus = a
        BY <4>1, OnTheCircle, ModulusType
      <4> QED BY <4>2 DEF a, b
    <3> QED BY <3>1, <3>2, <3>3 DEF Num
  <2> QED BY <2>1, <2>2
<1>8. Histories'
  BY <1>2, <1>3 DEF HonestInv, Histories
<1> QED BY <1>1, <1>6, <1>7, <1>8 DEF HonestInv, Short

LEMMA RestartHonest ==
  ASSUME HonestInv, NEW p \in Declared, Restart(p)
  PROVE  HonestInv'
<1>1. ExchangeInv' /\ TypeOK
  BY RestartKeeps DEF HonestInv, ExchangeInv
<1>2. /\ UNCHANGED <<stats, lastSeq, record, rows, first, heard, sent, air>>
      /\ restarted' = restarted \cup {p} /\ seq' = [seq EXCEPT ![p] = 0]
  BY DEF Restart, tableVars
<1>3. \A q \in Peers : sent[q] \in Nat
  BY <1>1 DEF TypeOK
<1>4. \A q \in Peers : q \notin restarted' => \A v : Num(q, v)' = Num(q, v)
  BY <1>1, <1>2 DEF TypeOK, Num
<1>5. /\ \A q \in Declared : (Began(q) /\ Followed(q))'
      /\ Short => \A q \in Declared : (UpToDate(q) /\ RowsInOrder(q))'
  <2>1. \A q \in Declared : q \in Peers
    BY NeighborAssumption
  <2> QED BY <1>2, <1>3, <1>4, <2>1, HonestKept
<1>6. AirNumbers'
  <2>1. \A pkt \in air : pkt.from \in Peers
    BY <1>1 DEF TypeOK, Packets
  <2> QED BY <1>2, <1>4, <2>1 DEF HonestInv, AirNumbers
<1>7. Histories'
  BY <1>2 DEF HonestInv, Histories
<1> QED BY <1>1, <1>5, <1>6, <1>7 DEF HonestInv, Short

LEMMA TickHonest ==
  ASSUME HonestInv, Tick
  PROVE  HonestInv'
<1>1. ExchangeInv' /\ TypeOK
  BY TickKeeps DEF HonestInv, ExchangeInv
<1>2. UNCHANGED <<stats, lastSeq, rows, first, heard, seq, sent, restarted, air>>
  BY DEF Tick, senders
<1>3. \A p \in Declared : /\ record'[p].value = record[p].value /\ record'[p].seq = record[p].seq
                          /\ record[p] = NoRecord => record'[p] = NoRecord
  <2>1. TAKE p \in Declared
  <2>2. record[p] \in Records
    BY <1>1 DEF TypeOK, Records
  <2>3. record'[p] = IF Heard(p) THEN Older(record[p]) ELSE record[p]
    BY DEF Tick, Age
  <2>4. CASE ~Heard(p)
    BY <2>3, <2>4
  <2>5. CASE Heard(p)
    <3>1. record[p] # NoRecord
      BY <2>5 DEF Heard, NoRecord
    <3> QED BY <2>2, <2>3, <2>5, <3>1 DEF Older, Records
  <2> QED BY <2>4, <2>5
<1>4. /\ \A q \in Declared : (Began(q) /\ Followed(q))'
      /\ Short => \A q \in Declared : (UpToDate(q) /\ RowsInOrder(q))'
  <2>1. \A q \in Peers : sent[q] \in Nat /\ sent'[q] \in Nat /\ sent[q] <= sent'[q]
    BY <1>1, <1>2 DEF TypeOK
  <2>2. \A q \in Declared : \A v \in Nat : Num(q, v)' = Num(q, v)
    BY <1>2 DEF Num
  <2> QED BY <1>2, <1>3, <2>1, <2>2, HonestKept
<1>5. AirNumbers' /\ Histories'
  BY <1>2 DEF HonestInv, AirNumbers, Histories, Num
<1> QED BY <1>1, <1>4, <1>5 DEF HonestInv, Short

\* A row more holds what the record says.
LEMMA ControlStepHonest ==
  ASSUME HonestInv, ControlStep
  PROVE  HonestInv'
<1>1. ExchangeInv' /\ TypeOK
  BY ControlStepKeeps DEF HonestInv, ExchangeInv
<1>2. UNCHANGED <<stats, lastSeq, record, first, heard, seq, sent, restarted, air>>
  BY DEF ControlStep, senders
<1> DEFINE row == [p \in Declared |-> record[p].seq]  n == Len(rows)
<1>3. rows' = Append(rows, row) /\ rows \in Seq([Declared -> Seqs]) /\ row \in [Declared -> Seqs]
  BY <1>1 DEF ControlStep, TypeOK, HonestInv, Histories
<1>4. /\ rows' \in Seq([Declared -> Seqs]) /\ n \in Nat /\ Len(rows') = n + 1
      /\ \A i \in 1 .. n : rows'[i] = rows[i]
      /\ rows'[n + 1] = row
  <2> HIDE DEF row
  <2> QED BY <1>3
<1>5. \A p \in Declared : row[p] = record[p].seq
  OBVIOUS
<1> HIDE DEF row, n
<1>6. AirNumbers' /\ Histories'
  BY <1>2, <1>4 DEF HonestInv, AirNumbers, Histories, Num
<1>7. ASSUME NEW p \in Declared PROVE Began(p)' /\ Followed(p)'
  BY <1>2 DEF HonestInv, Began, Followed, Num, Top, Missing
<1>8. ASSUME Short, NEW p \in Declared PROVE UpToDate(p)'
  BY <1>2, <1>8 DEF HonestInv, UpToDate, Num, Top, Counter
<1>9. ASSUME Short, NEW p \in Declared PROVE RowsInOrder(p)'
  <2> SUFFICES ASSUME p \notin restarted, Counter(p) = 0
               PROVE  \E val \in [1 .. Len(rows') -> {0} \cup heard[p]] : Logged(p, val)'
    BY <1>2 DEF RowsInOrder, Counter
  <2>1. PICK val \in [1 .. n -> {0} \cup heard[p]] : Logged(p, val)
    BY <1>9 DEF HonestInv, RowsInOrder, n
  <2>2. Began(p) /\ UpToDate(p) /\ sent[p] \in Nat
    BY <1>1, <1>9, NeighborAssumption DEF HonestInv, TypeOK
  <2>3. PICK last \in {0} \cup heard[p] :
          /\ row[p] = IF last = 0 THEN 0 ELSE Num(p, last)
          /\ \A w \in {0} \cup heard[p] : w <= last
    <3>1. CASE heard[p] = {}
      <4>1. record[p].seq = 0
        BY <2>2, <3>1 DEF Began, NoRecord
      <4> QED BY <1>5, <3>1, <4>1
    <3>2. CASE heard[p] # {}
      <4>1. PICK N \in heard[p] : Top(p, N)
        BY <1>1, <2>2, <3>2, TopExists
      <4>2. record[p].seq = Num(p, N)
        BY <2>2, <4>1 DEF UpToDate
      <4>3. N \in 1 .. sent[p]
        BY <2>2 DEF Began
      <4>4. N # 0 /\ 0 <= N
        BY <2>2, <4>3
      <4> QED BY <1>5, <4>1, <4>2, <4>4 DEF Top
    <3> QED BY <3>1, <3>2
  <2> DEFINE new == [i \in 1 .. n + 1 |-> IF i = n + 1 THEN last ELSE val[i]]
  <2>4. \A i \in 1 .. n : val[i] \in {0} \cup heard[p] /\ i \in 1 .. n + 1 /\ i # n + 1
    BY <1>4
  <2>5. new \in [1 .. n + 1 -> {0} \cup heard[p]]
    BY <1>4, <2>1
  <2>6. new[n + 1] = last /\ \A i \in 1 .. n : new[i] = val[i]
    BY <1>4
  <2> HIDE DEF new
  <2>7. \A i, j \in 1 .. n + 1 : i <= j => new[i] <= new[j]
    <3>1. TAKE i, j \in 1 .. n + 1
    <3>2. HAVE i <= j
    <3>3. CASE j = n + 1
      <4>1. new[i] \in {0} \cup heard[p]
        BY <2>5
      <4> QED BY <2>3, <2>6, <3>3, <4>1
    <3>4. CASE j \in 1 .. n
      <4>1. i \in 1 .. n
        BY <1>4, <3>2, <3>4
      <4> QED BY <2>1, <2>6, <3>2, <3>4, <4>1 DEF Logged, n
    <3> QED BY <1>4, <3>3, <3>4
  <2>8. \A i \in 1 .. n + 1 : rows'[i][p] = IF new[i] = 0 THEN 0 ELSE Num(p, new[i])
    <3>1. TAKE i \in 1 .. n + 1
    <3>2. CASE i = n + 1
      BY <1>4, <2>3, <2>6, <3>2
    <3>3. CASE i \in 1 .. n
      BY <1>4, <2>1, <2>6, <3>3 DEF Logged, n
    <3> QED BY <1>4, <3>2, <3>3
  <2>9. \A v : Num(p, v)' = Num(p, v)
    BY <1>2 DEF Num
  <2>10. PICK f \in [1 .. n + 1 -> {0} \cup heard[p]] :
           /\ \A i, j \in 1 .. n + 1 : i <= j => f[i] <= f[j]
           /\ \A i \in 1 .. n + 1 : rows'[i][p] = IF f[i] = 0 THEN 0 ELSE Num(p, f[i])
    BY <2>5, <2>7, <2>8
  <2>11. Logged(p, f)'
    BY <1>2, <1>4, <2>9, <2>10 DEF Logged
  <2> QED BY <1>4, <2>10, <2>11
<1> QED BY <1>1, <1>6, <1>7, <1>8, <1>9 DEF HonestInv, Short

\* What hearing one packet of a neighbour changes.
Hears(p, v, s) ==
  /\ heard'[p] = heard[p] \cup {v}
  /\ first'[p] = IF first[p] = 0 THEN v ELSE first[p]
  /\ stats'[p] = Counted(p, s) /\ lastSeq'[p] = LastSeqAfter(p, s)
  /\ record'[p].value = v /\ record'[p].seq = s

LEMMA FollowedHears ==
  ASSUME TypeOK, Histories, NEW p \in Declared, Began(p), Followed(p), p \notin restarted,
         NEW v \in 1 .. sent[p], Hears(p, v, Num(p, v)),
         \A w, x \in heard'[p] : w - x < Window,
         NEW N \in heard'[p], \A w \in heard'[p] : w <= N
  PROVE  /\ lastSeq'[p] = Num(p, N) /\ stats'[p].resets = 0
         /\ stats'[p].expected = (N - first'[p]) + 1
         /\ stats'[p].lost >= Cardinality((first'[p] .. N) \ heard'[p])
         /\ stats'[p].reordered = 0 =>
              stats'[p].lost = Cardinality((first'[p] .. N) \ heard'[p])
<1> DEFINE s == Num(p, v)
<1>1. p \in Peers /\ sent[p] \in Nat /\ stats[p] \in Stats
  BY NeighborAssumption DEF TypeOK, Stats
<1>2. s \in Seqs /\ v \in Nat /\ v > 0
  BY <1>1, NumType
<1>3. /\ stats[p].expected \in Nat /\ stats[p].lost \in Nat
      /\ stats[p].reordered \in Nat /\ stats[p].resets \in Nat
  BY <1>1 DEF Stats
<1>4. SeqModulus \in Nat /\ Window \in Nat /\ Window > 0 /\ SeqModulus > 2 * Window
  BY NeighborAssumption
<1>5. v \in heard'[p] /\ heard[p] \subseteq heard'[p] /\ heard'[p] = heard[p] \cup {v}
  BY DEF Hears
<1>6. CASE heard[p] = {}
  <2>1. lastSeq[p] = NoSeq /\ first[p] = 0 /\ stats[p] = NoStats
    BY <1>6 DEF Began
  <2>2. First(p) /\ ~Duplicate(p, s) /\ ~Reordered(p, s) /\ ~Reset(p, s) /\ Advance(p, s) = 1
    BY <2>1 DEF First, Duplicate, Reordered, Reset, Advance
  <2>3. N = v /\ first'[p] = v /\ lastSeq'[p] = s
    BY <1>2, <1>5, <1>6, <2>1, <2>2, Verdicts DEF Hears
  <2>4. stats'[p].expected = 1 /\ stats'[p].lost = 0 /\ stats'[p].resets = 0
    BY <1>2, <2>1, <2>2, Verdicts DEF Hears, NoStats
  <2>5. (first'[p] .. N) \ heard'[p] = {}
    BY <1>2, <1>5, <2>3
  <2>6. (N - first'[p]) + 1 = 1
    BY <1>2, <2>3
  <2>7. Cardinality((first'[p] .. N) \ heard'[p]) = 0
    BY <2>5, FS_EmptySet
  <2>8. lastSeq'[p] = Num(p, N)
    BY <2>3
  <2> QED BY <2>4, <2>6, <2>7, <2>8
<1>7. CASE heard[p] # {}
  <2>1. PICK T \in heard[p] : Top(p, T)
    BY <1>7, TopExists
  <2>2. T \in 1 .. sent[p] /\ T \in Nat /\ first[p] \in heard[p] /\ first[p] \in 1 .. sent[p]
    BY <1>1, <1>7 DEF Began
  <2>3. first[p] \in Nat /\ first[p] <= T /\ first'[p] = first[p]
    BY <1>1, <2>1, <2>2 DEF Top, Hears
  <2>4. \A w, x \in heard[p] : w - x < Window
    BY <1>5
  <2>5. /\ lastSeq[p] = Num(p, T) /\ stats[p].resets = 0
        /\ stats[p].expected = (T - first[p]) + 1
        /\ stats[p].lost >= Cardinality(Missing(p, T))
        /\ stats[p].reordered = 0 => stats[p].lost = Cardinality(Missing(p, T))
    BY <2>1, <2>4 DEF Followed
  <2>6. v - T < Window /\ T - v < Window
    BY <1>5
  <2>7. N = T \/ N = v
    <3>1. N \in heard[p] \/ N = v
      BY <1>5
    <3>2. CASE N \in heard[p]
      <4>1. N <= T /\ T <= N
        BY <1>5, <2>1, <3>2 DEF Top
      <4>2. N \in 1 .. sent[p]
        BY <3>2 DEF Began
      <4> QED BY <1>1, <2>2, <4>1, <4>2
    <3> QED BY <3>1, <3>2
  <2>8. IsFiniteSet(Missing(p, T)) /\ Cardinality(Missing(p, T)) \in Nat
    <3>1. IsFiniteSet(first[p] .. T)
      BY <2>2, <2>3, FS_Interval
    <3>2. IsFiniteSet(Missing(p, T))
      BY <3>1, FS_Difference DEF Missing
    <3> QED BY <3>2, FS_CardinalityType
  <2>9. CASE v = T
    <3>1. Duplicate(p, s)
      BY <1>2, <2>2, <2>5, <2>9, GapIs DEF Duplicate
    <3>2. N = T /\ heard'[p] = heard[p]
      BY <1>5, <2>7, <2>9
    <3>3. /\ stats'[p].expected = stats[p].expected /\ stats'[p].lost = stats[p].lost
          /\ stats'[p].reordered = stats[p].reordered /\ stats'[p].resets = stats[p].resets
          /\ lastSeq'[p] = lastSeq[p]
      BY <1>2, <3>1, Verdicts DEF Hears
    <3> QED BY <2>3, <2>5, <3>2, <3>3 DEF Missing
  <2>10. CASE v < T
    <3>1. T - v < SeqModulus /\ v \in Int /\ T \in Int
      BY <1>2, <1>4, <2>2, <2>6
    <3>2. ~First(p) /\ Gap(p, s) = SeqModulus - (T - v)
      BY <2>5, <2>10, <3>1, GapIs
    <3>3. ~Duplicate(p, s) /\ Reordered(p, s)
      BY <1>2, <1>4, <2>2, <2>6, <2>10, <3>2 DEF Duplicate, Reordered
    <3>4. /\ stats'[p].expected = stats[p].expected /\ stats'[p].lost = stats[p].lost
          /\ stats'[p].reordered = stats[p].reordered + 1 /\ stats'[p].resets = stats[p].resets
          /\ lastSeq'[p] = lastSeq[p]
      BY <1>2, <3>3, Verdicts DEF Hears
    <3>5. N = T
      BY <1>2, <1>5, <2>1, <2>2, <2>7, <2>10
    <3>6. Cardinality((first'[p] .. N) \ heard'[p]) <= Cardinality(Missing(p, T))
      <4>1. (first'[p] .. N) \ heard'[p] \in SUBSET Missing(p, T)
        BY <1>5, <2>3, <3>5 DEF Missing
      <4> QED BY <2>8, <4>1, FS_Subset
    <3>7. Cardinality((first'[p] .. N) \ heard'[p]) \in Nat
      <4>1. (first'[p] .. N) \ heard'[p] \in SUBSET Missing(p, T)
        BY <1>5, <2>3, <3>5 DEF Missing
      <4>2. IsFiniteSet((first'[p] .. N) \ heard'[p])
        BY <2>8, <4>1, FS_Subset
      <4> QED BY <4>2, FS_CardinalityType
    <3>8. stats'[p].lost >= Cardinality((first'[p] .. N) \ heard'[p])
      BY <1>3, <2>5, <2>8, <3>4, <3>6, <3>7
    <3>9. stats'[p].reordered # 0
      BY <1>3, <3>4
    <3> QED BY <2>3, <2>5, <3>4, <3>5, <3>8, <3>9
  <2>11. CASE v > T
    <3>1. v - T < SeqModulus /\ v \in Int /\ T \in Int
      BY <1>2, <1>4, <2>2, <2>6
    <3>2. ~First(p) /\ Gap(p, s) = v - T
      BY <2>5, <2>11, <3>1, GapIs
    <3>3. ~Duplicate(p, s) /\ ~Reordered(p, s) /\ ~Reset(p, s) /\ Advance(p, s) = v - T
      BY <1>2, <1>4, <2>2, <2>6, <2>11, <3>2 DEF Duplicate, Reordered, Reset, Advance
    <3>4. /\ stats'[p].expected = stats[p].expected + (v - T)
          /\ stats'[p].lost = stats[p].lost + (v - T) - 1
          /\ stats'[p].reordered = stats[p].reordered /\ stats'[p].resets = stats[p].resets
          /\ lastSeq'[p] = s
      BY <1>2, <3>3, Verdicts DEF Hears
    <3>5. N = v
      BY <1>2, <1>5, <2>2, <2>7, <2>11
    <3> DEFINE between == T + 1 .. v - 1  old == Missing(p, T)
               new == (first'[p] .. N) \ heard'[p]
    <3>6. \A w \in heard[p] : w <= T /\ w \in Nat
      BY <1>1, <2>1 DEF Top, Began
    <3>7. new = old \cup between /\ old \cap between = {}
      BY <1>2, <1>5, <2>2, <2>3, <2>11, <3>5, <3>6 DEF Missing
    <3>8. IsFiniteSet(between) /\ Cardinality(between) = (v - T) - 1
      <4> DEFINE a == T + 1  b == v - 1
      <4>1. a \in Int /\ b \in Int /\ (IF a > b THEN 0 ELSE b - a + 1) = (v - T) - 1
        BY <1>2, <2>2, <2>11
      <4> HIDE DEF a, b
      <4>2. IsFiniteSet(a .. b) /\ Cardinality(a .. b) = IF a > b THEN 0 ELSE b - a + 1
        BY <4>1, FS_Interval
      <4> QED BY <4>1, <4>2 DEF a, b
    <3>9. Cardinality(new) = Cardinality(old) + ((v - T) - 1)
      <4> HIDE DEF old, between, new
      <4>1. IsFiniteSet(old) /\ Cardinality(old) \in Nat
        BY <2>8 DEF old
      <4>2. Cardinality(old \cup between)
              = Cardinality(old) + Cardinality(between) - Cardinality(old \cap between)
        BY <3>8, <4>1, FS_Union
      <4>3. Cardinality(old \cap between) = 0
        BY <3>7, FS_EmptySet
      <4>4. (v - T) - 1 \in Int
        BY <1>2, <2>2
      <4> QED BY <3>7, <3>8, <4>1, <4>2, <4>3, <4>4
    <3> HIDE DEF new, old, between
    <3>10. stats[p].lost >= Cardinality(old) /\ Cardinality(old) \in Nat
           /\ (stats[p].reordered = 0 => stats[p].lost = Cardinality(old))
      BY <2>5, <2>8 DEF old
    <3>11. /\ stats'[p].lost >= Cardinality(new)
           /\ stats'[p].reordered = 0 => stats'[p].lost = Cardinality(new)
      BY <1>2, <1>3, <2>2, <3>4, <3>9, <3>10
    <3>12. stats'[p].expected = (N - first'[p]) + 1
      BY <1>2, <2>2, <2>3, <2>5, <3>4, <3>5
    <3> QED BY <2>5, <3>4, <3>5, <3>11, <3>12 DEF new
  <2> QED BY <1>2, <2>2, <2>9, <2>10, <2>11
<1> QED BY <1>6, <1>7

LEMMA UpToDateHears ==
  ASSUME TypeOK, Histories, Short, NEW p \in Declared, Began(p), UpToDate(p), p \notin restarted,
         NEW v \in 1 .. sent[p], Hears(p, v, Num(p, v)),
         stats'[p].reordered = 0, stats'[p].resets = 0,
         NEW N \in heard'[p], \A w \in heard'[p] : w <= N
  PROVE  /\ Counter(p) = 0
         /\ lastSeq'[p] = Num(p, N) /\ v = N
<1> DEFINE s == Num(p, v)
<1>1. p \in Peers /\ sent[p] \in Nat /\ stats[p] \in Stats /\ sent[p] <= MaxSent[p]
  BY NeighborAssumption DEF TypeOK, Stats, Histories
<1>2. s \in Seqs /\ v \in Nat /\ v > 0 /\ v <= sent[p]
  BY <1>1, NumType
<1>3. stats[p].reordered \in Nat /\ stats[p].resets \in Nat
  BY <1>1 DEF Stats
<1>4. /\ SeqModulus \in Nat /\ Window \in Nat /\ Window > 0 /\ SeqModulus > 2 * Window
      /\ sent[p] + Window <= SeqModulus
  BY <1>1, NeighborAssumption, ExchangeAssumption DEF Short
<1>5. v \in heard'[p] /\ heard[p] \subseteq heard'[p] /\ heard'[p] = heard[p] \cup {v}
  BY DEF Hears
<1>6. stats'[p] = Counted(p, s) /\ lastSeq'[p] = LastSeqAfter(p, s)
  BY DEF Hears
<1>7. ~Reordered(p, s) \/ Duplicate(p, s)
  BY <1>2, <1>3, <1>6, Verdicts
<1>8. ~Reset(p, s) \/ Duplicate(p, s)
  BY <1>2, <1>3, <1>6, <1>7, Verdicts
<1>9. stats[p].reordered = 0 /\ stats[p].resets = 0
  BY <1>2, <1>3, <1>6, <1>7, <1>8, Verdicts
<1>10. Counter(p) = 0
  BY <1>9 DEF Counter
<1>11. CASE heard[p] = {}
  <2>1. lastSeq[p] = NoSeq
    BY <1>11 DEF Began
  <2>2. ~Duplicate(p, s) /\ ~Reordered(p, s)
    BY <2>1 DEF First, Duplicate, Reordered
  <2>3. N = v /\ lastSeq'[p] = s
    BY <1>2, <1>5, <1>6, <1>11, <2>2, Verdicts
  <2> QED BY <1>10, <2>3
<1>12. CASE heard[p] # {}
  <2>1. PICK T \in heard[p] : Top(p, T)
    BY <1>12, TopExists
  <2>2. T \in 1 .. sent[p] /\ T \in Nat
    BY <1>1 DEF Began
  <2>3. lastSeq[p] = Num(p, T)
    BY <1>10, <2>1 DEF UpToDate
  <2>4. N = T \/ N = v
    <3>1. N \in heard[p] \/ N = v
      BY <1>5
    <3>2. CASE N \in heard[p]
      <4>1. N <= T /\ T <= N
        BY <1>5, <2>1, <3>2 DEF Top
      <4>2. N \in 1 .. sent[p]
        BY <3>2 DEF Began
      <4> QED BY <1>1, <2>2, <4>1, <4>2
    <3> QED BY <3>1, <3>2
  <2>5. v \in Int /\ T \in Int /\ v - T < SeqModulus - Window /\ T - v < SeqModulus - Window
    BY <1>1, <1>2, <1>4, <2>2
  <2>6. CASE v = T
    <3>1. Duplicate(p, s)
      BY <1>2, <2>3, <2>5, <2>6, GapIs DEF Duplicate
    <3>2. lastSeq'[p] = lastSeq[p]
      BY <1>2, <1>6, <3>1, Verdicts
    <3> QED BY <1>10, <2>3, <2>4, <2>6, <3>2
  <2>7. CASE v < T
    <3>1. T - v < SeqModulus
      BY <1>4, <2>5
    <3>2. ~First(p) /\ Gap(p, s) = SeqModulus - (T - v)
      BY <2>3, <2>5, <2>7, <3>1, GapIs
    <3>3. Gap(p, s) > Window
      BY <1>4, <2>5, <3>2
    <3>4. ~Duplicate(p, s)
      BY <1>4, <3>3 DEF Duplicate
    <3>5. Reordered(p, s) \/ Reset(p, s)
      BY <3>2, <3>3 DEF Reset
    <3> QED BY <1>7, <1>8, <3>4, <3>5
  <2>8. CASE v > T
    <3>1. v - T < SeqModulus
      BY <1>4, <2>5
    <3>2. ~First(p) /\ Gap(p, s) = v - T
      BY <2>3, <2>5, <2>8, <3>1, GapIs
    <3>3. ~Duplicate(p, s) /\ ~Reordered(p, s)
      BY <1>4, <2>5, <2>8, <3>2 DEF Duplicate, Reordered
    <3>4. lastSeq'[p] = s
      BY <1>2, <1>6, <3>3, Verdicts
    <3>5. N = v
      BY <1>2, <1>5, <2>2, <2>4, <2>8
    <3> QED BY <1>10, <3>4, <3>5
  <2> QED BY <1>2, <2>2, <2>6, <2>7, <2>8
<1> QED BY <1>11, <1>12

LEMMA ReceiveHonest ==
  ASSUME HonestInv, NEW pkt \in air, Receive(pkt)
  PROVE  HonestInv'
<1> DEFINE p == pkt.from  v == pkt.value
<1>1. ExchangeInv' /\ TypeOK /\ TypeOK'
  BY ReceiveKeeps DEF HonestInv, ExchangeInv
<1>2. UNCHANGED <<seq, sent, restarted, air, rows>> /\ p \in Peers
  BY <1>1 DEF Receive, senders, TypeOK, Packets
<1>3. \A q, w : Num(q, w)' = Num(q, w)
  BY <1>2 DEF Num
<1>4. AirNumbers'
  BY <1>2, <1>3 DEF HonestInv, AirNumbers
<1>5. v \in 1 .. sent[p] /\ (p \notin restarted => pkt.seq = Num(p, v)) /\ v \in Nat
      /\ pkt.seq \in Seqs
  BY <1>1 DEF HonestInv, AirNumbers, TypeOK, Packets
<1>6. CASE p \notin Declared
  <2>1. UNCHANGED <<stats, lastSeq, record, first, heard>>
    BY <1>6 DEF Receive, Observe
  <2>2. Histories'
    BY <1>2, <2>1 DEF HonestInv, Histories
  <2>3. /\ \A q \in Declared : (Began(q) /\ Followed(q))'
        /\ Short => \A q \in Declared : (UpToDate(q) /\ RowsInOrder(q))'
    <3>1. \A q \in Peers : sent[q] \in Nat /\ sent'[q] \in Nat /\ sent[q] <= sent'[q]
      BY <1>1, <1>2 DEF TypeOK
    <3> QED BY <1>2, <1>3, <2>1, <3>1, HonestKept
  <2> QED BY <1>1, <1>4, <2>2, <2>3 DEF HonestInv, Short
<1>7. CASE p \in Declared
  <2> DEFINE r == [value |-> v, seq |-> pkt.seq, age |-> 0, enabled |-> pkt.enabled,
                   updates |-> record[p].updates + 1]
  <2>1. /\ stats' = [stats EXCEPT ![p] = Counted(p, pkt.seq)]
        /\ lastSeq' = [lastSeq EXCEPT ![p] = LastSeqAfter(p, pkt.seq)]
        /\ record' = [record EXCEPT ![p] = r]
        /\ first' = [first EXCEPT ![p] = IF first[p] = 0 THEN v ELSE first[p]]
        /\ heard' = [heard EXCEPT ![p] = heard[p] \cup {v}]
    BY <1>7 DEF Receive, Observe
  <2>2. /\ heard \in [Declared -> SUBSET Nat] /\ first \in [Declared -> Nat]
        /\ DOMAIN stats = Declared /\ DOMAIN lastSeq = Declared /\ DOMAIN record = Declared
    BY <1>1 DEF HonestInv, Histories, TypeOK
  <2>3. Hears(p, v, pkt.seq)
    BY <1>7, <2>1, <2>2 DEF Hears
  <2>4. \A q \in Declared \ {p} : /\ stats'[q] = stats[q] /\ lastSeq'[q] = lastSeq[q]
                                  /\ record'[q] = record[q]
                                  /\ first'[q] = first[q] /\ heard'[q] = heard[q]
    BY <2>1, <2>2
  <2>5. Histories'
    BY <1>2, <1>5, <2>1, <2>2 DEF HonestInv, Histories
  <2> HIDE DEF r
  <2>6. ASSUME NEW q \in Declared \ {p}
        PROVE  (Began(q) /\ Followed(q))' /\ (Short => (UpToDate(q) /\ RowsInOrder(q))')
    <3>1. Began(q)'
      BY <1>2, <2>4 DEF HonestInv, Began
    <3>2. Followed(q)'
      <4>1. Followed(q)
        BY DEF HonestInv
      <4>2. \A N : /\ Num(q, N)' = Num(q, N) /\ Missing(q, N)' = Missing(q, N)
                   /\ Top(q, N)' = Top(q, N)
        BY <1>3, <2>4 DEF Missing, Top
      <4> QED BY <1>2, <2>4, <4>1, <4>2 DEF Followed
    <3>3. Short => UpToDate(q)'
      BY <1>2, <1>3, <2>4 DEF HonestInv, UpToDate, Top, Counter
    <3>4. Short => RowsInOrder(q)'
      BY <1>2, <1>3, <2>4 DEF HonestInv, RowsInOrder, Logged, Counter
    <3> QED BY <3>1, <3>2, <3>3, <3>4
  <2>7. Began(p) /\ Followed(p) /\ (Short => UpToDate(p) /\ RowsInOrder(p)) /\ Histories
    BY <1>7 DEF HonestInv
  <2>8. Began(p)'
    <3>1. lastSeq'[p] # NoSeq
      <4>1. CASE Duplicate(p, pkt.seq) \/ Reordered(p, pkt.seq)
        BY <2>3, <4>1 DEF Hears, LastSeqAfter, Duplicate, Reordered, First
      <4>2. CASE ~(Duplicate(p, pkt.seq) \/ Reordered(p, pkt.seq))
        BY <1>5, <2>3, <4>2, FirstSeqType DEF Hears, LastSeqAfter
      <4> QED BY <4>1, <4>2
    <3>2. first'[p] \in heard'[p]
      <4>1. CASE heard[p] = {}
        BY <2>3, <2>7, <4>1 DEF Hears, Began
      <4>2. CASE heard[p] # {}
        BY <2>3, <2>7, <4>2 DEF Hears, Began
      <4> QED BY <4>1, <4>2
    <3>3. heard'[p] \subseteq 1 .. sent'[p] /\ heard'[p] # {}
      BY <1>2, <1>5, <2>3, <2>7 DEF Hears, Began
    <3> QED BY <3>1, <3>2, <3>3 DEF Began
  <2>9. Followed(p)'
    <3> SUFFICES ASSUME p \notin restarted, \A w, x \in heard'[p] : w - x < Window,
                        NEW N \in heard'[p], \A w \in heard'[p] : w <= N
                 PROVE  /\ lastSeq'[p] = Num(p, N) /\ stats'[p].resets = 0
                        /\ stats'[p].expected = (N - first'[p]) + 1
                        /\ stats'[p].lost >= Cardinality((first'[p] .. N) \ heard'[p])
                        /\ stats'[p].reordered = 0 =>
                             stats'[p].lost = Cardinality((first'[p] .. N) \ heard'[p])
      BY <1>2, <1>3 DEF Followed, Top, Missing
    <3>1. Hears(p, v, Num(p, v))
      BY <1>5, <2>3
    <3> HIDE DEF p, v
    <3> QED BY <1>1, <1>5, <1>7, <2>7, <3>1, FollowedHears
  <2>10. ASSUME Short, p \notin restarted, Counter(p)' = 0
         PROVE  /\ Counter(p) = 0
                /\ \A N \in heard'[p] : (\A w \in heard'[p] : w <= N)
                                          => lastSeq'[p] = Num(p, N) /\ v = N
    <3>1. Hears(p, v, Num(p, v))
      BY <1>5, <2>3, <2>10
    <3>2. stats'[p].reordered = 0 /\ stats'[p].resets = 0
      <4>1. stats'[p].reordered \in Nat /\ stats'[p].resets \in Nat
        BY <1>1, <1>7 DEF TypeOK
      <4> QED BY <2>10, <4>1 DEF Counter
    <3> HIDE DEF p, v
    <3>3. ASSUME NEW N \in heard'[p], \A w \in heard'[p] : w <= N
          PROVE  Counter(p) = 0 /\ lastSeq'[p] = Num(p, N) /\ v = N
      BY <1>1, <1>5, <1>7, <2>7, <2>10, <3>1, <3>2, <3>3, UpToDateHears
    <3>4. \E N \in heard'[p] : \A w \in heard'[p] : w <= N
      <4>1. sent'[p] \in Nat /\ heard'[p] \in SUBSET (1 .. sent'[p]) /\ heard'[p] # {}
        BY <1>1, <1>2, <2>8, <3>1 DEF TypeOK, Began, Hears
      <4> QED BY <4>1, GreatestNumber
    <3> QED BY <3>3, <3>4
  <2>11. Short => UpToDate(p)'
    <3> SUFFICES ASSUME Short, p \notin restarted, Counter(p)' = 0,
                        NEW N \in heard'[p], \A w \in heard'[p] : w <= N
                 PROVE  lastSeq'[p] = Num(p, N) /\ record'[p].value = N /\ record'[p].seq = Num(p, N)
      BY <1>2, <1>3 DEF UpToDate, Top
    <3>1. lastSeq'[p] = Num(p, N) /\ v = N
      BY <2>10
    <3>2. record'[p].value = v /\ record'[p].seq = Num(p, v)
      BY <1>5, <2>3 DEF Hears
    <3> QED BY <3>1, <3>2
  <2>12. Short => RowsInOrder(p)'
    <3> SUFFICES ASSUME Short, p \notin restarted, Counter(p)' = 0
                 PROVE  \E val \in [1 .. Len(rows) -> {0} \cup heard'[p]] : Logged(p, val)'
      BY <1>2 DEF RowsInOrder
    <3>1. PICK val \in [1 .. Len(rows) -> {0} \cup heard[p]] : Logged(p, val)
      BY <2>7, <2>10 DEF RowsInOrder
    <3>2. heard[p] \subseteq heard'[p]
      BY <2>3 DEF Hears
    <3>3. val \in [1 .. Len(rows) -> {0} \cup heard'[p]]
      BY <3>1, <3>2
    <3>4. Logged(p, val)'
      BY <1>2, <1>3, <3>1, <3>3 DEF Logged
    <3> QED BY <3>3, <3>4
  <2> QED BY <1>1, <1>4, <2>5, <2>6, <2>8, <2>9, <2>11, <2>12 DEF HonestInv, Short
<1> QED BY <1>6, <1>7

LEMMA HonestInvariant == Spec => []HonestInv
<1>1. ASSUME HonestInv, [Next]_vars PROVE HonestInv'
  <2>1. CASE \E p \in Peers : PublishStep(p)
    BY <1>1, <2>1, PublishHonest
  <2>2. CASE \E p \in Declared : Restart(p)
    BY <1>1, <2>2, RestartHonest
  <2>3. CASE \E pkt \in air : Receive(pkt)
    BY <1>1, <2>3, ReceiveHonest
  <2>4. CASE ControlStep
    BY <1>1, <2>4, ControlStepHonest
  <2>5. CASE Tick
    BY <1>1, <2>5, TickHonest
  <2>6. CASE UNCHANGED vars
    <3>1. UNCHANGED <<stats, lastSeq, record, rows, first, heard, seq, sent, restarted, air, arrived, ignored>>
      BY <2>6 DEF vars, tableVars, senders
    <3>2. ExchangeInv'
      BY <1>1, <2>6, NextKeeps DEF HonestInv
    <3>3. AirNumbers' /\ Histories'
      BY <1>1, <3>1 DEF HonestInv, AirNumbers, Histories, Num
    <3>4. \A p \in Declared : (Began(p) /\ Followed(p))'
      BY <1>1, <3>1 DEF HonestInv, Began, Followed, Top, Missing, Num
    <3>5. Short => \A p \in Declared : (UpToDate(p) /\ RowsInOrder(p))'
      BY <1>1, <3>1 DEF HonestInv, UpToDate, RowsInOrder, Logged, Counter, Top, Num
    <3> QED BY <3>2, <3>3, <3>4, <3>5 DEF HonestInv, Short
  <2> QED BY <1>1, <2>1, <2>2, <2>3, <2>4, <2>5, <2>6 DEF Next
<1> QED BY <1>1, HonestAtFirst, PTL DEF Spec

-----------------------------------------------------------------------------
(* What the monitor says.                                                  *)

LEMMA Extremes ==
  ASSUME TypeOK, NEW p \in Declared, Began(p), heard[p] # {}
  PROVE  /\ Newest(p) \in heard[p] /\ Top(p, Newest(p))
         /\ Oldest(p) \in heard[p] /\ \A w \in heard[p] : Oldest(p) <= w
         /\ heard[p] \subseteq Nat
<1>1. sent[p] \in Nat /\ heard[p] \subseteq Nat
  BY NeighborAssumption DEF TypeOK, Began
<1>2. \E v \in heard[p] : \A w \in heard[p] : w <= v
  BY TopExists DEF Top
<1>3. \E v \in heard[p] : \A w \in heard[p] : v <= w
  BY <1>1, LeastNumber
<1> QED BY <1>1, <1>2, <1>3 DEF Newest, Oldest, Top

LEMMA LossIsCounted == HonestInv => LossNeverUnderstated
<1> SUFFICES ASSUME HonestInv, NEW p \in Declared, heard[p] # {}, p \notin restarted,
                    Newest(p) - Oldest(p) < Window
             PROVE  /\ stats[p].resets = 0
                    /\ stats[p].expected = Newest(p) - first[p] + 1
                    /\ stats[p].lost >= Cardinality((first[p] .. Newest(p)) \ heard[p])
                    /\ stats[p].reordered = 0 =>
                         stats[p].lost = Cardinality((first[p] .. Newest(p)) \ heard[p])
  BY DEF LossNeverUnderstated
<1>1. TypeOK /\ Began(p) /\ Followed(p)
  BY DEF HonestInv, ExchangeInv
<1>2. /\ Newest(p) \in heard[p] /\ Top(p, Newest(p))
      /\ Oldest(p) \in heard[p] /\ \A w \in heard[p] : Oldest(p) <= w
      /\ heard[p] \subseteq Nat
  BY <1>1, Extremes
<1>3. ASSUME NEW v \in heard[p], NEW w \in heard[p] PROVE v - w < Window
  <2>1. v <= Newest(p) /\ Oldest(p) <= w
    BY <1>2 DEF Top
  <2>2. v \in Nat /\ w \in Nat /\ Newest(p) \in Nat /\ Oldest(p) \in Nat /\ Window \in Nat
    BY <1>2, ModulusType
  <2> QED BY <2>1, <2>2
<1> QED BY <1>1, <1>2, <1>3 DEF Followed, Missing

LEMMA OlderIsCounted == HonestInv /\ Short => GoingBackIsCounted
<1> SUFFICES ASSUME HonestInv, Short, NEW p \in Declared \ restarted, heard[p] # {},
                    record[p].value < Newest(p)
             PROVE  stats[p].reordered + stats[p].resets > 0
  BY DEF GoingBackIsCounted
<1>1. TypeOK /\ Began(p) /\ UpToDate(p)
  BY DEF HonestInv, ExchangeInv
<1>2. Newest(p) \in heard[p] /\ Top(p, Newest(p)) /\ heard[p] \subseteq Nat
  BY <1>1, Extremes
<1>3. stats[p].reordered \in Nat /\ stats[p].resets \in Nat
  BY <1>1 DEF TypeOK
<1>4. Counter(p) # 0
  BY <1>1, <1>2 DEF UpToDate
<1> QED BY <1>3, <1>4 DEF Counter

-----------------------------------------------------------------------------
(* What the rows say.                                                      *)

\* The rows that heard something, of the first ones on.
LEMMA UptoExists ==
  ASSUME NEW n \in Nat, NEW r \in [1 .. n -> Nat]
  PROVE  \E g \in [0 .. n -> Seq(Nat)] :
           /\ g[0] = << >>
           /\ \A i \in 1 .. n : g[i] = IF r[i] = 0 THEN g[i - 1] ELSE Append(g[i - 1], r[i])
<1> DEFINE Upto(g, m) ==
             /\ g[0] = << >>
             /\ \A i \in 1 .. m : g[i] = IF r[i] = 0 THEN g[i - 1] ELSE Append(g[i - 1], r[i])
           S == {m \in Nat : m <= n => \E g \in [0 .. m -> Seq(Nat)] : Upto(g, m)}
<1>1. 0 \in S
  <2>1. [i \in 0 .. 0 |-> << >>] \in [0 .. 0 -> Seq(Nat)] /\ Upto([i \in 0 .. 0 |-> << >>], 0)
    OBVIOUS
  <2> QED BY <2>1
<1>2. ASSUME NEW m \in Nat, m \in S PROVE m + 1 \in S
  <2> HIDE DEF Upto
  <2> SUFFICES ASSUME m + 1 <= n PROVE \E g \in [0 .. m + 1 -> Seq(Nat)] : Upto(g, m + 1)
    OBVIOUS
  <2>1. PICK g \in [0 .. m -> Seq(Nat)] : Upto(g, m)
    BY <1>2
  <2> USE DEF Upto
  <2> DEFINE last == IF r[m + 1] = 0 THEN g[m] ELSE Append(g[m], r[m + 1])
             h == [i \in 0 .. m + 1 |-> IF i = m + 1 THEN last ELSE g[i]]
  <2>2. last \in Seq(Nat)
    <3>1. g[m] \in Seq(Nat) /\ r[m + 1] \in Nat
      BY <2>1
    <3> QED BY <3>1
  <2>3. last = IF r[m + 1] = 0 THEN g[m] ELSE Append(g[m], r[m + 1])
    OBVIOUS
  <2> HIDE DEF last
  <2>4. h \in [0 .. m + 1 -> Seq(Nat)]
    BY <2>1, <2>2
  <2>5. h[m + 1] = last /\ \A i \in 0 .. m : h[i] = g[i]
    OBVIOUS
  <2> HIDE DEF h
  <2>6. Upto(h, m + 1)
    <3>1. h[0] = << >>
      BY <2>1, <2>5
    <3>2. ASSUME NEW i \in 1 .. m + 1
          PROVE  h[i] = IF r[i] = 0 THEN h[i - 1] ELSE Append(h[i - 1], r[i])
      <4>1. CASE i = m + 1
        <5>1. m \in 0 .. m /\ i - 1 = m
          BY <4>1
        <5> QED BY <2>3, <2>5, <4>1, <5>1
      <4>2. CASE i \in 1 .. m
        <5>1. i \in 0 .. m /\ i - 1 \in 0 .. m
          BY <4>2
        <5> QED BY <2>1, <2>5, <4>2, <5>1
      <4> QED BY <4>1, <4>2
    <3> QED BY <3>1, <3>2
  <2> QED BY <2>4, <2>6
<1>3. Nat \subseteq S
  <2> HIDE DEF S
  <2> QED BY <1>1, <1>2, SetInduction
<1>4. \E g \in [0 .. n -> Seq(Nat)] : Upto(g, n)
  <2>1. n \in S
    BY <1>3
  <2> HIDE DEF Upto
  <2> QED BY <2>1
<1> QED BY <1>4, Zenon

\* The column of a neighbour keeps the rows that heard of it, in order.
LEMMA ColumnFacts ==
  ASSUME NEW n \in Nat, n = Len(rows), NEW p, \A i \in 1 .. n : rows[i][p] \in Nat
  PROVE  /\ Column(p) \in Seq(Nat)
         /\ \E h \in [1 .. Len(Column(p)) -> 1 .. n] :
              /\ \A k \in 1 .. Len(Column(p)) : Column(p)[k] = rows[h[k]][p] /\ rows[h[k]][p] # 0
              /\ \A k, m \in 1 .. Len(Column(p)) : k <= m => h[k] <= h[m]
<1> DEFINE upto[i \in 0 .. n] ==
             IF i = 0 THEN << >>
             ELSE IF rows[i][p] = 0 THEN upto[i - 1] ELSE Append(upto[i - 1], rows[i][p])
<1>1. Column(p) = upto[n]
  BY DEF Column
<1>2. upto = [i \in 0 .. n |->
                IF i = 0 THEN << >>
                ELSE IF rows[i][p] = 0 THEN upto[i - 1] ELSE Append(upto[i - 1], rows[i][p])]
  <2>0. PICK r \in [1 .. n -> Nat] : \A i \in 1 .. n : r[i] = rows[i][p]
    <3>1. [i \in 1 .. n |-> rows[i][p]] \in [1 .. n -> Nat]
      OBVIOUS
    <3> QED BY <3>1
  <2>1. PICK g \in [0 .. n -> Seq(Nat)] :
          /\ g[0] = << >>
          /\ \A i \in 1 .. n : g[i] = IF r[i] = 0 THEN g[i - 1] ELSE Append(g[i - 1], r[i])
    BY <2>0, UptoExists
  <2>2. ASSUME NEW i \in 1 .. n
        PROVE  g[i] = IF rows[i][p] = 0 THEN g[i - 1] ELSE Append(g[i - 1], rows[i][p])
    BY <2>0, <2>1
  <2>4. g = [i \in 0 .. n |->
               IF i = 0 THEN << >>
               ELSE IF rows[i][p] = 0 THEN g[i - 1] ELSE Append(g[i - 1], rows[i][p])]
    <3>1. \A i \in 0 .. n : i = 0 \/ i \in 1 .. n
      OBVIOUS
    <3> QED BY <2>1, <2>2, <3>1
  <2> QED BY <2>4, Zenon DEF upto
<1> HIDE DEF upto
<1> DEFINE Kept(s, m) ==
             /\ s \in Seq(Nat)
             /\ \E h \in [1 .. Len(s) -> 1 .. m] :
                  /\ \A k \in 1 .. Len(s) : s[k] = rows[h[k]][p] /\ rows[h[k]][p] # 0
                  /\ \A k, j \in 1 .. Len(s) : k <= j => h[k] <= h[j]
           T == {m \in Nat : m <= n => Kept(upto[m], m)}
<1>3. 0 \in T
  <2>1. upto[0] = << >>
    BY <1>2
  <2>2. Kept(<< >>, 0)
    <3>1. << >> \in Seq(Nat) /\ 1 .. Len(<< >>) = {}
      OBVIOUS
    <3>2. [k \in 1 .. Len(<< >>) |-> 0] \in [1 .. Len(<< >>) -> 1 .. 0]
      BY <3>1
    <3> QED BY <3>1, <3>2
  <2> HIDE DEF Kept
  <2> QED BY <2>1, <2>2
<1>4. ASSUME NEW m \in Nat, m \in T PROVE m + 1 \in T
  <2> HIDE DEF Kept
  <2> SUFFICES ASSUME m + 1 <= n PROVE Kept(upto[m + 1], m + 1)
    OBVIOUS
  <2> DEFINE s == upto[m]  x == rows[m + 1][p]
  <2>1. Kept(s, m)
    BY <1>4
  <2> USE DEF Kept
  <2>2. m + 1 \in 1 .. n /\ m + 1 \in 0 .. n /\ m + 1 # 0 /\ (m + 1) - 1 = m
    OBVIOUS
  <2>3. upto[m + 1] = IF x = 0 THEN s ELSE Append(s, x)
    BY <1>2, <2>2
  <2>4. x \in Nat
    BY <2>2
  <2> HIDE DEF s
  <2>5. PICK h \in [1 .. Len(s) -> 1 .. m] :
          /\ \A k \in 1 .. Len(s) : s[k] = rows[h[k]][p] /\ rows[h[k]][p] # 0
          /\ \A k, j \in 1 .. Len(s) : k <= j => h[k] <= h[j]
    BY <2>1
  <2>6. s \in Seq(Nat)
    BY <2>1
  <2>7. CASE x = 0
    <3>1. h \in [1 .. Len(s) -> 1 .. m + 1]
      BY <2>5
    <3>2. Kept(s, m + 1)
      BY <2>5, <2>6, <3>1
    <3> HIDE DEF Kept
    <3> QED BY <2>3, <2>7, <3>2
  <2>8. CASE x # 0
    <3> DEFINE t == Append(s, x)  l == Len(s)
               f == [k \in 1 .. l + 1 |-> IF k = l + 1 THEN m + 1 ELSE h[k]]
    <3>1. /\ t \in Seq(Nat) /\ Len(t) = l + 1 /\ l \in Nat
          /\ \A k \in 1 .. l : t[k] = s[k]
          /\ t[l + 1] = x
      BY <2>4, <2>6
    <3> HIDE DEF t, l
    <3>2. h \in [1 .. l -> 1 .. m]
      BY <2>5 DEF l
    <3>3. f \in [1 .. l + 1 -> 1 .. m + 1]
      <4>1. ASSUME NEW k \in 1 .. l + 1 PROVE f[k] \in 1 .. m + 1
        <5>1. CASE k = l + 1
          BY <5>1
        <5>2. CASE k \in 1 .. l
          <6>1. h[k] \in 1 .. m /\ k # l + 1
            BY <3>1, <3>2, <5>2
          <6> QED BY <6>1
        <5> QED BY <3>1, <5>1, <5>2
      <4> QED BY <4>1
    <3>4. f[l + 1] = m + 1 /\ \A k \in 1 .. l : f[k] = h[k]
      BY <3>1
    <3> HIDE DEF f
    <3>5. \A k \in 1 .. l + 1 : t[k] = rows[f[k]][p] /\ rows[f[k]][p] # 0
      <4>1. TAKE k \in 1 .. l + 1
      <4>2. CASE k = l + 1
        BY <2>8, <3>1, <3>4, <4>2
      <4>3. CASE k \in 1 .. l
        BY <2>5, <3>1, <3>4, <4>3 DEF l
      <4> QED BY <3>1, <4>2, <4>3
    <3>6. \A k, j \in 1 .. l + 1 : k <= j => f[k] <= f[j]
      <4>1. TAKE k, j \in 1 .. l + 1
      <4>2. HAVE k <= j
      <4>3. CASE j = l + 1
        <5>1. f[k] \in 1 .. m + 1
          BY <3>3
        <5> QED BY <3>4, <4>3, <5>1
      <4>4. CASE j \in 1 .. l
        <5>1. k \in 1 .. l
          BY <3>1, <4>2, <4>4
        <5> QED BY <2>5, <3>4, <4>2, <4>4, <5>1 DEF l
      <4> QED BY <3>1, <4>3, <4>4
    <3>7. Kept(t, m + 1)
      BY <3>1, <3>3, <3>5, <3>6
    <3> HIDE DEF Kept
    <3> QED BY <2>3, <2>8, <3>7 DEF t
  <2> QED BY <2>7, <2>8
<1>5. Nat \subseteq T
  <2> HIDE DEF T
  <2> QED BY <1>3, <1>4, SetInduction
<1>6. Kept(upto[n], n)
  <2>1. n \in T
    BY <1>5
  <2> HIDE DEF Kept
  <2> QED BY <2>1
<1> QED BY <1>1, <1>6

\* The series starts at the first least number of its column.
LEMMA StaleFacts ==
  ASSUME NEW c \in Seq(Nat), Len(c) > 0
  PROVE  Stale(c) \in 1 .. Len(c) /\ \A k \in 1 .. Len(c) : c[Stale(c)] <= c[k]
<1>1. Len(c) \in Nat /\ DOMAIN c = 1 .. Len(c) /\ \A k \in 1 .. Len(c) : c[k] \in Nat
  OBVIOUS
<1> DEFINE T == {c[k] : k \in 1 .. Len(c)}
           U == {k \in 1 .. Len(c) : \A j \in 1 .. Len(c) : c[k] <= c[j]}
<1>2. PICK x \in T : \A y \in T : x <= y
  <2>1. T \in SUBSET Nat /\ T # {}
    BY <1>1
  <2> HIDE DEF T
  <2> QED BY <2>1, LeastNumber
<1>3. U \in SUBSET Nat /\ U # {}
  BY <1>1, <1>2
<1>4. PICK i \in U : \A j \in U : i <= j
  <2> HIDE DEF U
  <2> QED BY <1>3, LeastNumber
<1>5. ASSUME NEW j \in 1 .. i - 1 PROVE c[j] # c[i]
  <2>1. j \in 1 .. Len(c) /\ ~ (i <= j)
    BY <1>1, <1>4
  <2>2. j \notin U
    BY <1>4, <2>1
  <2> QED BY <1>4, <2>1, <2>2
<1>6. /\ i \in DOMAIN c /\ \A j \in DOMAIN c : c[i] <= c[j]
      /\ \A j \in 1 .. i - 1 : c[j] # c[i]
  BY <1>1, <1>4, <1>5
<1> HIDE DEF T, U
<1>7. /\ Stale(c) \in DOMAIN c /\ \A j \in DOMAIN c : c[Stale(c)] <= c[j]
  BY <1>6 DEF Stale
<1> QED BY <1>1, <1>7

\* Going back on the circle by no more than a number is taking it off.
LEMMA LessOnTheCircle ==
  ASSUME NEW x \in Int, NEW n \in Nat, n > 0, NEW a \in Nat, a <= x % n
  PROVE  (x - a) % n = (x % n) - a
<1> DEFINE k == x \div n  r == x % n  y == x - a  d == r - a
<1>1. x = n * k + r /\ r \in 0 .. n - 1 /\ k \in Int /\ a <= r
  BY DivFacts
<1> HIDE DEF k, r
<1>2. n * k = k * n /\ k * n \in Int
  BY <1>1
<1>3. y \in Int /\ d \in 0 .. n - 1 /\ y = k * n + d
  BY <1>1, <1>2
<1> HIDE DEF y, d
<1>4. y % n = d
  BY <1>1, <1>3, Remainder
<1> QED BY <1>4 DEF y, d, r

\* The packets of the rows that make up a series, in the order they were sent.
\* The rows a column was taken from, in the order they were written.
TakenFrom(p, n, h) ==
  /\ \A k \in 1 .. Len(Column(p)) : Column(p)[k] = rows[h[k]][p] /\ rows[h[k]][p] # 0
  /\ \A k, m \in 1 .. Len(Column(p)) : k <= m => h[k] <= h[m]

LEMMA ColumnTaken ==
  ASSUME NEW n \in Nat, n = Len(rows), NEW p, \A i \in 1 .. n : rows[i][p] \in Nat
  PROVE  Column(p) \in Seq(Nat) /\ \E h \in [1 .. Len(Column(p)) -> 1 .. n] : TakenFrom(p, n, h)
BY ColumnFacts DEF TakenFrom

LEMMA SeriesFacts ==
  ASSUME HonestInv, Short, NEW p \in Declared, p \notin restarted, Counter(p) = 0,
         Len(Column(p)) > 0
  PROVE  /\ Column(p) \in Seq(Nat)
         /\ \E u \in [1 .. Len(Column(p)) -> heard[p]] :
              /\ \A k \in 1 .. Len(Column(p)) : Column(p)[k] = Num(p, u[k])
              /\ \A k, m \in 1 .. Len(Column(p)) : k <= m => u[k] <= u[m]
<1>1. rows \in Seq([Declared -> Seqs]) /\ TypeOK
  BY DEF HonestInv, Histories, ExchangeInv
<1>n. PICK n \in Nat : n = Len(rows)
  BY <1>1
<1>2. \A i \in 1 .. n : rows[i][p] \in Nat
  BY <1>1, <1>n DEF Seqs
<1>3. PICK val \in [1 .. n -> {0} \cup heard[p]] : Logged(p, val)
  BY <1>n DEF HonestInv, RowsInOrder
<1>4. Column(p) \in Seq(Nat) /\ \E h \in [1 .. Len(Column(p)) -> 1 .. n] : TakenFrom(p, n, h)
  BY <1>n, <1>2, ColumnTaken
<1>5. PICK h \in [1 .. Len(Column(p)) -> 1 .. n] :
         /\ \A k \in 1 .. Len(Column(p)) : Column(p)[k] = rows[h[k]][p] /\ rows[h[k]][p] # 0
         /\ \A k, m \in 1 .. Len(Column(p)) : k <= m => h[k] <= h[m]
  BY <1>4 DEF TakenFrom
<1>6. PICK l \in Nat : l = Len(Column(p))
  BY <1>4
<1> DEFINE u == [k \in 1 .. l |-> val[h[k]]]
<1>7. \A k \in 1 .. l : h[k] \in 1 .. n /\ u[k] = val[h[k]]
  BY <1>5, <1>6
<1> HIDE DEF u
<1>8. ASSUME NEW k \in 1 .. l PROVE u[k] \in heard[p] /\ Column(p)[k] = Num(p, u[k])
  <2>1. rows[h[k]][p] = IF val[h[k]] = 0 THEN 0 ELSE Num(p, val[h[k]])
    BY <1>3, <1>7 DEF Logged
  <2>2. rows[h[k]][p] # 0 /\ Column(p)[k] = rows[h[k]][p]
    BY <1>5, <1>6
  <2>3. val[h[k]] # 0 /\ val[h[k]] \in {0} \cup heard[p]
    BY <1>3, <1>7, <2>1, <2>2
  <2> QED BY <1>7, <2>1, <2>2, <2>3
<1>9. ASSUME NEW k \in 1 .. l, NEW m \in 1 .. l, k <= m PROVE u[k] <= u[m]
  <2>1. h[k] <= h[m] /\ h[k] \in 1 .. n /\ h[m] \in 1 .. n
    BY <1>5, <1>6, <1>7, <1>9
  <2> QED BY <1>3, <1>7, <2>1 DEF Logged
<1>10. \E f \in [1 .. l -> heard[p]] :
         /\ \A k \in 1 .. l : Column(p)[k] = Num(p, f[k])
         /\ \A k, m \in 1 .. l : k <= m => f[k] <= f[m]
  <2>1. [k \in 1 .. l |-> u[k]] \in [1 .. l -> heard[p]]
    BY <1>8
  <2>2. \A k \in 1 .. l : [j \in 1 .. l |-> u[j]][k] = u[k]
    OBVIOUS
  <2>3. \A k, m \in 1 .. l : k <= m => u[k] <= u[m]
    BY <1>9
  <2> QED BY <1>8, <2>1, <2>2, <2>3
<1> QED BY <1>4, <1>6, <1>10

\* Numbers less than one round apart that stand in the order of their packets
\* differ as the packets do.
LEMMA SameDistance ==
  ASSUME TypeOK, NEW p \in Declared, NEW v \in Int, NEW w \in Int,
         w <= v, v - w < SeqModulus, Num(p, w) <= Num(p, v)
  PROVE  Num(p, v) - Num(p, w) = v - w
<1>1. p \in Peers /\ SeqModulus \in Nat /\ SeqModulus > 0
  BY NeighborAssumption, ModulusType
<1> DEFINE b == seq[p] - sent[p]  x == (b + v) % SeqModulus  y == (b + w) % SeqModulus
<1>2. b \in Int
  BY <1>1, NumType
<1>3. Num(p, v) = x /\ Num(p, w) = y
  BY DEF Num
<1>4. x \in Seqs /\ y \in Seqs
  BY <1>1, <1>3, NumType
<1>5. x \in 0 .. SeqModulus - 1 /\ y \in 0 .. SeqModulus - 1
  BY <1>4 DEF Seqs
<1>6. (x - y) % SeqModulus = (v - w) % SeqModulus
  <2> HIDE DEF b
  <2> QED BY <1>1, <1>2, Ahead
<1> HIDE DEF x, y
<1> DEFINE d == x - y  e == v - w
<1>7. d \in Int /\ 0 <= d /\ d < SeqModulus /\ e \in Int /\ 0 <= e /\ e < SeqModulus
  BY <1>1, <1>3, <1>5
<1> HIDE DEF d, e
<1>8. d % SeqModulus = d /\ e % SeqModulus = e
  BY <1>1, <1>7, OnTheCircle
<1> QED BY <1>3, <1>6, <1>8 DEF d, e

LEMMA SeriesIsDelivered ==
  ASSUME HonestInv, Short, NEW p \in Declared, p \notin restarted, Counter(p) = 0,
         Len(Column(p)) > 0
  PROVE  Seen(Series(Column(p))) <= Cardinality(Delivered(p, Series(Column(p))))
<1> DEFINE c == Column(p)  l == Len(c)  m == Stale(c)  s == Series(c)
<1>1. /\ TypeOK /\ Began(p) /\ p \in Peers /\ sent[p] \in Nat /\ sent[p] + Window <= SeqModulus
      /\ SeqModulus \in Nat /\ Window \in Nat /\ Window > 0
  <2>1. TypeOK /\ Began(p) /\ Histories /\ p \in Peers
    BY NeighborAssumption DEF HonestInv, ExchangeInv
  <2>2. sent[p] \in Nat /\ sent[p] <= MaxSent[p] /\ MaxSent[p] \in Nat
    BY <2>1, ExchangeAssumption DEF TypeOK, Histories
  <2> QED BY <2>1, <2>2, NeighborAssumption DEF Short
<1>2. PICK u \in [1 .. l -> heard[p]] :
        /\ \A k \in 1 .. l : c[k] = Num(p, u[k])
        /\ \A k, j \in 1 .. l : k <= j => u[k] <= u[j]
  BY SeriesFacts
<1>3. c \in Seq(Nat) /\ l \in Nat /\ l > 0 /\ \A k \in 1 .. l : c[k] \in Nat
  BY SeriesFacts
<1>4. m \in 1 .. l /\ \A k \in 1 .. l : c[m] <= c[k]
  <2> HIDE DEF c
  <2> QED BY <1>3, StaleFacts
<1> HIDE DEF c, m
<1>5. /\ DOMAIN s = 1 .. (l - m) + 1 /\ Len(s) = (l - m) + 1
      /\ \A i \in 1 .. (l - m) + 1 : s[i] = c[(m + i) - 1]
  BY <1>3, <1>4 DEF Series, m
<1>6. s[1] = c[m] /\ Last(s) = c[l]
  <2>1. 1 \in 1 .. (l - m) + 1 /\ (l - m) + 1 \in 1 .. (l - m) + 1
        /\ (m + 1) - 1 = m /\ (m + ((l - m) + 1)) - 1 = l
    BY <1>3, <1>4
  <2>2. s[1] = c[(m + 1) - 1] /\ s[(l - m) + 1] = c[(m + ((l - m) + 1)) - 1]
    BY <1>5, <2>1
  <2> QED BY <1>5, <2>1, <2>2 DEF Last
<1>7. ToSet(s) = {c[k] : k \in m .. l}
  <2>1. ASSUME NEW x \in ToSet(s) PROVE x \in {c[k] : k \in m .. l}
    <3>1. PICK i \in 1 .. (l - m) + 1 : x = s[i]
      BY <1>5, <2>1 DEF ToSet
    <3>2. (m + i) - 1 \in m .. l
      BY <1>3, <1>4
    <3> QED BY <1>5, <3>1, <3>2
  <2>2. ASSUME NEW k \in m .. l PROVE c[k] \in ToSet(s)
    <3>1. (k - m) + 1 \in 1 .. (l - m) + 1 /\ (m + ((k - m) + 1)) - 1 = k
      BY <1>3, <1>4
    <3>2. s[(k - m) + 1] = c[k]
      BY <1>5, <3>1
    <3> QED BY <1>5, <3>1, <3>2 DEF ToSet
  <2> QED BY <2>1, <2>2
<1> HIDE DEF s
<1>8. \A k \in m .. l : k \in 1 .. l /\ u[k] \in heard[p] /\ u[k] \in 1 .. sent[p] /\ c[k] = Num(p, u[k])
  <2>1. \A k \in m .. l : k \in 1 .. l
    BY <1>3, <1>4
  <2> QED BY <1>1, <1>2, <2>1 DEF Began
<1>9. ASSUME NEW k \in m .. l PROVE c[k] - c[m] = u[k] - u[m] /\ u[m] <= u[k] /\ u[k] <= u[l]
  <2>1. m \in m .. l /\ l \in m .. l /\ m <= k /\ k <= l /\ k \in 1 .. l
    BY <1>3, <1>4
  <2>2. u[m] <= u[k] /\ u[k] <= u[l]
    BY <1>2, <1>4, <1>8, <2>1
  <2>3. u[k] \in 1 .. sent[p] /\ u[m] \in 1 .. sent[p]
    BY <1>8, <2>1
  <2>4. u[k] \in Int /\ u[m] \in Int /\ u[k] - u[m] < SeqModulus
    BY <1>1, <2>3
  <2>5. Num(p, u[m]) <= Num(p, u[k])
    BY <1>4, <1>8, <2>1
  <2>6. Num(p, u[k]) - Num(p, u[m]) = u[k] - u[m]
    BY <1>1, <2>2, <2>4, <2>5, SameDistance
  <2> QED BY <1>8, <2>1, <2>2, <2>6
<1> DEFINE D == Delivered(p, s)
<1>10. ASSUME NEW k \in m .. l PROVE u[k] \in D
  <2>1. /\ u[k] \in Int /\ u[m] \in Int /\ u[l] \in Int /\ l \in m .. l /\ m \in m .. l
        /\ c[k] \in Nat /\ c[m] \in Nat /\ c[l] \in Nat
    BY <1>1, <1>3, <1>4, <1>8
  <2>2. c[m] <= c[k] /\ c[k] <= c[l]
    <3>1. c[k] - c[m] = u[k] - u[m] /\ c[l] - c[m] = u[l] - u[m] /\ u[k] <= u[l]
      BY <1>9, <2>1
    <3> QED BY <1>4, <1>8, <2>1, <3>1
  <2> DEFINE M == SeqModulus  b == seq[p] - sent[p]
  <2>3. b \in Int /\ c[k] = (b + u[k]) % M /\ c[k] \in 0 .. M - 1 /\ c[l] \in 0 .. M - 1
    <3>1. Num(p, u[k]) \in Seqs /\ Num(p, u[l]) \in Seqs /\ b \in Int
      BY <1>1, <2>1, NumType
    <3> QED BY <1>8, <2>1, <3>1 DEF Num, Seqs
  <2>4. (u[k] - (sent[p] - seq[p])) - c[m] = (b + u[k]) - c[m]
    <3>1. seq[p] \in Int /\ sent[p] \in Int
      BY <1>1, ModulusType DEF TypeOK, Seqs
    <3> QED BY <2>1, <3>1
  <2>5. ((b + u[k]) - c[m]) % M = c[k] - c[m]
    <3> DEFINE x == b + u[k]
    <3>1. x \in Int /\ c[k] = x % M /\ M \in Nat /\ M > 0
      BY <1>1, <2>1, <2>3
    <3> HIDE DEF x, M
    <3> DEFINE ck == c[k]  cm == c[m]
    <3>2. ck \in Nat /\ cm \in Nat /\ cm <= ck /\ ck \in 0 .. M - 1 /\ ck = x % M
      BY <2>1, <2>2, <2>3, <3>1
    <3> HIDE DEF ck, cm
    <3>3. (x - cm) % M = ck - cm
      BY <3>1, <3>2, LessOnTheCircle
    <3> QED BY <3>3 DEF x, ck, cm, M
  <2>6. (c[l] - c[m]) % M = c[l] - c[m]
    <3> DEFINE cl == c[l]  cm == c[m]  ck == c[k]  y == cl - cm
    <3>1. /\ M \in Nat /\ M > 0 /\ cl \in 0 .. M - 1 /\ cm \in Nat
          /\ ck \in Nat /\ cm <= ck /\ ck <= cl
      BY <1>1, <2>1, <2>2, <2>3
    <3> HIDE DEF M, b, cl, cm, ck
    <3>2. y \in Int /\ 0 <= y /\ y < M
      BY <3>1
    <3> HIDE DEF y
    <3>3. y % M = y
      BY <3>1, <3>2, OnTheCircle
    <3> QED BY <3>3 DEF y, M, cl, cm
  <2>7. ((u[k] - (sent[p] - seq[p]) - s[1]) % M) <= ((Last(s) - s[1]) % M)
    <3>1. c[k] - c[m] <= c[l] - c[m]
      BY <2>1, <2>2
    <3> QED BY <1>6, <2>4, <2>5, <2>6, <3>1
  <2> QED BY <1>8, <2>7 DEF Delivered
<1> DEFINE f == [x \in ToSet(s) |-> u[CHOOSE k \in m .. l : c[k] = x]]
<1>11. ASSUME NEW x \in ToSet(s) PROVE f[x] \in D /\ Num(p, f[x]) = x
  <2>1. PICK k \in m .. l : c[k] = x /\ f[x] = u[k]
    BY <1>7
  <2> HIDE DEF D
  <2> QED BY <1>8, <1>10, <2>1
<1>12. f \in Injection(ToSet(s), D)
  <2> HIDE DEF D
  <2>1. f \in [ToSet(s) -> D]
    BY <1>11
  <2> HIDE DEF f
  <2>2. \A x, y \in ToSet(s) : f[x] = f[y] => x = y
    BY <1>11
  <2>3. DOMAIN f = ToSet(s)
    BY <2>1
  <2> QED BY <2>1, <2>2, <2>3 DEF Injection, IsInjective
<1>13. IsFiniteSet(D)
  <2>0. PICK top \in Int : top = sent[p]
    BY <1>1
  <2>1. IsFiniteSet(1 .. top)
    BY FS_Interval
  <2>2. D \in SUBSET (1 .. top)
    BY <1>1, <2>0 DEF Delivered, Began
  <2> QED BY <2>1, <2>2, FS_Subset
<1>14. Cardinality(ToSet(s)) <= Cardinality(D)
  <2> HIDE DEF D, f
  <2> QED BY <1>12, <1>13, FS_Injection
<1> QED BY <1>14 DEF Seen, s, c

LEMMA RowsAreAFloor == HonestInv /\ Short => InOrderRowsAreLowerBound
<1> SUFFICES ASSUME HonestInv, Short, NEW p \in Declared, p \notin restarted,
                    stats[p].reordered + stats[p].resets = 0, LinkDelivery(p).derivable
             PROVE  LinkDelivery(p).received
                      <= Cardinality(Delivered(p, Series(Column(p))))
  BY DEF InOrderRowsAreLowerBound, NoMoreThanDelivered
<1> DEFINE c == Column(p)  s == Series(c)
<1>1. ~(Len(c) < 2 \/ Len(s) < 2 \/ Span(s) < Seen(s)) /\ LinkDelivery(p).received = Seen(s)
  BY DEF LinkDelivery
<1>2. Len(c) > 0
  <2>1. Counter(p) = 0
    BY DEF Counter
  <2>2. CASE Len(c) > 0
    BY <2>2
  <2>3. c \in Seq(Nat)
    <3>1. rows \in Seq([Declared -> Seqs])
      BY DEF HonestInv, Histories
    <3>2. Len(rows) \in Nat /\ \A i \in 1 .. Len(rows) : rows[i][p] \in Nat
      BY <3>1 DEF Seqs
    <3> QED BY <3>2, ColumnFacts
  <2> HIDE DEF c
  <2>4. Len(c) \in Nat
    BY <2>3
  <2> QED BY <1>1, <2>4
<1>3. Counter(p) = 0
  BY DEF Counter
<1> QED BY <1>1, <1>2, <1>3, SeriesIsDelivered

\* While a neighbour does not restart and its packets stay within the window,
\* the monitor expects what was sent and never understates what was lost
\* (LinkMonitor.observe, LinkMonitor.delivery_ratio).
THEOREM LossIsNeverUnderstated == Spec => []LossNeverUnderstated
BY HonestInvariant, LossIsCounted, PTL

\* So long as fewer packets are sent than the numbers take to come round, what
\* is said of a link is honest (LinkMonitor.observe, NeighborTable.observe,
\* NodeRun.link_delivery).
THEOREM DeliveryHolds == ASSUME Short PROVE Spec => []DeliveryIsHonest
<1>1. HonestInv => DeliveryIsHonest
  BY LossIsCounted, OlderIsCounted, RowsAreAFloor DEF DeliveryIsHonest
<1> QED BY <1>1, HonestInvariant, PTL
===============================================================================
