---------------------------- MODULE BoardUartProofs ---------------------------
(***************************************************************************)
(* The board's end of the serial link keeps its promises between frames,   *)
(* for any ring, chunk and queue and any number of frames and faults: the  *)
(* parser never stays inside a frame with nothing left to end it, and no   *)
(* reply is lost without a count or left behind (UartInv).                 *)
(***************************************************************************)
EXTENDS BoardUart, FiniteSetTheorems, TLAPS

-----------------------------------------------------------------------------
(* Sequences that are taken from one end.                                  *)

LEMMA TakeType ==
  ASSUME NEW S, NEW s \in Seq(S), NEW n \in Nat
  PROVE  Take(s, n) \in Seq(S) /\ Len(Take(s, n)) <= n /\ Len(Take(s, n)) <= Len(s)
BY DEF Take

LEMMA DropType ==
  ASSUME NEW S, NEW s \in Seq(S), NEW n \in Nat
  PROVE  Drop(s, n) \in Seq(S) /\ Len(Drop(s, n)) <= Len(s)
BY DEF Drop

LEMMA TailType ==
  ASSUME NEW S, NEW s \in Seq(S), s # << >>
  PROVE  Tail(s) \in Seq(S) /\ Len(Tail(s)) = Len(s) - 1
OBVIOUS

LEMMA Bounds ==
  /\ RingSize \in Nat /\ ChunkSize \in Nat /\ TxDepth \in Nat /\ TxDepth > 0
  /\ Ping \in Nat /\ Command \in Nat /\ MaxPayload \in Nat /\ MaxPayload > 1 /\ Burst \in Nat
  /\ CrcReads \in Nat
BY UartAssumption

-----------------------------------------------------------------------------
(* The parser: what a symbol, a reset and a timeout make of its state.     *)

States == {"sof", "type", "length", "payload", "crc"}

\* A parser has its fields; what its counters and its frames hold is open.
Made(stats, s, t, n, b, out) ==
  [stats |-> stats, at |-> [state |-> s, type |-> t, expected |-> n, payload |-> b], out |-> out]

Shape(p) ==
  /\ p = Made(p.stats, p.at.state, p.at.type, p.at.expected, p.at.payload, p.out)
  /\ p.at.state \in States

LEMMA MadeShape ==
  ASSUME NEW stats, NEW s \in States, NEW t, NEW n, NEW b, NEW out
  PROVE  Shape(Made(stats, s, t, n, b, out)) /\ Made(stats, s, t, n, b, out).at.state = s
BY DEF Shape, Made

LEMMA AtShape ==
  ASSUME NEW p, Shape(p), NEW s \in States
  PROVE  Shape(P!At(p, s)) /\ P!At(p, s).at.state = s
<1>1. P!At(p, s) = Made(p.stats, s, p.at.type, p.at.expected, p.at.payload, p.out)
  BY DEF Shape, Made, P!At
<1> QED BY <1>1, MadeShape

\* One field written, the others kept.
LEMMA EditShape ==
  ASSUME NEW p, Shape(p), NEW x
  PROVE  /\ Shape([p EXCEPT !.at.type = x])
         /\ Shape([p EXCEPT !.at.expected = x])
         /\ Shape([p EXCEPT !.at.payload = x])
         /\ Shape([p EXCEPT !.out = x])
<1>1. [p EXCEPT !.at.type = x]
        = Made(p.stats, p.at.state, x, p.at.expected, p.at.payload, p.out)
  BY DEF Shape, Made
<1>2. [p EXCEPT !.at.expected = x]
        = Made(p.stats, p.at.state, p.at.type, x, p.at.payload, p.out)
  BY DEF Shape, Made
<1>3. [p EXCEPT !.at.payload = x]
        = Made(p.stats, p.at.state, p.at.type, p.at.expected, x, p.out)
  BY DEF Shape, Made
<1>4. [p EXCEPT !.out = x]
        = Made(p.stats, p.at.state, p.at.type, p.at.expected, p.at.payload, x)
  BY DEF Shape, Made
<1>5. p.at.state \in States
  BY DEF Shape
<1> QED BY <1>1, <1>2, <1>3, <1>4, <1>5, MadeShape

LEMMA CountingShape ==
  ASSUME NEW p, Shape(p), NEW f
  PROVE  Shape(P!Counting(p, f)) /\ P!Counting(p, f).at.state = p.at.state
<1>1. P!Counting(p, f) = Made([p.stats EXCEPT ![f] = @ + 1], p.at.state, p.at.type,
                              p.at.expected, p.at.payload, p.out)
  BY DEF Shape, Made, P!Counting
<1> QED BY <1>1, MadeShape DEF Shape

LEMMA ResyncShape ==
  ASSUME NEW p, Shape(p)
  PROVE  Shape(P!Resync(p)) /\ P!Resync(p).at.state = "sof"
BY AtShape, CountingShape DEF P!Resync, States

LEMMA ResetShape ==
  ASSUME NEW p, Shape(p)
  PROVE  Shape(P!Reset(p)) /\ P!Reset(p).at.state = "sof"
<1>1. P!Reset(p) = Made(p.stats, "sof", p.at.type, 0, << >>, p.out)
  BY DEF Shape, Made, P!Reset, P!Idle
<1> QED BY <1>1, MadeShape DEF States

LEMMA TimedOutShape ==
  ASSUME NEW p, Shape(p)
  PROVE  Shape(P!TimedOut(p)) /\ P!TimedOut(p).at.state = "sof"
BY ResetShape, CountingShape DEF P!TimedOut, P!InFrame

LEMMA RefuseShape ==
  ASSUME NEW p, Shape(p)
  PROVE  Shape(P!Refuse(p))
BY ResyncShape, CountingShape DEF P!Refuse

LEMMA DeliverShape ==
  ASSUME NEW p, Shape(p), NEW x
  PROVE  Shape(P!Deliver(p, x))
<1> DEFINE c == P!Counting(P!At(p, "sof"), "ok")
           out == Append(c.out, <<p.at.type, x>>)
<1>1. Shape(c)
  BY AtShape, CountingShape DEF States
<1>2. P!Deliver(p, x) = [c EXCEPT !.out = out]
  BY DEF P!Deliver
<1> HIDE DEF c, out
<1>3. Shape([c EXCEPT !.out = out])
  BY <1>1, EditShape
<1> QED BY <1>2, <1>3

LEMMA StepShape ==
  ASSUME NEW p, Shape(p), NEW b
  PROVE  Shape(P!Step(p, b))
<1>1. CASE p.at.state = "sof"
  <2>1. P!Step(p, b) = P!Sof(p, b)
    BY <1>1 DEF P!Step
  <2> QED BY <2>1, AtShape DEF P!Sof, States
<1>2. CASE p.at.state = "type"
  <2>1. P!Step(p, b) = P!Type(p, b)
    BY <1>2 DEF P!Step
  <2> DEFINE a == P!At(p, "length")
  <2>2. Shape(a)
    BY AtShape DEF States
  <2>3. P!Type(p, b) \in {[a EXCEPT !.at.type = b.n], P!Resync(p)}
    BY DEF P!Type
  <2> HIDE DEF a
  <2>4. Shape([a EXCEPT !.at.type = b.n])
    BY <2>2, EditShape
  <2>5. Shape(P!Resync(p))
    BY ResyncShape
  <2> QED BY <2>1, <2>3, <2>4, <2>5
<1>3. CASE p.at.state = "length"
  <2>1. P!Step(p, b) = P!Length(p, b)
    BY <1>3 DEF P!Step
  <2> DEFINE a == P!At(p, IF b.n = 0 THEN "crc" ELSE "payload")
             e == [a EXCEPT !.at.expected = b.n]
  <2>2. Shape(a)
    BY AtShape DEF States
  <2>3. P!Length(p, b) \in {[e EXCEPT !.at.payload = << >>], P!Counting(P!Resync(p), "len")}
    BY DEF P!Length
  <2> HIDE DEF a
  <2>4. Shape(e)
    BY <2>2, EditShape
  <2> HIDE DEF e
  <2>5. Shape([e EXCEPT !.at.payload = << >>])
    BY <2>4, EditShape
  <2>6. Shape(P!Counting(P!Resync(p), "len"))
    BY ResyncShape, CountingShape
  <2> QED BY <2>1, <2>3, <2>5, <2>6
<1>4. CASE p.at.state = "payload"
  <2> DEFINE x == Append(p.at.payload, b)
             q == [p EXCEPT !.at.payload = x]
  <2>1. P!Step(p, b) = P!Payload(p, b)
    BY <1>4 DEF P!Step
  <2>2. P!Payload(p, b) \in {q, P!At(q, "crc")}
    BY DEF P!Payload
  <2> HIDE DEF x
  <2>3. Shape(q)
    BY EditShape
  <2> HIDE DEF q
  <2> QED BY <2>1, <2>2, <2>3, AtShape DEF States
<1>5. CASE p.at.state = "crc"
  <2>1. P!Step(p, b) \in {P!Deliver(p, p.at.payload), P!Refuse(p)}
    BY <1>5 DEF P!Step, P!Check
  <2> QED BY <2>1, DeliverShape, RefuseShape
<1> QED BY <1>1, <1>2, <1>3, <1>4, <1>5 DEF Shape, States

-----------------------------------------------------------------------------
(* The inductive invariant.                                                *)

\* What is on the wire: bytes, and the checksums of frames.
Bytes == {P!Byte(n) : n \in Nat}
Frames == {Ping, Command} \X Seq(Bytes)
SumOf(f) == P!Crc(f[1], Len(f[2]), f[2])
Symbols == Bytes \cup {SumOf(f) : f \in Frames}

SymbolsType ==
  /\ wire \in Seq(Symbols) /\ ring \in Seq(Symbols) /\ chunk \in Seq(Symbols)
  /\ sent \in Seq(Frames)
  /\ Len(ring) <= RingSize /\ Len(chunk) <= ChunkSize

Flags ==
  /\ rxWork \in BOOLEAN /\ idleTimer \in BOOLEAN /\ damaged \in BOOLEAN /\ quiet \in BOOLEAN
  /\ txBusy \in BOOLEAN /\ txWork \in BOOLEAN /\ txFailed \in BOOLEAN

\* A chunk is only held inside the work item, and an open frame is watched:
\* by the work item, which arms the timer when it ends, or by the timer.
Watched ==
  /\ Shape(parser)
  /\ chunk # << >> => rxWork
  /\ P!InFrame(parser) => rxWork \/ idleTimer

RxInv == SymbolsType /\ Watched

TxInv ==
  /\ txQueue \in Seq(Nat) /\ Len(txQueue) <= TxDepth
  /\ tx \in [frames : Nat, dropped : Nat, asked : Nat]
  /\ RepliesAccounted /\ RepliesNotForgotten

IInv == RxInv /\ Flags /\ TxInv

LEMMA InitialIInv == ASSUME Init PROVE IInv
<1>1. SymbolsType
  BY Bounds DEF Init, SymbolsType
<1>2. Watched
  <2>1. P!Begin = Made(P!Begin.stats, "sof", 0, 0, << >>, << >>)
    BY DEF P!Begin, P!Idle, Made
  <2>2. Shape(P!Begin) /\ P!Begin.at.state = "sof"
    BY <2>1, MadeShape DEF States
  <2> QED BY <2>2 DEF Init, Watched, P!InFrame
<1>3. Flags
  BY DEF Init, Flags
<1>4. TxInv
  BY Bounds DEF Init, TxInv, RepliesAccounted, RepliesNotForgotten
<1> QED BY <1>1, <1>2, <1>3, <1>4 DEF IInv, RxInv

\* The flags stay flags; the parser and the queues play no part in that.
LEMMA FlagsStep == ASSUME Flags, [Next]_vars PROVE Flags'
<1>1. CASE UNCHANGED vars
  BY <1>1, Zenon DEF Flags, vars
<1>2. CASE HostSends
  <2>1. quiet' \in BOOLEAN
    BY <1>2 DEF HostSends, AtRest
  <2> QED BY <1>2, <2>1, Zenon DEF HostSends, Flags, txVars
<1>3. CASE BusError
  BY <1>3, Zenon DEF BusError, BusFails, Flags, txVars
<1>4. CASE RxReady
  <2>1. damaged' \in BOOLEAN
    BY <1>4 DEF RxReady
  <2> QED BY <1>4, <2>1, Zenon DEF RxReady, Flags, txVars
<1>5. CASE RxTake
  BY <1>5, Zenon DEF RxTake, Flags, txVars
<1>6. CASE RxFeed
  BY <1>6, Zenon DEF RxFeed, Send, Flags, txVars
<1>7. CASE RxDone
  <2>1. idleTimer' \in BOOLEAN
    BY <1>7 DEF RxDone, P!InFrame
  <2> QED BY <1>7, <2>1, Zenon DEF RxDone, Flags, txVars
<1>8. CASE IdleTimeout
  BY <1>8, Zenon DEF IdleTimeout, Flags, txVars
<1>9. CASE TxWork
  BY <1>9, Zenon DEF TxWork, Flags
<1>10. CASE TxDone
  BY <1>10, Zenon DEF TxDone, Flags, rxVars
<1>11. CASE BusErrorInFeed
  BY <1>11, Zenon DEF BusErrorInFeed, BusFails, Send, Flags, txVars
<1> QED BY <1>1, <1>2, <1>3, <1>4, <1>5, <1>6, <1>7, <1>8, <1>9, <1>10, <1>11
  DEF Next, Receive

-----------------------------------------------------------------------------
(* The receiver.                                                           *)

\* A frame the host may send is one the board's parser has room for.
LEMMA PayloadsType ==
  ASSUME SymbolsType, NEW t \in {Ping, Command}, NEW payload \in Payloads(t)
  PROVE  /\ <<t, payload>> \in Frames
         /\ Len(payload) <= LengthCap(t) /\ Len(payload) <= MaxPayload
<1>1. Len(sent) \in Nat
  BY DEF SymbolsType
<1> DEFINE number == P!Byte(Len(sent) + 1)
<1>2. number \in Bytes
  BY <1>1 DEF Bytes
<1>3. CASE t = Ping
  <2>1. payload = << >> /\ LengthCap(t) = 0
    BY <1>3, UartAssumption DEF Payloads, LengthCap
  <2>2. payload \in Seq(Bytes) /\ Len(payload) = 0
    BY <2>1
  <2>3. <<t, payload>> \in Frames
    BY <2>2 DEF Frames
  <2> QED BY <2>1, <2>2, <2>3, Bounds
<1>4. CASE t # Ping
  <2>1. LengthCap(t) = MaxPayload
    BY <1>4 DEF LengthCap
  <2>2. payload \in Seq(Bytes) /\ Len(payload) <= 2
    <3>1. CASE payload = <<number>>
      <4> HIDE DEF number
      <4> QED BY <1>2, <3>1
    <3>2. CASE payload # <<number>>
      <4>1. PICK n \in {P!SOF, Ping, Command} : payload = <<number, P!Byte(n)>>
        BY <1>4, <3>2 DEF Payloads
      <4> DEFINE other == P!Byte(n)
      <4>2. other \in Bytes
        BY Bounds DEF Bytes, P!SOF
      <4> HIDE DEF number, other
      <4>3. payload = <<number, other>>
        BY <4>1 DEF other
      <4> QED BY <1>2, <4>2, <4>3
    <3> QED BY <3>1, <3>2
  <2>3. <<t, payload>> \in Frames
    BY <2>2 DEF Frames
  <2> QED BY <2>1, <2>2, <2>3, Bounds
<1> QED BY <1>3, <1>4

LEMMA FrameType ==
  ASSUME NEW t \in {Ping, Command}, NEW payload, <<t, payload>> \in Frames
  PROVE  P!Frame(t, payload) \in Seq(Symbols)
<1>1. payload \in Seq(Bytes) /\ Len(payload) \in Nat
  BY DEF Frames
<1>2. payload \in Seq(Symbols)
  BY <1>1 DEF Symbols
<1>3. <<P!Byte(P!SOF), P!Byte(t), P!Byte(Len(payload))>> \in Seq(Symbols)
  <2>1. P!Byte(P!SOF) \in Symbols /\ P!Byte(t) \in Symbols /\ P!Byte(Len(payload)) \in Symbols
    BY <1>1, Bounds DEF Symbols, Bytes, P!SOF
  <2> QED BY <2>1
<1>4. <<P!Crc(t, Len(payload), payload)>> \in Seq(Symbols)
  <2> DEFINE f == <<t, payload>>
  <2>1. SumOf(f) \in Symbols /\ SumOf(f) = P!Crc(t, Len(payload), payload)
    BY DEF Symbols, SumOf
  <2> QED BY <2>1
<1> QED BY <1>2, <1>3, <1>4 DEF P!Frame

LEMMA HostSendsStep == ASSUME RxInv, HostSends PROVE RxInv'
<1> USE DEF RxInv
<1>1. PICK t \in {Ping, Command} : \E payload \in Payloads(t) :
        sent' = Append(sent, <<t, payload>>) /\ wire' = wire \o P!Frame(t, payload)
  BY DEF HostSends
<1>2. PICK payload \in Payloads(t) :
        sent' = Append(sent, <<t, payload>>) /\ wire' = wire \o P!Frame(t, payload)
  BY <1>1
<1>3. Len(sent) \in Nat
  BY DEF SymbolsType
<1>4. <<t, payload>> \in Frames /\ Len(payload) <= LengthCap(t) /\ Len(payload) <= MaxPayload
  BY PayloadsType
<1>5. P!Frame(t, payload) \in Seq(Symbols)
  BY <1>4, FrameType
<1> DEFINE f == <<t, payload>>  w == P!Frame(t, payload)
<1>6. SymbolsType'
  <2>1. f \in Frames /\ w \in Seq(Symbols)
    BY <1>4, <1>5
  <2>2. sent' = Append(sent, f) /\ wire' = wire \o w /\ UNCHANGED <<ring, chunk>>
    BY <1>2 DEF HostSends
  <2> HIDE DEF f, w
  <2> QED BY <2>1, <2>2 DEF SymbolsType
<1>7. Watched'
  BY DEF HostSends, Watched
<1> QED BY <1>6, <1>7

LEMMA RxReadyStep == ASSUME RxInv, RxReady PROVE RxInv'
<1> USE DEF RxInv
<1>1. PICK n \in 1 .. Burst :
        /\ wire' = Drop(wire, n)
        /\ ring' = ring \o Take(Take(wire, n), RingSize - Len(ring))
  BY DEF RxReady
<1>2. n \in Nat /\ RingSize - Len(ring) \in Nat
  BY Bounds DEF SymbolsType
<1>3. wire' \in Seq(Symbols)
  BY <1>1, <1>2, DropType DEF SymbolsType
<1> DEFINE put == Take(Take(wire, n), RingSize - Len(ring))
<1>4. put \in Seq(Symbols) /\ Len(put) <= RingSize - Len(ring)
  <2>1. Take(wire, n) \in Seq(Symbols)
    BY <1>2, TakeType DEF SymbolsType
  <2> QED BY <1>2, <2>1, TakeType
<1> HIDE DEF put
<1>5. ring' = ring \o put
  BY <1>1 DEF put
<1>6. ring' \in Seq(Symbols) /\ Len(ring') <= RingSize
  BY <1>4, <1>5, Bounds DEF SymbolsType
<1>7. UNCHANGED <<sent, chunk, idleTimer, parser>> /\ rxWork' = TRUE
  BY DEF RxReady
<1>8. SymbolsType' /\ Watched'
  BY <1>3, <1>6, <1>7 DEF SymbolsType, Watched
<1> QED BY <1>8

\* What a reset inside a symbol leaves: what the symbol makes of the parser, a
\* frame refused, a frame delivered without its payload, or an open frame of
\* which no more is held than a payload in the making.
Remains(p, b, q) ==
  \/ q = P!Step(p, b)
  \/ q = P!Refuse(p)
  \/ p.at.state = "crc" /\ P!Matches(p, b) /\ q = P!Deliver(p, << >>)
  \/ \E s \in {"sof", "crc", "payload"} : q = Made(p.stats, s, p.at.type, 0, << >>, p.out)
  \/ p.at.state = "payload" /\ \E x \in {<<b>>, Append(p.at.payload, b)} :
       q = Made(p.stats, "crc", p.at.type, 0, x, p.out)

LEMMA TornCases ==
  ASSUME NEW p, Shape(p), NEW b, NEW q \in P!Torn(p, b)
  PROVE  Remains(p, b, q)
<1> USE DEF Remains
<1> DEFINE Left(s, x) ==
             [p EXCEPT !.at = [state |-> s, type |-> p.at.type, expected |-> 0, payload |-> x]]
<1>1. ASSUME NEW s, NEW x PROVE Left(s, x) = Made(p.stats, s, p.at.type, 0, x, p.out)
  BY DEF Shape, Made
<1>2. P!Reset(p) = Made(p.stats, "sof", p.at.type, 0, << >>, p.out)
  BY DEF Shape, Made, P!Reset, P!Idle
<1>3. CASE p.at.state = "length"
  <2>1. q \in {P!Reset(p), P!Step(p, b), Left("crc", << >>), Left("payload", << >>)}
    BY <1>3 DEF P!Torn
  <2> HIDE DEF Left
  <2> QED BY <1>1, <1>2, <2>1
<1>4. CASE p.at.state = "payload"
  <2>1. q \in {P!Reset(p), Left("crc", << >>), Left("crc", <<b>>),
               Left("crc", Append(p.at.payload, b))}
    BY <1>4 DEF P!Torn
  <2> HIDE DEF Left
  <2> QED BY <1>1, <1>2, <1>4, <2>1
<1>5. CASE p.at.state = "crc"
  <2>1. \/ q \in {P!Reset(p), P!Step(p, b), P!Refuse(p)}
        \/ P!Matches(p, b) /\ q = P!Deliver(p, << >>)
    BY <1>5 DEF P!Torn
  <2> QED BY <1>2, <1>5, <2>1
<1>6. CASE p.at.state \notin {"length", "payload", "crc"}
  <2>1. q \in {P!Reset(p), P!Step(p, b)}
    BY <1>6 DEF P!Torn
  <2> QED BY <1>2, <2>1
<1> QED BY <1>3, <1>4, <1>5, <1>6

LEMMA TornShape ==
  ASSUME NEW p, Shape(p), NEW b, NEW q \in P!Torn(p, b)
  PROVE  Shape(q)
<1>1. Shape(P!Step(p, b)) /\ Shape(P!Refuse(p)) /\ Shape(P!Deliver(p, << >>))
  BY StepShape, RefuseShape, DeliverShape
<1>2. ASSUME NEW s \in {"sof", "crc", "payload"}, NEW x
      PROVE  Shape(Made(p.stats, s, p.at.type, 0, x, p.out))
  BY MadeShape DEF States
<1>3. Remains(p, b, q)
  BY TornCases
<1> QED BY <1>1, <1>2, <1>3 DEF Remains

LEMMA BusErrorStep == ASSUME RxInv, BusError PROVE RxInv'
<1> USE DEF RxInv
<1>1. Shape(parser') /\ ~P!InFrame(parser')
  BY ResetShape DEF BusError, Watched, P!InFrame
<1>2. wire # << >> /\ wire' = Tail(wire) /\ UNCHANGED <<sent, ring, chunk, rxWork, idleTimer>>
  BY DEF BusError, BusFails
<1>3. wire' \in Seq(Symbols)
  BY <1>2, TailType DEF SymbolsType
<1>4. SymbolsType' /\ Watched'
  BY <1>1, <1>2, <1>3 DEF SymbolsType, Watched
<1> QED BY <1>4

LEMMA BusErrorInFeedStep == ASSUME RxInv, BusErrorInFeed PROVE RxInv'
<1> USE DEF RxInv
<1>1. /\ wire # << >> /\ wire' = Tail(wire) /\ UNCHANGED <<sent, ring, rxWork, idleTimer>>
      /\ chunk # << >> /\ chunk' = Tail(chunk) /\ parser' \in P!Torn(parser, Head(chunk))
  BY DEF BusErrorInFeed, BusFails
<1>2. wire' \in Seq(Symbols) /\ chunk' \in Seq(Symbols) /\ Len(chunk') <= ChunkSize
  <2>1. wire' \in Seq(Symbols)
    BY <1>1, TailType DEF SymbolsType
  <2>2. chunk' \in Seq(Symbols) /\ Len(chunk') = Len(chunk) - 1
    BY <1>1, TailType DEF SymbolsType
  <2>3. Len(chunk) \in Nat /\ Len(chunk) <= ChunkSize
    BY DEF SymbolsType
  <2> QED BY <2>1, <2>2, <2>3, Bounds
<1>3. Shape(parser') /\ rxWork
  BY <1>1, TornShape DEF Watched
<1>4. SymbolsType' /\ Watched'
  BY <1>1, <1>2, <1>3 DEF SymbolsType, Watched
<1> QED BY <1>4

LEMMA RxTakeStep == ASSUME RxInv, RxTake PROVE RxInv'
<1> USE DEF RxInv
<1>1. chunk' = Take(ring, ChunkSize) /\ ring' = Drop(ring, ChunkSize) /\ rxWork
      /\ UNCHANGED <<wire, sent, rxWork, idleTimer, parser>>
  BY DEF RxTake
<1>2. chunk' \in Seq(Symbols) /\ Len(chunk') <= ChunkSize
  BY <1>1, TakeType, Bounds DEF SymbolsType
<1>3. ring' \in Seq(Symbols) /\ Len(ring') <= RingSize
  <2>1. Drop(ring, ChunkSize) \in Seq(Symbols) /\ Len(Drop(ring, ChunkSize)) <= Len(ring)
    BY DropType, Bounds DEF SymbolsType
  <2> QED BY <1>1, <2>1, Bounds DEF SymbolsType
<1>4. SymbolsType' /\ Watched'
  BY <1>1, <1>2, <1>3 DEF SymbolsType, Watched
<1> QED BY <1>4

LEMMA RxFeedStep == ASSUME RxInv, RxFeed PROVE RxInv'
<1> USE DEF RxInv
<1>1. chunk # << >> /\ chunk' = Tail(chunk) /\ parser' = P!Step(parser, Head(chunk))
      /\ UNCHANGED <<wire, sent, ring, rxWork, idleTimer>>
  BY DEF RxFeed
<1>2. chunk' \in Seq(Symbols) /\ Len(chunk') <= ChunkSize
  BY <1>1, TailType, Bounds DEF SymbolsType
<1>3. Shape(parser') /\ rxWork
  BY <1>1, StepShape DEF Watched
<1>4. SymbolsType' /\ Watched'
  BY <1>1, <1>2, <1>3 DEF SymbolsType, Watched
<1> QED BY <1>4

LEMMA RxDoneStep == ASSUME RxInv, RxDone PROVE RxInv'
BY DEF RxInv, RxDone, SymbolsType, Watched

LEMMA IdleTimeoutStep == ASSUME RxInv, IdleTimeout PROVE RxInv'
<1> USE DEF RxInv
<1>1. Shape(parser') /\ ~P!InFrame(parser')
  BY TimedOutShape DEF IdleTimeout, Watched, P!InFrame
<1>2. UNCHANGED <<wire, sent, ring, chunk, rxWork>>
  BY DEF IdleTimeout
<1>3. SymbolsType' /\ Watched'
  BY <1>1, <1>2 DEF SymbolsType, Watched
<1> QED BY <1>3

-----------------------------------------------------------------------------
(* The transmitter.                                                        *)

LEMMA TxUnchanged == ASSUME TxInv, UNCHANGED txVars PROVE TxInv'
BY DEF TxInv, txVars, RepliesAccounted, RepliesNotForgotten

LEMMA SendStep == ASSUME TxInv, Send PROVE TxInv'
<1> DEFINE frames == tx.frames  dropped == tx.dropped  asked == tx.asked  n == Len(txQueue)
<1>1. /\ frames \in Nat /\ dropped \in Nat /\ asked \in Nat /\ n \in Nat /\ n <= TxDepth
      /\ asked = frames + dropped + n
  BY DEF TxInv, RepliesAccounted
<1>2. CASE n < TxDepth
  <2>1. /\ txQueue' = Append(txQueue, asked + 1) /\ txWork' = TRUE
        /\ tx' = [frames |-> frames, dropped |-> dropped, asked |-> asked + 1]
    BY <1>2 DEF Send, TxInv
  <2> HIDE DEF frames, dropped, asked
  <2>2. txQueue' \in Seq(Nat) /\ Len(txQueue') = n + 1
    BY <1>1, <2>1 DEF TxInv
  <2> HIDE DEF n
  <2>3. /\ Len(txQueue') <= TxDepth /\ asked + 1 = frames + dropped + Len(txQueue')
        /\ asked + 1 \in Nat
    BY <1>1, <1>2, <2>2, Bounds
  <2> QED BY <1>1, <2>1, <2>2, <2>3 DEF TxInv, RepliesAccounted, RepliesNotForgotten
<1>3. CASE ~(n < TxDepth)
  <2>1. /\ UNCHANGED <<txQueue, txWork, txBusy, txFailed>>
        /\ tx' = [frames |-> frames, dropped |-> dropped + 1, asked |-> asked + 1]
    BY <1>3 DEF Send, TxInv
  <2>2. txQueue' \in Seq(Nat) /\ Len(txQueue') = n /\ RepliesNotForgotten'
    BY <2>1 DEF TxInv, RepliesNotForgotten
  <2> HIDE DEF frames, dropped, asked, n
  <2>3. /\ asked + 1 = (frames + (dropped + 1)) + Len(txQueue')
        /\ asked + 1 \in Nat /\ dropped + 1 \in Nat
    BY <1>1, <2>2
  <2> QED BY <1>1, <2>1, <2>2, <2>3 DEF TxInv, RepliesAccounted
<1> QED BY <1>2, <1>3

LEMMA TxWorkStep == ASSUME TxInv, TxWork PROVE TxInv'
<1>1. CASE txBusy \/ txQueue = << >>
  BY <1>1 DEF TxWork, TxInv, RepliesAccounted, RepliesNotForgotten
<1>2. CASE ~(txBusy \/ txQueue = << >>)
  <2> DEFINE frames == tx.frames  dropped == tx.dropped  asked == tx.asked  n == Len(txQueue)
  <2>1. /\ frames \in Nat /\ dropped \in Nat /\ asked \in Nat /\ n \in Nat /\ n <= TxDepth
        /\ asked = frames + dropped + n
    BY DEF TxInv, RepliesAccounted
  <2>2. /\ txQueue' = Tail(txQueue) /\ txQueue # << >>
        /\ \/ txBusy' = TRUE /\ tx' = [frames |-> frames + 1, dropped |-> dropped, asked |-> asked]
           \/ txFailed' = TRUE /\ tx' = [frames |-> frames, dropped |-> dropped + 1, asked |-> asked]
    BY <1>2 DEF TxWork, TxInv
  <2>3. txQueue' \in Seq(Nat) /\ Len(txQueue') = n - 1
    BY <2>2, TailType DEF TxInv
  <2>4. RepliesNotForgotten'
    BY <2>2 DEF RepliesNotForgotten
  <2> HIDE DEF frames, dropped, asked, n
  <2>5. /\ Len(txQueue') <= TxDepth
        /\ asked = ((frames + 1) + dropped) + Len(txQueue')
        /\ asked = (frames + (dropped + 1)) + Len(txQueue')
        /\ frames + 1 \in Nat /\ dropped + 1 \in Nat
    BY <2>1, <2>3, Bounds
  <2>6. CASE tx' = [frames |-> frames + 1, dropped |-> dropped, asked |-> asked]
    BY <2>1, <2>3, <2>4, <2>5, <2>6 DEF TxInv, RepliesAccounted
  <2>7. CASE tx' = [frames |-> frames, dropped |-> dropped + 1, asked |-> asked]
    BY <2>1, <2>3, <2>4, <2>5, <2>7 DEF TxInv, RepliesAccounted
  <2> QED BY <2>2, <2>6, <2>7
<1> QED BY <1>1, <1>2

LEMMA TxDoneStep == ASSUME TxInv, TxDone PROVE TxInv'
BY DEF TxInv, TxDone, RepliesAccounted, RepliesNotForgotten

-----------------------------------------------------------------------------
(* The theorem.                                                            *)

LEMMA NextIInv == ASSUME IInv, [Next]_vars PROVE IInv'
<1> USE DEF IInv
<1>1. Flags'
  BY FlagsStep
<1>2. CASE UNCHANGED vars
  <2>1. RxInv'
    BY <1>2 DEF RxInv, vars, SymbolsType, Watched
  <2>2. TxInv'
    BY <1>2, TxUnchanged DEF vars, txVars
  <2> QED BY <1>1, <2>1, <2>2
<1>3. CASE HostSends \/ BusError \/ RxReady \/ RxTake \/ RxDone \/ IdleTimeout
  <2>1. RxInv'
    BY <1>3, HostSendsStep, BusErrorStep, RxReadyStep, RxTakeStep, RxDoneStep, IdleTimeoutStep
  <2>2. UNCHANGED txVars
    BY <1>3 DEF HostSends, BusError, RxReady, RxTake, RxDone, IdleTimeout
  <2> QED BY <1>1, <2>1, <2>2, TxUnchanged
<1>4. CASE RxFeed \/ BusErrorInFeed
  <2>1. Send \/ UNCHANGED txVars
    BY <1>4 DEF RxFeed, BusErrorInFeed
  <2> QED BY <1>1, <1>4, <2>1, RxFeedStep, BusErrorInFeedStep, SendStep, TxUnchanged
<1>5. CASE TxWork \/ TxDone
  <2>1. UNCHANGED <<wire, sent, ring, chunk, rxWork, idleTimer, parser>>
    BY <1>5 DEF TxWork, TxDone, rxVars
  <2>2. RxInv'
    BY <2>1 DEF RxInv, SymbolsType, Watched
  <2> QED BY <1>1, <1>5, <2>2, TxWorkStep, TxDoneStep
<1> QED BY <1>2, <1>3, <1>4, <1>5 DEF Next, Receive

\* Between two frames the link keeps its promises, for any sizes of its ring,
\* chunk and queue, any frames and any faults: a parser that was left inside a
\* frame has a timer or a work item to bring it back, and every reply asked for
\* is sent, counted as dropped, or queued with something that will send it
\* (rx_work_handler, idle_work_handler, uart_link_send, tx_work_handler).
THEOREM LinkKeepsItsPromises == Spec => []UartInv
<1>1. Init => IInv
  BY InitialIInv
<1>2. IInv /\ [Next]_vars => IInv'
  BY NextIInv
<1>3. IInv => UartInv
  <2> SUFFICES ASSUME IInv PROVE UartInv
    OBVIOUS
  <2>1. TypeOK
    BY DEF IInv, RxInv, SymbolsType, Watched, Shape, States, Flags, TxInv, TypeOK
  <2>2. QuietIsSynchronised
    BY DEF IInv, RxInv, Watched, QuietIsSynchronised, AtRest
  <2> QED BY <2>1, <2>2 DEF IInv, TxInv, UartInv
<1> QED BY <1>1, <1>2, <1>3, PTL DEF Spec

-----------------------------------------------------------------------------
(* What is delivered was sent.  A checksum is the checksum of one frame,   *)
(* and only what carries a checksum is delivered; so what has to be        *)
(* followed is where the checksums on their way to the board come from.    *)

\* What the parser holds, and how much of it.
Parsed(p) ==
  /\ p.out \in Seq(Nat \X Seq(Symbols))
  /\ p.at.type \in Nat /\ p.at.payload \in Seq(Symbols)
  /\ Len(p.at.payload) <= MaxPayload
  /\ p.at.state = "payload" =>
       /\ p.at.expected \in Nat /\ p.at.expected <= MaxPayload
       /\ Len(p.at.payload) < p.at.expected \/ p.at.payload = << >>

IsSum(b) == b.of # << >>

\* g says for each checksum of s which of the frames in from it is the sum of.
\* They are in the order of the frames, each at most once.
Places(s, from, g) ==
  /\ \A i \in 1 .. Len(s) : IsSum(s[i]) => g[i] \in 1 .. Len(from) /\ s[i] = SumOf(from[g[i]])
  /\ \A i, j \in 1 .. Len(s) : i < j /\ IsSum(s[i]) /\ IsSum(s[j]) => g[i] < g[j]

Traced(s, from) == \E g \in [1 .. Len(s) -> Nat] : Places(s, from, g)

\* The checksums m stand for the frames delivered: each is the sum of one, and
\* the frames of cut, at most n, have lost their payload.
Accounts(m, cut, out, n) ==
  /\ m \in Seq(Symbols) /\ Len(m) = Len(out)
  /\ n \in Nat /\ cut \subseteq 1 .. Len(out) /\ Cardinality(cut) <= n
  /\ \A i \in 1 .. Len(out) :
       \E f \in Frames : m[i] = SumOf(f) /\ out[i] = (IF i \in cut THEN Emptied(f) ELSE f)

\* The checksums of the frames delivered, then what is on its way to the parser.
Rest == chunk \o (ring \o wire)
Following ==
  \E m \in Seq(Symbols), cut \in SUBSET Nat :
    Accounts(m, cut, parser.out, faults) /\ Traced(m \o Rest, sent)

LEMMA SymbolShape ==
  ASSUME NEW b \in Symbols
  PROVE  b.n \in Nat /\ (IsSum(b) => \E f \in Frames : b = SumOf(f))
<1>1. CASE b \in Bytes
  BY <1>1 DEF Bytes, P!Byte, IsSum
<1>2. CASE b \notin Bytes
  BY <1>2, Bounds DEF Symbols, SumOf, P!Crc
<1> QED BY <1>1, <1>2

LEMMA ByteIsNoSum == ASSUME NEW b \in Bytes PROVE ~IsSum(b)
BY DEF Bytes, P!Byte, IsSum

LEMMA SumIsSum == ASSUME NEW f PROVE IsSum(SumOf(f))
BY DEF SumOf, P!Crc, IsSum

\* A checksum has one frame.
LEMMA SumsDiffer ==
  ASSUME NEW f, NEW t, NEW n, NEW p, SumOf(f) = P!Crc(t, n, p)
  PROVE  f[1] = t /\ f[2] = p /\ Len(f[2]) = n
<1> DEFINE x == <<f[1], Len(f[2]), f[2]>>  y == <<t, n, p>>
<1>1. x = y
  BY DEF SumOf, P!Crc
<1>2. x[1] = f[1] /\ x[2] = Len(f[2]) /\ x[3] = f[2] /\ y[1] = t /\ y[2] = n /\ y[3] = p
  OBVIOUS
<1> HIDE DEF x, y
<1> QED BY <1>1, <1>2

\* What is left of a traced sequence when part of it is lost is traced.
LEMMA TracedPart ==
  ASSUME NEW S, NEW a \in Seq(S), NEW b \in Seq(S), NEW c \in Seq(S), NEW from,
         Traced(a \o (b \o c), from)
  PROVE  Traced(a \o c, from)
<1> DEFINE s == a \o (b \o c)  z == a \o c  k == Len(a)  m == Len(b)  l == Len(c)
           h == [i \in 1 .. k + l |-> IF i <= k THEN i ELSE i + m]
<1>1. /\ k \in Nat /\ m \in Nat /\ l \in Nat /\ Len(s) = k + (m + l) /\ Len(z) = k + l
      /\ \A i \in 1 .. k + l : z[i] = s[IF i <= k THEN i ELSE i + m]
  OBVIOUS
<1>2. PICK g \in [1 .. Len(s) -> Nat] : Places(s, from, g)
  BY DEF Traced
<1> HIDE DEF s, z, k, m, l
<1>3. \A i \in 1 .. Len(z) : h[i] \in 1 .. Len(s) /\ z[i] = s[h[i]]
  BY <1>1
<1>4. \A i, j \in 1 .. Len(z) : i < j => h[i] < h[j]
  BY <1>1
<1> DEFINE y == [i \in 1 .. Len(z) |-> g[h[i]]]
<1>5. y \in [1 .. Len(z) -> Nat]
  BY <1>3
<1> HIDE DEF h
<1>6. Places(z, from, y)
  <2>1. ASSUME NEW i \in 1 .. Len(z), IsSum(z[i])
        PROVE  y[i] \in 1 .. Len(from) /\ z[i] = SumOf(from[y[i]])
    BY <1>2, <1>3, <2>1 DEF Places
  <2>2. ASSUME NEW i \in 1 .. Len(z), NEW j \in 1 .. Len(z), i < j, IsSum(z[i]), IsSum(z[j])
        PROVE  y[i] < y[j]
    <3>1. /\ h[i] \in 1 .. Len(s) /\ h[j] \in 1 .. Len(s) /\ h[i] < h[j]
          /\ IsSum(s[h[i]]) /\ IsSum(s[h[j]])
      BY <1>3, <1>4, <2>2
    <3>2. g[h[i]] < g[h[j]]
      BY <1>2, <3>1 DEF Places
    <3> QED BY <3>2
  <2> QED BY <2>1, <2>2 DEF Places
<1>7. Traced(z, from)
  BY <1>5, <1>6 DEF Traced
<1> QED BY <1>7 DEF z

LEMMA LastOfThree ==
  ASSUME NEW S, NEW s \in Seq(S), NEW h \in Seq(S), NEW b \in S
  PROVE  LET z == s \o (h \o <<b>>)
             k == Len(s)
             m == Len(h)
         IN  /\ k \in Nat /\ m \in Nat /\ Len(z) = k + m + 1
             /\ \A i \in 1 .. k : z[i] = s[i]
             /\ \A i \in k + 1 .. k + m : z[i] = h[i - k] /\ i - k \in 1 .. m
             /\ z[k + m + 1] = b
OBVIOUS

\* A new frame has its checksum last, and its own place.
LEMMA TracedFrame ==
  ASSUME NEW s \in Seq(Symbols), NEW from \in Seq(Frames), Traced(s, from),
         NEW t \in {Ping, Command}, NEW p, <<t, p>> \in Frames
  PROVE  Traced(s \o P!Frame(t, p), Append(from, <<t, p>>))
<1> DEFINE f == <<t, p>>  u == Append(from, f)  w == P!Frame(t, p)  z == s \o w
           head == <<P!Byte(P!SOF), P!Byte(t), P!Byte(Len(p))>> \o p
           k == Len(s)  m == Len(head)  n == Len(from) + 1
<1>1. f \in Frames /\ p \in Seq(Bytes) /\ Len(p) \in Nat
  BY DEF Frames
<1>2. head \in Seq(Bytes)
  <2> DEFINE b1 == P!Byte(P!SOF)  b2 == P!Byte(t)  b3 == P!Byte(Len(p))
  <2>1. b1 \in Bytes /\ b2 \in Bytes /\ b3 \in Bytes
    BY <1>1, Bounds DEF Bytes, P!SOF
  <2> HIDE DEF b1, b2, b3
  <2>2. <<b1, b2, b3>> \o p \in Seq(Bytes)
    BY <1>1, <2>1
  <2> QED BY <2>2 DEF b1, b2, b3
<1>3. w = head \o <<SumOf(f)>>
  BY DEF P!Frame, SumOf
<1> DEFINE b == SumOf(f)
<1>4. b \in Symbols /\ head \in Seq(Symbols)
  <2>1. b \in Symbols
    BY <1>1 DEF Symbols
  <2> HIDE DEF head, b
  <2>2. head \in Seq(Symbols)
    BY <1>2 DEF Symbols
  <2> QED BY <2>1, <2>2
<1> HIDE DEF f, head, b, k, m
<1>5. /\ u \in Seq(Frames) /\ Len(u) = n /\ u[n] = f /\ n \in Nat
      /\ \A i \in 1 .. Len(from) : u[i] = from[i]
  BY <1>1
<1> HIDE DEF u, n
<1>6. /\ k \in Nat /\ m \in Nat /\ Len(z) = k + m + 1
      /\ \A i \in 1 .. k : z[i] = s[i]
      /\ \A i \in k + 1 .. k + m : z[i] \in Bytes
      /\ z[k + m + 1] = b
  <2>1. z = s \o (head \o <<b>>)
    BY <1>3 DEF b
  <2> HIDE DEF z
  <2>2. /\ k \in Nat /\ m \in Nat /\ Len(z) = k + m + 1
        /\ \A i \in 1 .. k : z[i] = s[i]
        /\ \A i \in k + 1 .. k + m : z[i] = head[i - k] /\ i - k \in 1 .. m
        /\ z[k + m + 1] = b
    BY <1>4, <2>1, LastOfThree DEF k, m
  <2>3. \A i \in 1 .. m : head[i] \in Bytes
    BY <1>2 DEF m
  <2> QED BY <2>2, <2>3
<1>7. PICK g \in [1 .. k -> Nat] : Places(s, from, g)
  BY DEF Traced, k
<1> DEFINE y == [i \in 1 .. Len(z) |-> IF i <= k THEN g[i] ELSE n]
<1> HIDE DEF w, z
<1>8. y \in [1 .. Len(z) -> Nat]
  BY <1>5, <1>6
<1> HIDE DEF y
<1>9. \A i \in 1 .. Len(z) : IsSum(z[i]) => i <= k \/ i = k + m + 1
  <2> SUFFICES ASSUME NEW i \in 1 .. Len(z), IsSum(z[i]), ~(i <= k), i # k + m + 1 PROVE FALSE
    OBVIOUS
  <2>1. i \in k + 1 .. k + m
    BY <1>6
  <2> QED BY <1>6, <2>1, ByteIsNoSum
<1> USE DEF y
<1>10. Places(z, u, y)
  <2>1. ASSUME NEW i \in 1 .. Len(z), IsSum(z[i])
        PROVE  y[i] \in 1 .. Len(u) /\ z[i] = SumOf(u[y[i]])
    <3>1. CASE i <= k
      <4>1. i \in 1 .. k /\ z[i] = s[i] /\ y[i] = g[i]
        BY <1>6, <3>1
      <4>2. g[i] \in 1 .. Len(from) /\ s[i] = SumOf(from[g[i]])
        BY <1>7, <2>1, <4>1 DEF Places, k
      <4>3. Len(from) \in Nat /\ n = Len(from) + 1
        BY DEF n
      <4> QED BY <1>5, <4>1, <4>2, <4>3
    <3>2. CASE ~(i <= k)
      <4>1. i = k + m + 1 /\ y[i] = n
        BY <1>9, <2>1, <3>2
      <4>2. n \in 1 .. Len(u)
        BY <1>5 DEF n
      <4> QED BY <1>5, <1>6, <4>1, <4>2 DEF b
    <3> QED BY <3>1, <3>2
  <2>2. ASSUME NEW i \in 1 .. Len(z), NEW j \in 1 .. Len(z), i < j, IsSum(z[i]), IsSum(z[j])
        PROVE  y[i] < y[j]
    <3>1. i <= k
      BY <1>6, <1>9, <2>2
    <3>2. i \in 1 .. k /\ z[i] = s[i] /\ y[i] = g[i] /\ g[i] \in 1 .. Len(from)
      <4>1. i \in 1 .. k /\ z[i] = s[i] /\ y[i] = g[i]
        BY <1>6, <3>1
      <4> QED BY <1>7, <2>2, <4>1 DEF Places, k
    <3>3. CASE j <= k
      <4>1. j \in 1 .. k /\ z[j] = s[j] /\ y[j] = g[j]
        BY <1>6, <3>3
      <4> QED BY <1>7, <2>2, <3>2, <4>1 DEF Places, k
    <3>4. CASE ~(j <= k)
      <4>1. y[j] = n /\ n = Len(from) + 1 /\ Len(from) \in Nat
        BY <3>4 DEF n
      <4> QED BY <3>2, <4>1
    <3> QED BY <3>3, <3>4
  <2> QED BY <2>1, <2>2 DEF Places
<1>11. Traced(z, u)
  BY <1>8, <1>10 DEF Traced
<1> QED BY <1>11 DEF z, w, u, f

-----------------------------------------------------------------------------
(* What a symbol does to a parser, field by field.                         *)

LEMMA MadeFields ==
  ASSUME NEW stats, NEW s, NEW t, NEW n, NEW b, NEW out
  PROVE  LET p == Made(stats, s, t, n, b, out)
         IN  /\ p.stats = stats /\ p.out = out /\ p.at.state = s
             /\ p.at.type = t /\ p.at.expected = n /\ p.at.payload = b
BY DEF Made

LEMMA StepSof ==
  ASSUME NEW p, Shape(p), NEW b, p.at.state = "sof"
  PROVE  P!Step(p, b) = Made(p.stats, IF b.n = P!SOF THEN "type" ELSE "sof", p.at.type,
                             p.at.expected, p.at.payload, p.out)
<1>1. P!Step(p, b) = P!Sof(p, b)
  BY DEF P!Step
<1> QED BY <1>1 DEF Shape, Made, P!Sof, P!At

LEMMA AtFields ==
  ASSUME NEW p, Shape(p), NEW s
  PROVE  P!At(p, s) = Made(p.stats, s, p.at.type, p.at.expected, p.at.payload, p.out)
BY DEF Shape, Made, P!At

\* One field written, the others kept.
WithType(p, x) == [p EXCEPT !.at.type = x]
WithExpected(p, x) == [p EXCEPT !.at.expected = x]
WithPayload(p, x) == [p EXCEPT !.at.payload = x]
WithOut(p, x) == [p EXCEPT !.out = x]

LEMMA Edited ==
  ASSUME NEW p, NEW stats, NEW s, NEW t, NEW n, NEW b, NEW out, p = Made(stats, s, t, n, b, out),
         NEW x
  PROVE  /\ WithType(p, x) = Made(stats, s, x, n, b, out)
         /\ WithExpected(p, x) = Made(stats, s, t, x, b, out)
         /\ WithPayload(p, x) = Made(stats, s, t, n, x, out)
         /\ WithOut(p, x) = Made(stats, s, t, n, b, x)
         /\ P!At(p, x) = Made(stats, x, t, n, b, out)
<1>1. WithType(p, x) = Made(stats, s, x, n, b, out)
  BY DEF Made, WithType
<1>2. WithExpected(p, x) = Made(stats, s, t, x, b, out)
  BY DEF Made, WithExpected
<1>3. WithPayload(p, x) = Made(stats, s, t, n, x, out)
  BY DEF Made, WithPayload
<1>4. WithOut(p, x) = Made(stats, s, t, n, b, x)
  BY DEF Made, WithOut
<1>5. P!At(p, x) = Made(stats, x, t, n, b, out)
  BY DEF Made, P!At
<1> QED BY <1>1, <1>2, <1>3, <1>4, <1>5

LEMMA CountingFields ==
  ASSUME NEW p, Shape(p), NEW f
  PROVE  \E stats : P!Counting(p, f) = Made(stats, p.at.state, p.at.type, p.at.expected,
                                             p.at.payload, p.out)
<1> WITNESS [p.stats EXCEPT ![f] = @ + 1]
<1> QED BY DEF Shape, Made, P!Counting

LEMMA ResyncFields ==
  ASSUME NEW p, Shape(p)
  PROVE  \E stats : P!Resync(p) = Made(stats, "sof", p.at.type, p.at.expected, p.at.payload, p.out)
<1> DEFINE r == P!At(p, "sof")
<1>1. r = Made(p.stats, "sof", p.at.type, p.at.expected, p.at.payload, p.out) /\ Shape(r)
  BY AtFields, AtShape DEF States
<1>2. P!Resync(p) = P!Counting(r, "resyncs")
  BY DEF P!Resync
<1> HIDE DEF r
<1>3. /\ r.at.state = "sof" /\ r.at.type = p.at.type /\ r.at.expected = p.at.expected
      /\ r.at.payload = p.at.payload /\ r.out = p.out
  BY <1>1, MadeFields
<1>4. \E stats : P!Counting(r, "resyncs") = Made(stats, r.at.state, r.at.type, r.at.expected,
                                                 r.at.payload, r.out)
  BY <1>1, CountingFields
<1> QED BY <1>2, <1>3, <1>4

LEMMA StepType ==
  ASSUME NEW p, Shape(p), NEW b, p.at.state = "type"
  PROVE  IF b.n \in {Ping, Command}
         THEN P!Step(p, b) = Made(p.stats, "length", b.n, p.at.expected, p.at.payload, p.out)
         ELSE \E stats : P!Step(p, b) = Made(stats, "sof", p.at.type, p.at.expected,
                                              p.at.payload, p.out)
<1>1. P!Step(p, b) = P!Type(p, b)
  BY DEF P!Step
<1>2. CASE b.n \in {Ping, Command}
  <2> DEFINE a == P!At(p, "length")
  <2>1. P!Type(p, b) = WithType(a, b.n)
    BY <1>2 DEF P!Type, WithType
  <2>2. a = Made(p.stats, "length", p.at.type, p.at.expected, p.at.payload, p.out)
    BY AtFields
  <2> HIDE DEF a
  <2>3. WithType(a, b.n) = Made(p.stats, "length", b.n, p.at.expected, p.at.payload, p.out)
    BY <2>2, Edited
  <2> QED BY <1>1, <1>2, <2>1, <2>3
<1>3. CASE b.n \notin {Ping, Command}
  <2>1. P!Type(p, b) = P!Resync(p)
    BY <1>3 DEF P!Type
  <2> QED BY <1>1, <1>3, <2>1, ResyncFields
<1> QED BY <1>2, <1>3

LEMMA StepLength ==
  ASSUME NEW p, Shape(p), NEW b, p.at.state = "length"
  PROVE  IF b.n > LengthCap(p.at.type) \/ b.n > MaxPayload
         THEN \E stats : P!Step(p, b) = Made(stats, "sof", p.at.type, p.at.expected,
                                              p.at.payload, p.out)
         ELSE P!Step(p, b) = Made(p.stats, IF b.n = 0 THEN "crc" ELSE "payload", p.at.type,
                                  b.n, << >>, p.out)
<1> DEFINE long == b.n > LengthCap(p.at.type) \/ b.n > MaxPayload
<1>1. P!Step(p, b) = P!Length(p, b)
  BY DEF P!Step
<1>2. CASE long
  <2> DEFINE r == P!Resync(p)
  <2>1. P!Length(p, b) = P!Counting(r, "len")
    BY <1>2 DEF P!Length
  <2>2. PICK stats : r = Made(stats, "sof", p.at.type, p.at.expected, p.at.payload, p.out)
    BY ResyncFields
  <2>3. Shape(r)
    BY ResyncShape
  <2> HIDE DEF r
  <2>4. /\ r.at.state = "sof" /\ r.at.type = p.at.type /\ r.at.expected = p.at.expected
        /\ r.at.payload = p.at.payload /\ r.out = p.out
    BY <2>2, MadeFields
  <2>5. PICK more : P!Counting(r, "len") = Made(more, r.at.state, r.at.type, r.at.expected,
                                                r.at.payload, r.out)
    BY <2>3, CountingFields
  <2> QED BY <1>1, <1>2, <2>1, <2>4, <2>5
<1>3. CASE ~long
  <2> DEFINE s == IF b.n = 0 THEN "crc" ELSE "payload"
  <2> DEFINE a == P!At(p, s)  e == WithExpected(a, b.n)
  <2>1. P!Length(p, b) = WithPayload(e, << >>)
    BY <1>3 DEF P!Length, WithExpected, WithPayload
  <2> HIDE DEF s
  <2>2. a = Made(p.stats, s, p.at.type, p.at.expected, p.at.payload, p.out)
    BY AtFields
  <2> HIDE DEF a
  <2>3. e = Made(p.stats, s, p.at.type, b.n, p.at.payload, p.out)
    BY <2>2, Edited
  <2> HIDE DEF e
  <2>4. WithPayload(e, << >>) = Made(p.stats, s, p.at.type, b.n, << >>, p.out)
    BY <2>3, Edited
  <2> QED BY <1>1, <1>3, <2>1, <2>4 DEF s
<1> QED BY <1>2, <1>3

LEMMA StepPayload ==
  ASSUME NEW p, Shape(p), NEW b, p.at.state = "payload"
  PROVE  LET x == Append(p.at.payload, b)
         IN  P!Step(p, b) = Made(p.stats, IF Len(x) >= p.at.expected THEN "crc" ELSE "payload",
                                 p.at.type, p.at.expected, x, p.out)
<1> DEFINE x == Append(p.at.payload, b)
           q == Made(p.stats, "payload", p.at.type, p.at.expected, x, p.out)
<1>1. P!Step(p, b) = P!Payload(p, b)
  BY DEF P!Step
<1> HIDE DEF x
<1>2. WithPayload(p, x) = q
  <2>1. p = Made(p.stats, "payload", p.at.type, p.at.expected, p.at.payload, p.out)
    BY DEF Shape
  <2> QED BY <2>1, Edited
<1> USE DEF x
<1>3. P!Payload(p, b) = IF Len(q.at.payload) >= p.at.expected THEN P!At(q, "crc") ELSE q
  BY <1>2 DEF P!Payload, WithPayload
<1>4. q.at.payload = x
  BY DEF Made
<1>5. P!At(q, "crc") = Made(p.stats, "crc", p.at.type, p.at.expected, x, p.out)
  BY Edited
<1> HIDE DEF q
<1>6. P!Step(p, b) = IF Len(x) >= p.at.expected THEN P!At(q, "crc") ELSE q
  BY <1>1, <1>3, <1>4
<1> QED BY <1>5, <1>6 DEF q

LEMMA RefuseFields ==
  ASSUME NEW p, Shape(p)
  PROVE  \E stats :
           P!Refuse(p) = Made(stats, "sof", p.at.type, p.at.expected, p.at.payload, p.out)
<1> DEFINE r == P!Resync(p)
<1>1. P!Refuse(p) = P!Counting(r, "crc")
  BY DEF P!Refuse
<1>2. PICK stats : r = Made(stats, "sof", p.at.type, p.at.expected, p.at.payload, p.out)
  BY ResyncFields
<1>3. Shape(r)
  BY ResyncShape
<1> HIDE DEF r
<1>4. /\ r.at.state = "sof" /\ r.at.type = p.at.type /\ r.at.expected = p.at.expected
      /\ r.at.payload = p.at.payload /\ r.out = p.out
  BY <1>2, MadeFields
<1>5. PICK more : P!Counting(r, "crc") = Made(more, r.at.state, r.at.type, r.at.expected,
                                              r.at.payload, r.out)
  BY <1>3, CountingFields
<1> QED BY <1>1, <1>4, <1>5

LEMMA DeliverFields ==
  ASSUME NEW p, Shape(p), NEW payload
  PROVE  \E stats :
           P!Deliver(p, payload) = Made(stats, "sof", p.at.type, p.at.expected, p.at.payload,
                                        Append(p.out, <<p.at.type, payload>>))
<1> DEFINE r == P!At(p, "sof")  c == P!Counting(r, "ok")
           x == Append(p.out, <<p.at.type, payload>>)
<1>1. r = Made(p.stats, "sof", p.at.type, p.at.expected, p.at.payload, p.out) /\ Shape(r)
  BY AtFields, AtShape DEF States
<1>2. P!Deliver(p, payload) = [c EXCEPT !.out = Append(@, <<p.at.type, payload>>)]
  BY DEF P!Deliver
<1> HIDE DEF r
<1>3. /\ r.at.state = "sof" /\ r.at.type = p.at.type /\ r.at.expected = p.at.expected
      /\ r.at.payload = p.at.payload /\ r.out = p.out
  BY <1>1, MadeFields
<1>4. PICK stats : c = Made(stats, "sof", p.at.type, p.at.expected, p.at.payload, p.out)
  <2>1. \E stats : c = Made(stats, r.at.state, r.at.type, r.at.expected, r.at.payload, r.out)
    BY <1>1, CountingFields
  <2> QED BY <1>3, <2>1
<1> HIDE DEF c
<1>5. c.out = p.out
  BY <1>4, MadeFields
<1>6. P!Deliver(p, payload) = WithOut(c, x)
  BY <1>2, <1>5 DEF WithOut
<1> HIDE DEF x
<1>7. WithOut(c, x) = Made(stats, "sof", p.at.type, p.at.expected, p.at.payload, x)
  BY <1>4, Edited
<1> QED BY <1>6, <1>7 DEF x

LEMMA StepCheck ==
  ASSUME NEW p, Shape(p), NEW b, p.at.state = "crc"
  PROVE  \E stats :
           P!Step(p, b) = Made(stats, "sof", p.at.type, p.at.expected, p.at.payload,
             IF b = P!Crc(p.at.type, p.at.expected, p.at.payload)
             THEN Append(p.out, <<p.at.type, p.at.payload>>) ELSE p.out)
<1>1. P!Step(p, b) = P!Check(p, b)
  BY DEF P!Step
<1>2. CASE P!Matches(p, b)
  <2>1. P!Step(p, b) = P!Deliver(p, p.at.payload)
    BY <1>1, <1>2 DEF P!Check
  <2>2. b = P!Crc(p.at.type, p.at.expected, p.at.payload)
    BY <1>2 DEF P!Matches
  <2> QED BY <2>1, <2>2, DeliverFields
<1>3. CASE ~P!Matches(p, b)
  <2>1. P!Step(p, b) = P!Refuse(p)
    BY <1>1, <1>3 DEF P!Check
  <2>2. b # P!Crc(p.at.type, p.at.expected, p.at.payload)
    BY <1>3 DEF P!Matches
  <2> QED BY <2>1, <2>2, RefuseFields
<1> QED BY <1>2, <1>3

\* A symbol keeps what the parser holds in bounds; it delivers the frame that
\* it is the checksum of, or nothing.
LEMMA StepParsed ==
  ASSUME NEW p, Shape(p), Parsed(p), NEW b \in Symbols
  PROVE  /\ Parsed(P!Step(p, b))
         /\ \/ P!Step(p, b).out = p.out
            \/ /\ b = P!Crc(p.at.type, p.at.expected, p.at.payload)
               /\ P!Step(p, b).out = Append(p.out, <<p.at.type, p.at.payload>>)
<1> DEFINE q == P!Step(p, b)
<1>0. b.n \in Nat
  BY SymbolShape
<1>1. CASE p.at.state = "sof"
  <2>1. q = Made(p.stats, IF b.n = P!SOF THEN "type" ELSE "sof", p.at.type,
                 p.at.expected, p.at.payload, p.out)
    BY <1>1, StepSof
  <2> HIDE DEF q
  <2>2. /\ q.at.state # "payload" /\ q.at.type = p.at.type
        /\ q.at.payload = p.at.payload /\ q.out = p.out
    BY <2>1, MadeFields
  <2>3. Parsed(q)
    BY <2>2 DEF Parsed
  <2> QED BY <2>2, <2>3 DEF q
<1>2. CASE p.at.state = "type"
  <2>1. \E stats : \E s \in {"length", "sof"} : \E t \in {b.n, p.at.type} :
          q = Made(stats, s, t, p.at.expected, p.at.payload, p.out)
    <3>1. CASE b.n \in {Ping, Command}
      <4>1. q = Made(p.stats, "length", b.n, p.at.expected, p.at.payload, p.out)
        BY <1>2, <3>1, StepType
      <4> QED BY <4>1
    <3>2. CASE b.n \notin {Ping, Command}
      <4>1. \E stats : q = Made(stats, "sof", p.at.type, p.at.expected, p.at.payload, p.out)
        BY <1>2, <3>2, StepType
      <4> QED BY <4>1
    <3> QED BY <3>1, <3>2
  <2> HIDE DEF q
  <2>2. /\ q.at.state # "payload" /\ q.at.type \in {b.n, p.at.type}
        /\ q.at.payload = p.at.payload /\ q.out = p.out
    BY <2>1, MadeFields
  <2>3. Parsed(q)
    BY <1>0, <2>2 DEF Parsed
  <2> QED BY <2>2, <2>3 DEF q
<1>3. CASE p.at.state = "length"
  <2>1. CASE b.n > LengthCap(p.at.type) \/ b.n > MaxPayload
    <3>1. \E stats : q = Made(stats, "sof", p.at.type, p.at.expected, p.at.payload, p.out)
      BY <1>3, <2>1, StepLength
    <3> HIDE DEF q
    <3>2. /\ q.at.state = "sof" /\ q.at.type = p.at.type
          /\ q.at.payload = p.at.payload /\ q.out = p.out
      BY <3>1, MadeFields
    <3>3. Parsed(q)
      BY <3>2 DEF Parsed
    <3> QED BY <3>2, <3>3 DEF q
  <2>2. CASE ~(b.n > LengthCap(p.at.type) \/ b.n > MaxPayload)
    <3>1. q = Made(p.stats, IF b.n = 0 THEN "crc" ELSE "payload", p.at.type, b.n, << >>, p.out)
      BY <1>3, <2>2, StepLength
    <3> HIDE DEF q
    <3>2. /\ q.at.state = (IF b.n = 0 THEN "crc" ELSE "payload") /\ q.at.type = p.at.type
          /\ q.at.payload = << >> /\ q.out = p.out /\ q.at.expected = b.n
      BY <3>1, MadeFields
    <3>3. b.n <= MaxPayload
      BY <1>0, <2>2, Bounds
    <3>4. q.at.payload \in Seq(Symbols) /\ Len(q.at.payload) = 0
      BY <3>2
    <3>5. q.at.state = "payload" => Len(q.at.payload) < q.at.expected
      BY <1>0, <3>2, <3>4
    <3>6. Parsed(q)
      BY <1>0, <3>2, <3>3, <3>4, <3>5, Bounds DEF Parsed
    <3> QED BY <3>2, <3>6 DEF q
  <2> QED BY <2>1, <2>2
<1>4. CASE p.at.state = "payload"
  <2> DEFINE x == Append(p.at.payload, b)
  <2>1. q = Made(p.stats, IF Len(x) >= p.at.expected THEN "crc" ELSE "payload",
                 p.at.type, p.at.expected, x, p.out)
    BY <1>4, StepPayload
  <2>2. x \in Seq(Symbols) /\ Len(x) = Len(p.at.payload) + 1 /\ Len(p.at.payload) \in Nat
    BY DEF Parsed
  <2> HIDE DEF q, x
  <2>3. /\ q.at.state = (IF Len(x) >= p.at.expected THEN "crc" ELSE "payload")
        /\ q.at.type = p.at.type /\ q.at.payload = x /\ q.out = p.out
        /\ q.at.expected = p.at.expected
    BY <2>1, MadeFields
  <2>4. /\ p.at.expected \in Nat /\ p.at.expected <= MaxPayload
        /\ Len(p.at.payload) < p.at.expected \/ Len(p.at.payload) = 0
    BY <1>4 DEF Parsed
  <2>5. Len(x) <= MaxPayload /\ (Len(x) >= p.at.expected \/ Len(x) < p.at.expected)
    BY <2>2, <2>4, Bounds
  <2>6. Parsed(q)
    BY <2>2, <2>3, <2>4, <2>5 DEF Parsed
  <2> QED BY <2>3, <2>6 DEF q
<1>5. CASE p.at.state = "crc"
  <2> DEFINE y == <<p.at.type, p.at.payload>>
             out == IF b = P!Crc(p.at.type, p.at.expected, p.at.payload)
                    THEN Append(p.out, y) ELSE p.out
  <2>1. \E stats : q = Made(stats, "sof", p.at.type, p.at.expected, p.at.payload, out)
    BY <1>5, StepCheck
  <2>2. out \in Seq(Nat \X Seq(Symbols))
    <3> DEFINE R == Nat \X Seq(Symbols)
    <3>1. p.out \in Seq(R) /\ y \in R
      BY DEF Parsed
    <3> HIDE DEF R, y
    <3>2. Append(p.out, y) \in Seq(R)
      BY <3>1
    <3> QED BY <3>1, <3>2 DEF R
  <2> HIDE DEF q, out
  <2>3. /\ q.at.state = "sof" /\ q.at.type = p.at.type
        /\ q.at.payload = p.at.payload /\ q.out = out
    BY <2>1, MadeFields
  <2>4. Parsed(q)
    BY <2>2, <2>3 DEF Parsed
  <2> QED BY <2>3, <2>4 DEF q, out
<1> QED BY <1>1, <1>2, <1>3, <1>4, <1>5 DEF Shape, States

\* A reset inside a symbol keeps what is held in bounds as well; what it
\* delivers is the frame, or the frame without its payload.
LEMMA TornParsed ==
  ASSUME NEW p, Shape(p), Parsed(p), NEW b \in Symbols, NEW q \in P!Torn(p, b)
  PROVE  /\ Parsed(q)
         /\ \/ q.out = p.out
            \/ /\ b = P!Crc(p.at.type, p.at.expected, p.at.payload)
               /\ \E x \in {p.at.payload, << >>} : q.out = Append(p.out, <<p.at.type, x>>)
<1>1. CASE q = P!Step(p, b)
  BY <1>1, StepParsed
<1>2. CASE q = P!Refuse(p)
  <2>1. \E stats : q = Made(stats, "sof", p.at.type, p.at.expected, p.at.payload, p.out)
    BY <1>2, RefuseFields
  <2>2. /\ q.at.state = "sof" /\ q.at.type = p.at.type
        /\ q.at.payload = p.at.payload /\ q.out = p.out
    BY <2>1, MadeFields
  <2> QED BY <2>2 DEF Parsed
<1>3. CASE P!Matches(p, b) /\ q = P!Deliver(p, << >>)
  <2> DEFINE y == <<p.at.type, << >>>>  out == Append(p.out, y)  R == Nat \X Seq(Symbols)
  <2>1. \E stats : q = Made(stats, "sof", p.at.type, p.at.expected, p.at.payload, out)
    BY <1>3, DeliverFields
  <2>2. out \in Seq(R)
    <3>1. p.out \in Seq(R) /\ y \in R
      <4>1. << >> \in Seq(Symbols)
        OBVIOUS
      <4> QED BY <4>1 DEF Parsed
    <3> HIDE DEF R, y
    <3> QED BY <3>1
  <2>3. b = P!Crc(p.at.type, p.at.expected, p.at.payload)
    BY <1>3 DEF P!Matches
  <2> HIDE DEF out
  <2>4. /\ q.at.state = "sof" /\ q.at.type = p.at.type
        /\ q.at.payload = p.at.payload /\ q.out = out
    BY <2>1, MadeFields
  <2>5. Parsed(q)
    BY <2>2, <2>4 DEF Parsed
  <2> QED BY <2>3, <2>4, <2>5 DEF out
<1>4. CASE \E s \in {"sof", "crc", "payload"} : q = Made(p.stats, s, p.at.type, 0, << >>, p.out)
  <2>1. q.at.expected = 0 /\ q.at.type = p.at.type /\ q.at.payload = << >> /\ q.out = p.out
    BY <1>4, MadeFields
  <2>2. << >> \in Seq(Symbols) /\ Len(<< >>) = 0
    OBVIOUS
  <2>3. q.at.expected \in Nat /\ q.at.expected <= MaxPayload /\ Len(q.at.payload) <= MaxPayload
    BY <2>1, <2>2, Bounds
  <2> QED BY <2>1, <2>2, <2>3 DEF Parsed
<1>5. CASE p.at.state = "payload" /\ \E x \in {<<b>>, Append(p.at.payload, b)} :
              q = Made(p.stats, "crc", p.at.type, 0, x, p.out)
  <2>1. PICK x \in {<<b>>, Append(p.at.payload, b)} :
          q = Made(p.stats, "crc", p.at.type, 0, x, p.out)
    BY <1>5
  <2>2. q.at.state = "crc" /\ q.at.type = p.at.type /\ q.at.payload = x /\ q.out = p.out
    BY <2>1, MadeFields
  <2>3. x \in Seq(Symbols) /\ (Len(x) = 1 \/ Len(x) = Len(p.at.payload) + 1)
    <3>1. p.at.payload \in Seq(Symbols)
      BY DEF Parsed
    <3>2. CASE x = <<b>>
      BY <3>2
    <3>3. CASE x = Append(p.at.payload, b)
      BY <3>1, <3>3
    <3> QED BY <3>2, <3>3
  <2>4. /\ Len(p.at.payload) \in Nat /\ p.at.expected \in Nat /\ p.at.expected <= MaxPayload
        /\ Len(p.at.payload) < p.at.expected \/ Len(p.at.payload) = 0
    BY <1>5 DEF Parsed
  <2>5. Len(x) <= MaxPayload
    <3> DEFINE l == Len(x)  k == Len(p.at.payload)  e == p.at.expected
    <3>1. /\ l = 1 \/ l = k + 1
          /\ k \in Nat /\ e \in Nat /\ e <= MaxPayload /\ (k < e \/ k = 0)
      BY <2>3, <2>4, Zenon
    <3> HIDE DEF l, k, e
    <3>2. l <= MaxPayload
      BY <3>1, Bounds
    <3> QED BY <3>2 DEF l
  <2> QED BY <2>2, <2>3, <2>5 DEF Parsed
<1>6. Remains(p, b, q)
  BY TornCases
<1> QED BY <1>1, <1>2, <1>3, <1>4, <1>5, <1>6 DEF Remains

-----------------------------------------------------------------------------
(* Every step keeps what is followed.                                      *)

LEMMA FunctionSeq ==
  ASSUME NEW S, NEW n \in Nat, NEW d \in [1 .. n -> S]
  PROVE  d \in Seq(S) /\ Len(d) = n
OBVIOUS

\* What a segment of a sequence holds.
LEMMA SubSeqFacts ==
  ASSUME NEW S, NEW s \in Seq(S), NEW m \in Nat \ {0}, m <= Len(s) + 1
  PROVE  /\ SubSeq(s, m, Len(s)) \in Seq(S)
         /\ Len(SubSeq(s, m, Len(s))) = (Len(s) - m) + 1
         /\ \A i \in 1 .. (Len(s) - m) + 1 : SubSeq(s, m, Len(s))[i] = s[(m + i) - 1]
<1>1. Len(s) \in Nat
  OBVIOUS
<1>2. CASE m = Len(s) + 1
  <2>1. SubSeq(s, m, Len(s)) = << >> /\ (Len(s) - m) + 1 = 0
    BY <1>1, <1>2
  <2> QED BY <2>1
<1>3. CASE m <= Len(s)
  BY <1>1, <1>3
<1> QED BY <1>1, <1>2, <1>3

LEMMA SameSeq ==
  ASSUME NEW S, NEW s \in Seq(S), NEW z \in Seq(S), Len(s) = Len(z),
         \A i \in 1 .. Len(s) : s[i] = z[i]
  PROVE  s = z
OBVIOUS

LEMMA TakeDrop ==
  ASSUME NEW S, NEW s \in Seq(S), NEW n \in Nat
  PROVE  s = Take(s, n) \o Drop(s, n)
<1>1. CASE n < Len(s)
  <2> DEFINE a == SubSeq(s, 1, n)  b == SubSeq(s, n + 1, Len(s))
  <2>1. Take(s, n) = a /\ Drop(s, n) = b
    BY <1>1 DEF Take, Drop
  <2>2. /\ a \in Seq(S) /\ b \in Seq(S) /\ Len(a) = n /\ Len(b) = Len(s) - n
        /\ \A i \in 1 .. n : a[i] = s[i]
        /\ \A i \in 1 .. Len(s) - n : b[i] = s[n + i]
    BY <1>1
  <2> HIDE DEF a, b
  <2>3. a \o b \in Seq(S) /\ Len(a \o b) = Len(s)
    <3>1. Len(s) \in Nat /\ Len(a) + Len(b) = Len(s)
      BY <2>2
    <3>2. a \in Seq(S) /\ b \in Seq(S)
      BY <2>2
    <3>3. a \o b \in Seq(S) /\ Len(a \o b) = Len(a) + Len(b)
      BY <3>2
    <3> QED BY <3>1, <3>3
  <2>4. ASSUME NEW i \in 1 .. Len(s) PROVE (a \o b)[i] = s[i]
    <3>1. CASE i <= n
      BY <2>2, <3>1
    <3>2. CASE ~(i <= n)
      <4>1. (a \o b)[i] = b[i - n] /\ i - n \in 1 .. Len(s) - n /\ n + (i - n) = i
        BY <1>1, <2>2, <3>2
      <4> QED BY <2>2, <4>1
    <3> QED BY <3>1, <3>2
  <2> QED BY <2>1, <2>3, <2>4, SameSeq
<1>2. CASE ~(n < Len(s))
  <2>1. Take(s, n) = s /\ Drop(s, n) = << >>
    BY <1>2 DEF Take, Drop
  <2> QED BY <2>1
<1> QED BY <1>1, <1>2

LEMMA HeadTail ==
  ASSUME NEW S, NEW s \in Seq(S), s # << >>
  PROVE  Head(s) \in S /\ Tail(s) \in Seq(S) /\ s = <<Head(s)>> \o Tail(s)
OBVIOUS

LEMMA Associates ==
  ASSUME NEW S, NEW a \in Seq(S), NEW b \in Seq(S), NEW c \in Seq(S)
  PROVE  a \o (b \o c) = (a \o b) \o c /\ a \o b \in Seq(S) /\ b \o c \in Seq(S)
OBVIOUS

LEMMA AssociatesFour ==
  ASSUME NEW S, NEW a \in Seq(S), NEW b \in Seq(S), NEW c \in Seq(S), NEW w \in Seq(S)
  PROVE  /\ a \o (b \o (c \o w)) = (a \o (b \o c)) \o w
         /\ a \o (b \o c) \in Seq(S)
<1>1. c \o w \in Seq(S) /\ b \o c \in Seq(S)
  OBVIOUS
<1>2. b \o (c \o w) = (b \o c) \o w
  BY Associates
<1> DEFINE x == b \o c
<1>3. x \in Seq(S)
  BY <1>1
<1> HIDE DEF x
<1>4. a \o (x \o w) = (a \o x) \o w /\ a \o x \in Seq(S)
  BY <1>3, Associates, SMTT(30)
<1> QED BY <1>2, <1>4 DEF x

LEMMA PartOfInterval ==
  ASSUME NEW k \in Nat, NEW cut, cut \subseteq 1 .. k
  PROVE  IsFiniteSet(cut) /\ Cardinality(cut) \in Nat
<1>1. IsFiniteSet(1 .. k)
  BY FS_Interval
<1>2. IsFiniteSet(cut)
  BY <1>1, FS_Subset
<1> QED BY <1>2, FS_CardinalityType

\* One more frame delivered, whole or without its payload.
LEMMA AccountsMore ==
  ASSUME NEW m, NEW cut, NEW n, NEW out \in Seq(Nat \X Seq(Symbols)),
         Accounts(m, cut, out, n), NEW f \in Frames
  PROVE  /\ Accounts(Append(m, SumOf(f)), cut, Append(out, f), n)
         /\ Accounts(Append(m, SumOf(f)), cut \cup {Len(out) + 1}, Append(out, Emptied(f)), n + 1)
<1> DEFINE b == SumOf(f)  e == Emptied(f)  k == Len(out)  more == cut \cup {k + 1}
<1>1. /\ m \in Seq(Symbols) /\ Len(m) = k /\ n \in Nat /\ k \in Nat
      /\ cut \subseteq 1 .. k /\ Cardinality(cut) <= n
  BY DEF Accounts
<1>2. b \in Symbols
  BY DEF Symbols
<1>3. f \in Nat \X Seq(Symbols) /\ e \in Nat \X Seq(Symbols)
  <2>1. f[1] \in Nat /\ f[2] \in Seq(Bytes) /\ f = <<f[1], f[2]>>
    BY Bounds DEF Frames
  <2>2. f[2] \in Seq(Symbols) /\ << >> \in Seq(Symbols)
    BY <2>1 DEF Symbols
  <2> QED BY <2>1, <2>2 DEF Emptied
<1>4. IsFiniteSet(cut) /\ Cardinality(cut) \in Nat
  BY <1>1, PartOfInterval
<1>5. Cardinality(more) = Cardinality(cut) + 1
  <2>1. k + 1 \notin cut
    BY <1>1
  <2> QED BY <1>4, <2>1, FS_AddElement
<1> HIDE DEF b, e
<1>6. /\ Append(m, b) \in Seq(Symbols) /\ Len(Append(m, b)) = k + 1 /\ Append(m, b)[k + 1] = b
      /\ \A i \in 1 .. k : Append(m, b)[i] = m[i]
  BY <1>1, <1>2
<1>7. ASSUME NEW x \in Nat \X Seq(Symbols)
      PROVE  /\ Len(Append(out, x)) = k + 1 /\ Append(out, x)[k + 1] = x
             /\ \A i \in 1 .. k : Append(out, x)[i] = out[i]
  BY <1>7
<1>8. \A i \in 1 .. k : \E g \in Frames :
        m[i] = SumOf(g) /\ out[i] = (IF i \in cut THEN Emptied(g) ELSE g)
  BY DEF Accounts
<1>9. 1 .. k + 1 = (1 .. k) \cup {k + 1} /\ k + 1 \notin 1 .. k
  BY <1>1
<1> HIDE DEF k
<1>10. Accounts(Append(m, b), cut, Append(out, f), n)
  <2>1. ASSUME NEW i \in 1 .. k + 1
        PROVE  \E g \in Frames :
                 Append(m, b)[i] = SumOf(g) /\ Append(out, f)[i] = (IF i \in cut THEN Emptied(g) ELSE g)
    <3>1. CASE i \in 1 .. k
      BY <1>3, <1>6, <1>7, <1>8, <3>1
    <3>2. CASE i = k + 1
      BY <1>1, <1>3, <1>6, <1>7, <1>9, <3>2 DEF b
    <3> QED BY <1>9, <3>1, <3>2
  <2>2. Len(Append(out, f)) = k + 1 /\ cut \subseteq 1 .. k + 1
    BY <1>1, <1>3, <1>7, <1>9
  <2> QED BY <1>1, <1>6, <2>1, <2>2 DEF Accounts
<1>11. Accounts(Append(m, b), more, Append(out, e), n + 1)
  <2>1. ASSUME NEW i \in 1 .. k + 1
        PROVE  \E g \in Frames :
                 Append(m, b)[i] = SumOf(g) /\ Append(out, e)[i] = (IF i \in more THEN Emptied(g) ELSE g)
    <3>1. CASE i \in 1 .. k
      <4>1. i \in more <=> i \in cut
        BY <1>9, <3>1
      <4> HIDE DEF more
      <4> QED BY <1>3, <1>6, <1>7, <1>8, <3>1, <4>1
    <3>2. CASE i = k + 1
      BY <1>3, <1>6, <1>7, <3>2 DEF b, e
    <3> QED BY <1>9, <3>1, <3>2
  <2>2. Len(Append(out, e)) = k + 1 /\ more \subseteq 1 .. k + 1
    BY <1>1, <1>3, <1>7, <1>9
  <2>3. Cardinality(more) <= n + 1 /\ n + 1 \in Nat
    BY <1>1, <1>4, <1>5
  <2> HIDE DEF more
  <2> QED BY <1>6, <2>1, <2>2, <2>3 DEF Accounts
<1> QED BY <1>10, <1>11 DEF b, e, k

\* What a bus error may take is never less.
LEMMA AccountsLess ==
  ASSUME NEW m, NEW cut, NEW out, NEW n, Accounts(m, cut, out, n)
  PROVE  Accounts(m, cut, out, n + 1)
<1>1. n \in Nat /\ cut \subseteq 1 .. Len(out) /\ Cardinality(cut) <= n /\ Len(out) \in Nat
  BY DEF Accounts
<1>2. Cardinality(cut) \in Nat
  BY <1>1, PartOfInterval
<1>3. Cardinality(cut) <= n + 1 /\ n + 1 \in Nat
  BY <1>1, <1>2
<1> QED BY <1>3 DEF Accounts

\* What the host sends comes last.
LEMMA FollowingSend ==
  ASSUME SymbolsType, Following, HostSends
  PROVE  Following'
<1>1. PICK t \in {Ping, Command} : \E payload \in Payloads(t) :
        sent' = Append(sent, <<t, payload>>) /\ wire' = wire \o P!Frame(t, payload)
  BY DEF HostSends
<1>2. PICK payload \in Payloads(t) :
        sent' = Append(sent, <<t, payload>>) /\ wire' = wire \o P!Frame(t, payload)
  BY <1>1
<1>3. <<t, payload>> \in Frames
  BY PayloadsType
<1>0. PICK d \in Seq(Symbols), cut \in SUBSET Nat :
        Accounts(d, cut, parser.out, faults) /\ Traced(d \o Rest, sent)
  BY DEF Following
<1> DEFINE w == P!Frame(t, payload)  s == d \o Rest
<1>4. d \in Seq(Symbols) /\ w \in Seq(Symbols)
  BY <1>3, FrameType
<1>5. sent \in Seq(Frames) /\ wire \in Seq(Symbols) /\ ring \in Seq(Symbols) /\ chunk \in Seq(Symbols)
  BY DEF SymbolsType
<1>6. parser' = parser /\ faults' = faults /\ Rest' = chunk \o (ring \o (wire \o w))
  BY <1>2 DEF HostSends, Rest
<1> HIDE DEF w
<1>7. d \o (chunk \o (ring \o (wire \o w))) = (d \o (chunk \o (ring \o wire))) \o w
  <2>1. /\ chunk \o (ring \o (wire \o w)) = (chunk \o (ring \o wire)) \o w
        /\ chunk \o (ring \o wire) \in Seq(Symbols)
    <3>1. /\ chunk \in Seq(Symbols) /\ ring \in Seq(Symbols) /\ wire \in Seq(Symbols)
          /\ w \in Seq(Symbols)
      BY <1>4, <1>5, Zenon
    <3> QED BY <3>1, AssociatesFour, SMTT(40)
  <2> DEFINE x == chunk \o (ring \o wire)
  <2> HIDE DEF x
  <2>2. d \o (x \o w) = (d \o x) \o w
    <3>1. x \in Seq(Symbols)
      BY <2>1, Zenon DEF x
    <3>2. d \in Seq(Symbols) /\ x \in Seq(Symbols) /\ w \in Seq(Symbols)
      BY <1>4, <3>1, Zenon
    <3> QED BY <3>2
  <2> QED BY <2>1, <2>2 DEF x
<1>8. s \in Seq(Symbols)
  BY <1>4, <1>5 DEF Rest
<1>9. Traced(s, sent)
  BY <1>0
<1> HIDE DEF s
<1>10. Traced(s \o w, Append(sent, <<t, payload>>))
  BY <1>3, <1>5, <1>8, <1>9, TracedFrame DEF w
<1> QED BY <1>0, <1>2, <1>6, <1>7, <1>10 DEF Following, Rest, s

\* The interrupt loses the end of what it takes, or nothing.
LEMMA FollowingReady ==
  ASSUME SymbolsType, Following, RxReady
  PROVE  Following'
<1>1. PICK n \in 1 .. Burst :
        /\ wire' = Drop(wire, n)
        /\ ring' = ring \o Take(Take(wire, n), RingSize - Len(ring))
  BY DEF RxReady
<1>0. PICK d \in Seq(Symbols), cut \in SUBSET Nat :
        Accounts(d, cut, parser.out, faults) /\ Traced(d \o Rest, sent)
  BY DEF Following
<1> DEFINE got == Take(wire, n)  k == RingSize - Len(ring)
           put == Take(got, k)  lost == Drop(got, k)  rest == Drop(wire, n)
<1>2. n \in Nat /\ k \in Nat
  BY Bounds DEF SymbolsType
<1>3. /\ d \in Seq(Symbols) /\ wire \in Seq(Symbols) /\ ring \in Seq(Symbols)
      /\ chunk \in Seq(Symbols)
  BY DEF SymbolsType
<1>4. got \in Seq(Symbols) /\ rest \in Seq(Symbols) /\ wire = got \o rest
  BY <1>2, <1>3, TakeType, DropType, TakeDrop
<1> HIDE DEF got, rest, k
<1>5. put \in Seq(Symbols) /\ lost \in Seq(Symbols) /\ got = put \o lost
  BY <1>2, <1>4, TakeType, DropType, TakeDrop
<1>6. /\ Rest' = chunk \o ((ring \o put) \o rest) /\ UNCHANGED <<parser, faults>>
      /\ sent' = sent
  BY <1>1 DEF RxReady, Rest, got, rest, k
<1>7. Traced(d \o Rest, sent)
  BY <1>0
<1> HIDE DEF put, lost
<1> DEFINE a == d \o (chunk \o (ring \o put))
<1>8. /\ a \in Seq(Symbols)
      /\ d \o Rest = a \o (lost \o rest)
      /\ d \o (chunk \o ((ring \o put) \o rest)) = a \o rest
  <2> DEFINE r == ring \o put  z == lost \o rest
  <2>1. wire = put \o z /\ z \in Seq(Symbols)
    <3>1. put \in Seq(Symbols) /\ lost \in Seq(Symbols) /\ rest \in Seq(Symbols)
      BY <1>4, <1>5, Zenon
    <3>2. put \o (lost \o rest) = (put \o lost) \o rest /\ lost \o rest \in Seq(Symbols)
      BY <3>1
    <3> QED BY <1>4, <1>5, <3>2, Zenon DEF z
  <2> HIDE DEF z
  <2>2. r \in Seq(Symbols) /\ ring \o (put \o z) = r \o z
    <3>1. ring \in Seq(Symbols) /\ put \in Seq(Symbols) /\ z \in Seq(Symbols)
      BY <1>3, <1>5, <2>1, Zenon
    <3>2. ring \o (put \o z) = (ring \o put) \o z
      BY <3>1, SMTT(30)
    <3>3. ring \o put \in Seq(Symbols)
      BY <3>1
    <3> QED BY <3>2, <3>3, Zenon DEF r
  <2> HIDE DEF r
  <2>3. /\ d \o (chunk \o (r \o z)) = (d \o (chunk \o r)) \o z
        /\ d \o (chunk \o r) \in Seq(Symbols)
    <3>1. /\ d \in Seq(Symbols) /\ chunk \in Seq(Symbols) /\ r \in Seq(Symbols)
          /\ z \in Seq(Symbols)
      BY <1>3, <2>1, <2>2, Zenon
    <3> QED BY <3>1, AssociatesFour, SMTT(40)
  <2>5. /\ d \o (chunk \o (r \o rest)) = (d \o (chunk \o r)) \o rest
        /\ d \o (chunk \o r) \in Seq(Symbols)
    <3>1. /\ d \in Seq(Symbols) /\ chunk \in Seq(Symbols) /\ r \in Seq(Symbols)
          /\ rest \in Seq(Symbols)
      BY <1>3, <1>4, <2>2, Zenon
    <3> QED BY <3>1, AssociatesFour, SMTT(40)
  <2>4. a = d \o (chunk \o r)
    BY DEF r
  <2> HIDE DEF a
  <2> QED BY <2>1, <2>2, <2>3, <2>4, <2>5 DEF Rest, r, z
<1> HIDE DEF a
<1>9. Traced(a \o rest, sent)
  BY <1>4, <1>5, <1>7, <1>8, TracedPart
<1> QED BY <1>0, <1>6, <1>8, <1>9 DEF Following

\* An error on the line loses a symbol of the wire.
LEMMA WireLoses ==
  ASSUME SymbolsType, wire # << >>, NEW d \in Seq(Symbols), Traced(d \o Rest, sent)
  PROVE  Traced(d \o (chunk \o (ring \o Tail(wire))), sent)
<1> DEFINE b == Head(wire)  w == Tail(wire)
<1>2. wire \in Seq(Symbols) /\ ring \in Seq(Symbols) /\ chunk \in Seq(Symbols)
  BY DEF SymbolsType
<1>5. b \in Symbols /\ w \in Seq(Symbols) /\ wire = <<b>> \o w
  BY <1>2, HeadTail
<1> HIDE DEF b, w
<1>8. Traced(d \o (chunk \o (ring \o w)), sent)
  <2> DEFINE x == d \o (chunk \o ring)  one == <<b>>
  <2>1. one \in Seq(Symbols)
    BY <1>5
  <2> HIDE DEF one
  <2>2. wire = one \o w
    BY <1>5 DEF one
  <2>3. one \o w \in Seq(Symbols)
    BY <1>5, <2>1
  <2>4. d \o (chunk \o (ring \o (one \o w))) = x \o (one \o w) /\ x \in Seq(Symbols)
    <3> DEFINE z == one \o w
    <3>1. z \in Seq(Symbols)
      BY <2>3, Zenon
    <3> HIDE DEF z
    <3>2. d \o (chunk \o (ring \o z)) = (d \o (chunk \o ring)) \o z
          /\ d \o (chunk \o ring) \in Seq(Symbols)
      BY <1>2, <3>1, AssociatesFour
    <3> QED BY <3>2 DEF z
  <2>5. d \o (chunk \o (ring \o w)) = x \o w
    BY <1>2, <1>5, AssociatesFour, SMTT(40)
  <2> HIDE DEF x
  <2>6. Traced(x \o (one \o w), sent)
    BY <2>2, <2>4 DEF Rest
  <2>7. Traced(x \o w, sent)
    <3>1. x \in Seq(Symbols) /\ one \in Seq(Symbols) /\ w \in Seq(Symbols)
      BY <1>5, <2>1, <2>4, Zenon
    <3> QED BY <2>6, <3>1, TracedPart
  <2> QED BY <2>5, <2>7
<1> QED BY <1>8 DEF w

\* A symbol the parser has taken is forgotten, or stands for a frame delivered.
LEMMA ChunkFed ==
  ASSUME chunk \in Seq(Symbols), chunk # << >>, NEW d \in Seq(Symbols), NEW r \in Seq(Symbols),
         Traced(d \o (chunk \o r), sent)
  PROVE  /\ Traced(d \o (Tail(chunk) \o r), sent)
         /\ Traced(Append(d, Head(chunk)) \o (Tail(chunk) \o r), sent)
<1> DEFINE b == Head(chunk)  t == Tail(chunk)  one == <<b>>
<1>1. b \in Symbols /\ t \in Seq(Symbols) /\ chunk = one \o t
  BY HeadTail
<1>2. one \in Seq(Symbols)
  BY <1>1
<1> HIDE DEF t, one
<1>3. t \o r \in Seq(Symbols) /\ (one \o t) \o r = one \o (t \o r)
  BY <1>1, <1>2
<1> DEFINE z == t \o r
<1>4. z \in Seq(Symbols) /\ Traced(d \o (one \o z), sent)
  BY <1>1, <1>3
<1> HIDE DEF z, b
<1>5. Traced(d \o z, sent)
  BY <1>2, <1>4, TracedPart
<1>6. d \o (<<b>> \o z) = Append(d, b) \o z
  BY <1>1, <1>4, SMTT(30)
<1>7. Traced(Append(d, b) \o z, sent)
  BY <1>4, <1>6 DEF one
<1> QED BY <1>5, <1>7 DEF z, t, b

LEMMA FollowingError ==
  ASSUME SymbolsType, Shape(parser), Parsed(parser), Following, BusError
  PROVE  Following' /\ Parsed(parser')
<1>1. /\ wire # << >> /\ wire' = Tail(wire) /\ faults' = faults + 1
      /\ UNCHANGED <<sent, ring, chunk>> /\ parser' = P!Reset(parser)
  BY DEF BusError, BusFails
<1>2. PICK d \in Seq(Symbols), cut \in SUBSET Nat :
        Accounts(d, cut, parser.out, faults) /\ Traced(d \o Rest, sent)
  BY DEF Following
<1>3. parser' = Made(parser.stats, "sof", parser.at.type, 0, << >>, parser.out)
  BY <1>1 DEF Shape, Made, P!Reset, P!Idle
<1>4. /\ parser'.out = parser.out /\ parser'.at.state = "sof"
      /\ parser'.at.type = parser.at.type /\ parser'.at.payload = << >>
  BY <1>3, MadeFields
<1>5. Parsed(parser')
  <2>1. << >> \in Seq(Symbols) /\ Len(<< >>) = 0
    OBVIOUS
  <2> QED BY <1>4, <2>1, Bounds DEF Parsed
<1>6. Accounts(d, cut, parser'.out, faults')
  BY <1>1, <1>2, <1>4, AccountsLess
<1>7. Traced(d \o Rest', sent')
  <2>1. Traced(d \o (chunk \o (ring \o Tail(wire))), sent)
    BY <1>1, <1>2, WireLoses
  <2> QED BY <1>1, <2>1 DEF Rest
<1> QED BY <1>5, <1>6, <1>7 DEF Following

\* A checksum that delivers a frame is the checksum of the frame.
LEMMA SumDelivers ==
  ASSUME Parsed(parser), NEW b \in Symbols,
         b = P!Crc(parser.at.type, parser.at.expected, parser.at.payload)
  PROVE  \E f \in Frames :
           b = SumOf(f) /\ f = <<parser.at.type, parser.at.payload>>
             /\ Emptied(f) = <<parser.at.type, << >>>>
<1>1. IsSum(b)
  BY DEF P!Crc, IsSum
<1>2. PICK f \in Frames : b = SumOf(f)
  BY <1>1, SymbolShape
<1>3. f[1] = parser.at.type /\ f[2] = parser.at.payload
  BY <1>2, SumsDiffer
<1>4. f = <<f[1], f[2]>>
  BY DEF Frames
<1> QED BY <1>2, <1>3, <1>4 DEF Emptied

\* A symbol is fed: what the parser delivers of it is accounted for.
LEMMA FollowingFeed ==
  ASSUME SymbolsType, Shape(parser), Parsed(parser), Following, RxFeed
  PROVE  Following' /\ Parsed(parser')
<1> DEFINE out == parser.out  b == Head(chunk)  r == ring \o wire
<1>1. /\ chunk # << >> /\ chunk' = Tail(chunk) /\ UNCHANGED <<ring, wire, sent, faults>>
      /\ parser' = P!Step(parser, b)
  BY DEF RxFeed
<1>2. PICK d \in Seq(Symbols), cut \in SUBSET Nat :
        Accounts(d, cut, out, faults) /\ Traced(d \o (chunk \o r), sent)
  BY DEF Following, Rest
<1>3. chunk \in Seq(Symbols) /\ r \in Seq(Symbols) /\ b \in Symbols
  BY <1>1, HeadTail DEF SymbolsType
<1>4. /\ Parsed(parser')
      /\ \/ parser'.out = out
         \/ /\ b = P!Crc(parser.at.type, parser.at.expected, parser.at.payload)
            /\ parser'.out = Append(out, <<parser.at.type, parser.at.payload>>)
  BY <1>1, <1>3, StepParsed
<1>5. Rest' = Tail(chunk) \o r
  BY <1>1 DEF Rest
<1>6. out \in Seq(Nat \X Seq(Symbols))
  BY DEF Parsed
<1> HIDE DEF out, b, r
<1>7. /\ Traced(d \o (Tail(chunk) \o r), sent)
      /\ Traced(Append(d, b) \o (Tail(chunk) \o r), sent)
  BY <1>1, <1>2, <1>3, ChunkFed DEF b
<1>8. CASE parser'.out = out
  BY <1>1, <1>2, <1>4, <1>5, <1>7, <1>8 DEF Following
<1>9. CASE /\ b = P!Crc(parser.at.type, parser.at.expected, parser.at.payload)
           /\ parser'.out = Append(out, <<parser.at.type, parser.at.payload>>)
  <2>1. PICK f \in Frames : b = SumOf(f) /\ f = <<parser.at.type, parser.at.payload>>
    BY <1>3, <1>9, SumDelivers
  <2>2. Accounts(Append(d, b), cut, parser'.out, faults)
    BY <1>2, <1>6, <1>9, <2>1, AccountsMore
  <2>3. Append(d, b) \in Seq(Symbols)
    BY <1>3
  <2> QED BY <1>1, <1>4, <1>5, <1>7, <2>2, <2>3 DEF Following
<1> QED BY <1>4, <1>8, <1>9

\* The line fails inside a symbol: the frame it completes may be without payload.
LEMMA FollowingErrorInFeed ==
  ASSUME SymbolsType, Shape(parser), Parsed(parser), Following, BusErrorInFeed
  PROVE  Following' /\ Parsed(parser')
<1> DEFINE out == parser.out  b == Head(chunk)  r == ring \o Tail(wire)
<1>1. /\ chunk # << >> /\ chunk' = Tail(chunk) /\ wire # << >> /\ wire' = Tail(wire)
      /\ faults' = faults + 1 /\ UNCHANGED <<ring, sent>> /\ parser' \in P!Torn(parser, b)
  BY DEF BusErrorInFeed, BusFails
<1>2. PICK d \in Seq(Symbols), cut \in SUBSET Nat :
        Accounts(d, cut, out, faults) /\ Traced(d \o Rest, sent)
  BY DEF Following
<1>3. chunk \in Seq(Symbols) /\ r \in Seq(Symbols) /\ b \in Symbols
  BY <1>1, HeadTail, TailType DEF SymbolsType
<1>4. /\ Parsed(parser')
      /\ \/ parser'.out = out
         \/ /\ b = P!Crc(parser.at.type, parser.at.expected, parser.at.payload)
            /\ \E x \in {parser.at.payload, << >>} :
                 parser'.out = Append(out, <<parser.at.type, x>>)
  BY <1>1, <1>3, TornParsed
<1>5. Rest' = Tail(chunk) \o r
  BY <1>1 DEF Rest
<1>6. out \in Seq(Nat \X Seq(Symbols))
  BY DEF Parsed
<1>7. Traced(d \o (chunk \o r), sent)
  BY <1>1, <1>2, WireLoses
<1> HIDE DEF out, b, r
<1>8. /\ Traced(d \o (Tail(chunk) \o r), sent)
      /\ Traced(Append(d, b) \o (Tail(chunk) \o r), sent)
  BY <1>1, <1>3, <1>7, ChunkFed DEF b
<1>9. CASE parser'.out = out
  <2>1. Accounts(d, cut, parser'.out, faults')
    BY <1>1, <1>2, <1>9, AccountsLess
  <2> QED BY <1>1, <1>4, <1>5, <1>8, <2>1 DEF Following
<1>10. CASE /\ b = P!Crc(parser.at.type, parser.at.expected, parser.at.payload)
            /\ \E x \in {parser.at.payload, << >>} :
                 parser'.out = Append(out, <<parser.at.type, x>>)
  <2>1. PICK f \in Frames : /\ b = SumOf(f) /\ f = <<parser.at.type, parser.at.payload>>
                           /\ Emptied(f) = <<parser.at.type, << >>>>
    BY <1>3, <1>10, SumDelivers
  <2>2. Append(d, b) \in Seq(Symbols)
    BY <1>3
  <2>3. CASE parser'.out = Append(out, f)
    <3>1. Accounts(Append(d, b), cut, parser'.out, faults')
      BY <1>1, <1>2, <1>6, <2>1, <2>3, AccountsMore, AccountsLess
    <3> QED BY <1>1, <1>4, <1>5, <1>8, <2>2, <3>1 DEF Following
  <2>4. CASE parser'.out = Append(out, Emptied(f))
    <3> DEFINE more == cut \cup {Len(out) + 1}
    <3>1. Accounts(Append(d, b), more, parser'.out, faults')
      <4>1. Accounts(Append(d, SumOf(f)), more, Append(out, Emptied(f)), faults + 1)
        BY <1>2, <1>6, AccountsMore
      <4> QED BY <1>1, <2>1, <2>4, <4>1
    <3>2. more \in SUBSET Nat
      <4>1. Len(out) + 1 \in Nat
        <5> DEFINE R == Nat \X Seq(Symbols)
        <5>1. out \in Seq(R)
          BY <1>6
        <5> HIDE DEF R
        <5> QED BY <5>1
      <4> QED BY <4>1
    <3> DEFINE m == Append(d, b)
    <3>3. Traced(m \o Rest', sent')
      BY <1>1, <1>5, <1>8
    <3>4. m \in Seq(Symbols)
      BY <2>2
    <3> HIDE DEF more, m
    <3> QED BY <1>4, <3>1, <3>2, <3>3, <3>4 DEF Following, m
  <2> QED BY <1>10, <2>1, <2>3, <2>4
<1> QED BY <1>4, <1>9, <1>10

\* The work item moves symbols on, and nothing else touches them.
LEMMA RestKept ==
  ASSUME SymbolsType, RxTake \/ RxDone \/ IdleTimeout \/ TxWork \/ TxDone \/ UNCHANGED vars
  PROVE  Rest' = Rest
<1>1. CASE RxTake
  <2>1. /\ chunk = << >> /\ chunk' = Take(ring, ChunkSize) /\ ring' = Drop(ring, ChunkSize)
        /\ wire' = wire
    BY <1>1 DEF RxTake
  <2> DEFINE a == Take(ring, ChunkSize)  b == Drop(ring, ChunkSize)
  <2>2. ring = a \o b /\ a \in Seq(Symbols) /\ b \in Seq(Symbols)
    BY Bounds, TakeDrop, TakeType, DropType DEF SymbolsType
  <2>3. wire \in Seq(Symbols) /\ ring \in Seq(Symbols)
    BY DEF SymbolsType
  <2> HIDE DEF a, b
  <2>4. a \o (b \o wire) = (a \o b) \o wire
    BY <2>2, <2>3
  <2>5. << >> \o (ring \o wire) = ring \o wire
    BY <2>3
  <2> QED BY <2>1, <2>2, <2>4, <2>5 DEF Rest, a, b
<1>2. CASE ~RxTake
  BY <1>2 DEF RxDone, IdleTimeout, TxWork, TxDone, rxVars, vars, Rest
<1> QED BY <1>1, <1>2

LEMMA FollowingOther ==
  ASSUME SymbolsType, Shape(parser), Parsed(parser), Following,
         RxTake \/ RxDone \/ IdleTimeout \/ TxWork \/ TxDone \/ UNCHANGED vars
  PROVE  Following' /\ Parsed(parser')
<1>1. sent' = sent /\ parser'.out = parser.out /\ Parsed(parser')
  <2>1. CASE IdleTimeout
    <3> DEFINE r == P!Reset(parser)  q == P!TimedOut(parser)
    <3>1. r = Made(parser.stats, "sof", parser.at.type, 0, << >>, parser.out) /\ Shape(r)
      <4>1. r = Made(parser.stats, "sof", parser.at.type, 0, << >>, parser.out)
        BY DEF Shape, Made, P!Reset, P!Idle
      <4> QED BY <4>1, ResetShape
    <3>2. q = parser \/ q = P!Counting(r, "timeouts")
      BY DEF P!TimedOut
    <3>3. CASE q = parser
      BY <2>1, <3>3 DEF IdleTimeout
    <3>4. CASE q # parser
      <4> HIDE DEF r
      <4>1. /\ r.at.state = "sof" /\ r.at.type = parser.at.type
            /\ r.at.payload = << >> /\ r.out = parser.out
        BY <3>1, MadeFields
      <4>2. \E stats : P!Counting(r, "timeouts") = Made(stats, r.at.state, r.at.type, r.at.expected,
                                                        r.at.payload, r.out)
        BY <3>1, CountingFields
      <4>3. \E stats : parser' = Made(stats, r.at.state, r.at.type, r.at.expected,
                                      r.at.payload, r.out)
        BY <2>1, <3>2, <3>4, <4>2 DEF IdleTimeout
      <4>4. /\ parser'.at.state = "sof" /\ parser'.at.type = parser.at.type
            /\ parser'.at.payload = << >> /\ parser'.out = parser.out
        BY <4>1, <4>3, MadeFields
      <4>5. parser'.at.payload \in Seq(Symbols) /\ Len(parser'.at.payload) = 0
        BY <4>4
      <4> QED BY <2>1, <4>4, <4>5, Bounds DEF Parsed, IdleTimeout
    <3> QED BY <3>3, <3>4
  <2>2. CASE ~IdleTimeout
    <3>1. sent' = sent /\ parser' = parser
      BY <2>2 DEF RxTake, RxDone, TxWork, TxDone, rxVars, vars
    <3> QED BY <3>1
  <2> QED BY <2>1, <2>2
<1>2. Rest' = Rest
  BY RestKept
<1>3. PICK d \in Seq(Symbols), cut \in SUBSET Nat :
        Accounts(d, cut, parser.out, faults) /\ Traced(d \o Rest, sent)
  BY DEF Following
<1>4. faults' = faults \/ faults' = faults + 1
  BY DEF RxTake, RxDone, IdleTimeout, TxWork, TxDone, rxVars, vars
<1>5. Accounts(d, cut, parser'.out, faults')
  BY <1>1, <1>3, <1>4, AccountsLess
<1> QED BY <1>1, <1>2, <1>3, <1>5 DEF Following

-----------------------------------------------------------------------------
(* A frame sent to a board at rest is followed symbol by symbol.           *)

\* The parser after the first k symbols of a frame of type t and payload p.
After(q, k, t, p) ==
  /\ k = 0 => q.at.state = "sof"
  /\ k = 1 => q.at.state = "type"
  /\ k = 2 => q.at.state = "length" /\ q.at.type = t
  /\ k \in 3 .. Len(p) + 2 =>
       /\ q.at.state = "payload" /\ q.at.type = t /\ q.at.expected = Len(p)
       /\ q.at.payload = SubSeq(p, 1, k - 3)
  /\ k = Len(p) + 3 =>
       q.at.state = "crc" /\ q.at.type = t /\ q.at.expected = Len(p) /\ q.at.payload = p
  /\ k = Len(p) + 4 =>
       q.at.state = "sof" /\ q.out # << >> /\ q.out[Len(q.out)] = <<t, p>>

Underway(t, p) ==
  LET w == P!Frame(t, p)
  IN  \E k \in 0 .. Len(w) : Rest = Drop(w, k) /\ After(parser, k, t, p)

Whole ==
  quiet /\ ~damaged =>
    \E t \in {Ping, Command}, p \in Seq(Bytes) :
      /\ Len(p) <= LengthCap(t) /\ Len(p) <= MaxPayload
      /\ sent # << >> /\ sent[Len(sent)] = <<t, p>>
      /\ Underway(t, p)

LEMMA ThenOne ==
  ASSUME NEW S, NEW h \in Seq(S), NEW p \in Seq(S), NEW c \in S
  PROVE  LET w == (h \o p) \o <<c>>
             m == Len(h)
             n == Len(p)
         IN  /\ Len(w) = m + n + 1
             /\ \A i \in 1 .. m : w[i] = h[i]
             /\ \A i \in 1 .. n : w[i + m] = p[i]
             /\ w[m + n + 1] = c
OBVIOUS

LEMMA FrameSymbols ==
  ASSUME NEW t \in {Ping, Command}, NEW p \in Seq(Bytes)
  PROVE  LET w == P!Frame(t, p)
         IN  /\ w \in Seq(Symbols) /\ Len(p) \in Nat /\ Len(w) = Len(p) + 4
             /\ w[1] = P!Byte(P!SOF) /\ w[2] = P!Byte(t) /\ w[3] = P!Byte(Len(p))
             /\ \A i \in 1 .. Len(p) : w[i + 3] = p[i]
             /\ w[Len(p) + 4] = P!Crc(t, Len(p), p)
<1> DEFINE w == P!Frame(t, p)  b1 == P!Byte(P!SOF)  b2 == P!Byte(t)  b3 == P!Byte(Len(p))
           c == P!Crc(t, Len(p), p)  n == Len(p)
<1>1. w \in Seq(Symbols)
  <2>1. <<t, p>> \in Frames
    BY DEF Frames
  <2> QED BY <2>1, FrameType
<1>2. w = (<<b1, b2, b3>> \o p) \o <<c>>
  BY DEF P!Frame
<1> HIDE DEF w, b1, b2, b3, c
<1>3. /\ n \in Nat /\ Len(w) = n + 4 /\ w[1] = b1 /\ w[2] = b2 /\ w[3] = b3
      /\ \A i \in 1 .. n : w[i + 3] = p[i]
      /\ w[n + 4] = c
  <2> DEFINE S == Bytes \cup {b1, b2, b3, c}  h == <<b1, b2, b3>>
  <2>1. h \in Seq(S) /\ Len(h) = 3 /\ h[1] = b1 /\ h[2] = b2 /\ h[3] = b3 /\ c \in S
    OBVIOUS
  <2>2. p \in Seq(S)
    <3>1. Bytes \subseteq S
      OBVIOUS
    <3> HIDE DEF S
    <3> QED BY <3>1
  <2> HIDE DEF S, h
  <2>3. w = (h \o p) \o <<c>>
    BY <1>2 DEF h
  <2>4. n \in Nat
    OBVIOUS
  <2>5. /\ Len(w) = n + 4 /\ w[1] = h[1] /\ w[2] = h[2] /\ w[3] = h[3]
        /\ \A i \in 1 .. n : w[i + 3] = p[i]
        /\ w[n + 4] = c
    <3> DEFINE m == Len(h)
    <3>1. /\ Len(w) = m + n + 1
          /\ \A i \in 1 .. m : w[i] = h[i]
          /\ \A i \in 1 .. n : w[i + m] = p[i]
          /\ w[m + n + 1] = c
      <4>1. h \in Seq(S) /\ p \in Seq(S) /\ c \in S
        BY <2>1, <2>2
      <4> QED BY <2>3, <4>1, ThenOne
    <3>2. m = 3
      BY <2>1
    <3> HIDE DEF m, n
    <3> QED BY <2>4, <3>1, <3>2
  <2> QED BY <2>1, <2>4, <2>5
<1> QED BY <1>1, <1>3 DEF w, b1, b2, b3, c

\* One more symbol of the frame takes the parser one further.
LEMMA AfterStep ==
  ASSUME NEW t \in {Ping, Command}, NEW p \in Seq(Bytes),
         Len(p) <= LengthCap(t), Len(p) <= MaxPayload,
         NEW q, Shape(q), Parsed(q), NEW k \in 0 .. Len(p) + 3, After(q, k, t, p)
  PROVE  After(P!Step(q, P!Frame(t, p)[k + 1]), k + 1, t, p)
<1> DEFINE b == P!Frame(t, p)[k + 1]  n == Len(p)  z == P!Step(q, b)
<1>1. n \in Nat
  OBVIOUS
<1>0. /\ P!Frame(t, p)[1] = P!Byte(P!SOF) /\ P!Frame(t, p)[2] = P!Byte(t)
      /\ P!Frame(t, p)[3] = P!Byte(n)
  BY FrameSymbols
<1>8. P!Byte(P!SOF).n = P!SOF /\ P!Byte(t).n = t /\ P!Byte(n).n = n
  BY DEF P!Byte
<1>2. CASE k = 0
  <2>1. b.n = P!SOF /\ q.at.state = "sof"
    <3>1. b = P!Byte(P!SOF)
      BY <1>0, <1>2
    <3>2. q.at.state = "sof"
      BY <1>2 DEF After
    <3> QED BY <1>8, <3>1, <3>2
  <2> HIDE DEF b, z
  <2>2. z = Made(q.stats, "type", q.at.type, q.at.expected, q.at.payload, q.out)
    BY <2>1, StepSof DEF z
  <2>3. z.at.state = "type"
    BY <2>2, MadeFields
  <2> QED BY <1>1, <1>2, <2>3 DEF After, z, b
<1>3. CASE k = 1
  <2>1. b.n = t /\ q.at.state = "type"
    <3>1. b = P!Byte(t)
      BY <1>0, <1>3
    <3>2. q.at.state = "type"
      BY <1>3 DEF After
    <3> QED BY <1>8, <3>1, <3>2
  <2> HIDE DEF b, z
  <2>2. z = Made(q.stats, "length", t, q.at.expected, q.at.payload, q.out)
    BY <2>1, StepType DEF z
  <2>3. z.at.state = "length" /\ z.at.type = t
    BY <2>2, MadeFields
  <2> QED BY <1>1, <1>3, <2>3 DEF After, z, b
<1>4. CASE k = 2
  <2>1. b.n = n /\ q.at.state = "length" /\ q.at.type = t
    <3>1. b = P!Byte(n)
      BY <1>0, <1>4
    <3>2. q.at.state = "length" /\ q.at.type = t
      BY <1>4 DEF After
    <3> QED BY <1>8, <3>1, <3>2
  <2> HIDE DEF b, z
  <2>2. z = Made(q.stats, IF n = 0 THEN "crc" ELSE "payload", t, n, << >>, q.out)
    <3>1. ~(b.n > LengthCap(q.at.type) \/ b.n > MaxPayload)
      <4>1. LengthCap(t) \in Nat
        BY Bounds DEF LengthCap
      <4> QED BY <1>1, <2>1, <4>1, Bounds
    <3> QED BY <2>1, <3>1, StepLength DEF z
  <2>3. /\ z.at.state = (IF n = 0 THEN "crc" ELSE "payload") /\ z.at.type = t
        /\ z.at.expected = n /\ z.at.payload = << >>
    BY <2>2, MadeFields
  <2>4. CASE n = 0
    <3>1. p = << >>
      BY <2>4
    <3> QED BY <1>1, <1>4, <2>3, <2>4, <3>1 DEF After, z, b
  <2>5. CASE n # 0
    <3>1. SubSeq(p, 1, 0) = << >>
      OBVIOUS
    <3> QED BY <1>1, <1>4, <2>3, <2>5, <3>1 DEF After, z, b
  <2> QED BY <2>4, <2>5
<1>5. CASE k \in 3 .. n + 2
  <2> DEFINE s == SubSeq(p, 1, k - 3)  x == Append(s, b)
  <2>1. b = p[k - 2] /\ k - 2 \in 1 .. n
    <3>1. k - 2 \in 1 .. n /\ (k - 2) + 3 = k + 1
      BY <1>1, <1>5
    <3> QED BY <3>1, FrameSymbols, ZenonT(30)
  <2>2. q.at.state = "payload" /\ q.at.type = t /\ q.at.expected = n /\ q.at.payload = s
    BY <1>1, <1>5 DEF After
  <2> HIDE DEF b, z
  <2>3. x = SubSeq(p, 1, k - 2) /\ Len(x) = k - 2
    <3>1. k - 2 \in 1 .. n /\ k - 3 \in 0 .. n /\ (k - 3) + 1 = k - 2
      BY <1>1, <1>5
    <3> QED BY <2>1, <3>1
  <2> HIDE DEF s, x
  <2>4. z = Made(q.stats, IF k - 2 >= n THEN "crc" ELSE "payload", t, n, x, q.out)
    BY <2>2, <2>3, StepPayload DEF z, x
  <2>5. /\ z.at.state = (IF k - 2 >= n THEN "crc" ELSE "payload") /\ z.at.type = t
        /\ z.at.expected = n /\ z.at.payload = x
    BY <2>4, MadeFields
  <2>6. CASE k = n + 2
    <3>1. x = p
      BY <1>1, <2>3, <2>6
    <3> QED BY <1>1, <2>5, <2>6, <3>1 DEF After, z, b
  <2>7. CASE k # n + 2
    <3>1. /\ k + 1 \in 3 .. n + 2 /\ (k + 1) - 3 = k - 2 /\ ~(k - 2 >= n)
          /\ k + 1 # 0 /\ k + 1 # 1 /\ k + 1 # 2 /\ k + 1 # n + 3 /\ k + 1 # n + 4
      BY <1>1, <1>5, <2>7
    <3> QED BY <2>3, <2>5, <3>1 DEF After, z, b
  <2> QED BY <2>6, <2>7
<1>6. CASE k = n + 3
  <2>1. b = P!Crc(t, n, p)
    <3>1. k + 1 = n + 4
      BY <1>1, <1>6
    <3> QED BY <3>1, FrameSymbols
  <2>2. q.at.state = "crc" /\ q.at.type = t /\ q.at.expected = n /\ q.at.payload = p
    BY <1>1, <1>6 DEF After
  <2> HIDE DEF b, z
  <2> DEFINE y == <<t, p>>  out == Append(q.out, y)
  <2>3. \E stats : z = Made(stats, "sof", t, n, p, out)
    BY <2>1, <2>2, StepCheck DEF z
  <2>7. y \in Nat \X Seq(Symbols)
    <3>1. t \in Nat /\ p \in Seq(Symbols)
      BY Bounds DEF Symbols
    <3> QED BY <3>1
  <2> HIDE DEF y, out
  <2>4. z.at.state = "sof" /\ z.out = out
    BY <2>3, MadeFields
  <2>5. z.out # << >> /\ z.out[Len(z.out)] = y
    <3> DEFINE R == Nat \X Seq(Symbols)
    <3>1. q.out \in Seq(R) /\ y \in R
      BY <2>7 DEF Parsed
    <3> HIDE DEF R
    <3>2. out # << >> /\ out[Len(out)] = y
      BY <3>1 DEF out
    <3> QED BY <2>4, <3>2
  <2>6. /\ k + 1 = n + 4 /\ k + 1 \notin 3 .. n + 2 /\ k + 1 # n + 3
        /\ k + 1 # 0 /\ k + 1 # 1 /\ k + 1 # 2
    BY <1>1, <1>6
  <2> QED BY <2>4, <2>5, <2>6 DEF After, z, b, y
<1>7. k = 0 \/ k = 1 \/ k = 2 \/ k \in 3 .. n + 2 \/ k = n + 3
  BY <1>1
<1> QED BY <1>2, <1>3, <1>4, <1>5, <1>6, <1>7

LEMMA NothingLeft ==
  ASSUME NEW t \in {Ping, Command}, NEW p \in Seq(Bytes), NEW k \in 0 .. Len(P!Frame(t, p)),
         Drop(P!Frame(t, p), k) = << >>
  PROVE  k = Len(p) + 4
<1> DEFINE w == P!Frame(t, p)
<1>1. w \in Seq(Symbols) /\ Len(p) \in Nat /\ Len(w) = Len(p) + 4
  BY FrameSymbols
<1>2. k \in Nat /\ k <= Len(p) + 4
  BY <1>1
<1> HIDE DEF w
<1>3. ASSUME k < Len(w) PROVE FALSE
  <2>1. Len(SubSeq(w, k + 1, Len(w))) = Len(w) - k
    BY <1>1, <1>2, <1>3
  <2>2. SubSeq(w, k + 1, Len(w)) = << >>
    BY DEF Drop, w
  <2> QED BY <1>1, <1>2, <1>3, <2>1, <2>2
<1> QED BY <1>1, <1>2, <1>3

LEMMA WholeKept ==
  ASSUME Whole, UNCHANGED <<parser, sent, quiet>>, Rest' = Rest, ~damaged' => ~damaged
  PROVE  Whole'
<1> SUFFICES ASSUME quiet', ~damaged'
             PROVE  Whole'
  BY DEF Whole
<1>1. PICK t \in {Ping, Command}, p \in Seq(Bytes) :
        /\ Len(p) <= LengthCap(t) /\ Len(p) <= MaxPayload
        /\ sent # << >> /\ sent[Len(sent)] = <<t, p>>
        /\ Underway(t, p)
  BY DEF Whole
<1>2. Underway(t, p)'
  BY <1>1 DEF Underway, After
<1> QED BY <1>1, <1>2 DEF Whole

LEMMA WholeSend ==
  ASSUME RxInv, Whole, HostSends
  PROVE  Whole'
<1> SUFFICES ASSUME AtRest PROVE Whole'
  BY DEF HostSends, Whole
<1>1. PICK t \in {Ping, Command} : \E payload \in Payloads(t) :
        sent' = Append(sent, <<t, payload>>) /\ wire' = wire \o P!Frame(t, payload)
  BY DEF HostSends
<1>2. PICK p \in Payloads(t) :
        sent' = Append(sent, <<t, p>>) /\ wire' = wire \o P!Frame(t, p)
  BY <1>1
<1>3. <<t, p>> \in Frames /\ Len(p) <= LengthCap(t) /\ Len(p) <= MaxPayload
  BY PayloadsType DEF RxInv
<1>4. p \in Seq(Bytes)
  BY <1>3 DEF Frames
<1>5. sent' # << >> /\ sent'[Len(sent')] = <<t, p>>
  <2> DEFINE f == <<t, p>>
  <2>1. f \in Frames /\ sent \in Seq(Frames) /\ sent' = Append(sent, f)
    BY <1>2, <1>3 DEF RxInv, SymbolsType
  <2> HIDE DEF f
  <2>2. sent' # << >> /\ sent'[Len(sent')] = f
    BY <2>1
  <2> QED BY <2>2 DEF f
<1> DEFINE w == P!Frame(t, p)
<1>6. w \in Seq(Symbols) /\ Len(p) \in Nat /\ Len(w) = Len(p) + 4
  BY <1>4, FrameSymbols
<1> HIDE DEF w
<1>7. Rest' = Drop(w, 0)
  <2>1. wire' = << >> \o w /\ chunk' = << >> /\ ring' = << >>
    BY <1>2 DEF HostSends, AtRest, w
  <2>2. << >> \o w = w /\ SubSeq(w, 1, Len(w)) = w
    BY <1>6
  <2> QED BY <2>1, <2>2 DEF Rest, Drop
<1>8. After(parser', 0, t, p)
  <2>1. parser' = parser /\ parser.at.state = "sof"
    BY DEF HostSends, AtRest, RxInv, Watched, P!InFrame
  <2> QED BY <1>6, <2>1 DEF After
<1>9. Underway(t, p)'
  <2>1. 0 \in 0 .. Len(w)
    BY <1>6
  <2> QED BY <1>7, <1>8, <2>1 DEF Underway, After, w
<1> QED BY <1>3, <1>4, <1>5, <1>9 DEF Whole

LEMMA WholeReady ==
  ASSUME RxInv, Whole, RxReady, damaged \in BOOLEAN, damaged' \in BOOLEAN
  PROVE  Whole'
<1> SUFFICES ASSUME ~damaged' PROVE Whole'
  BY DEF Whole
<1>1. PICK n \in 1 .. Burst :
        /\ wire' = Drop(wire, n)
        /\ ring' = ring \o Take(Take(wire, n), RingSize - Len(ring))
        /\ damaged' = (damaged \/ Take(Take(wire, n), RingSize - Len(ring)) # Take(wire, n))
  BY DEF RxReady
<1> DEFINE got == Take(wire, n)  rest == Drop(wire, n)
<1>2. ~damaged /\ ring' = ring \o got
  BY <1>1
<1>3. /\ wire \in Seq(Symbols) /\ ring \in Seq(Symbols) /\ chunk \in Seq(Symbols) /\ n \in Nat
  BY Bounds DEF RxInv, SymbolsType
<1>4. wire = got \o rest /\ got \in Seq(Symbols) /\ rest \in Seq(Symbols)
  BY <1>3, TakeDrop, TakeType, DropType
<1>5. wire' = rest /\ chunk' = chunk /\ UNCHANGED <<parser, sent, quiet>>
  BY <1>1 DEF RxReady
<1> HIDE DEF got, rest
<1>6. ring \o (got \o rest) = (ring \o got) \o rest
  <2>1. ring \in Seq(Symbols) /\ got \in Seq(Symbols) /\ rest \in Seq(Symbols)
    BY <1>3, <1>4
  <2> QED BY <2>1
<1>7. Rest' = Rest
  BY <1>2, <1>4, <1>5, <1>6 DEF Rest
<1> QED BY <1>2, <1>5, <1>7, WholeKept

LEMMA WholeFeed ==
  ASSUME RxInv, Parsed(parser), Whole, RxFeed
  PROVE  Whole'
<1> SUFFICES ASSUME quiet, ~damaged PROVE Whole'
  BY DEF RxFeed, Whole
<1>1. PICK t \in {Ping, Command}, p \in Seq(Bytes) :
        /\ Len(p) <= LengthCap(t) /\ Len(p) <= MaxPayload
        /\ sent # << >> /\ sent[Len(sent)] = <<t, p>>
        /\ Underway(t, p)
  BY DEF Whole
<1> DEFINE w == P!Frame(t, p)
<1>2. PICK k \in 0 .. Len(w) : Rest = Drop(w, k) /\ After(parser, k, t, p)
  BY <1>1 DEF Underway
<1>3. w \in Seq(Symbols) /\ Len(p) \in Nat /\ Len(w) = Len(p) + 4
  BY FrameSymbols
<1> DEFINE b == Head(chunk)  c == Tail(chunk)  r == ring \o wire  one == <<b>>
<1>4. /\ chunk # << >> /\ chunk' = c /\ ring' = ring /\ wire' = wire
      /\ UNCHANGED <<sent, quiet, damaged>> /\ parser' = P!Step(parser, b)
  BY DEF RxFeed
<1>5. r \in Seq(Symbols) /\ chunk \in Seq(Symbols)
  BY DEF RxInv, SymbolsType
<1>6. b \in Symbols /\ c \in Seq(Symbols) /\ chunk = one \o c
  BY <1>4, <1>5, HeadTail
<1>7. Rest = (one \o c) \o r /\ Rest' = c \o r
  BY <1>4, <1>6 DEF Rest
<1> HIDE DEF w, c, r, b, one
<1>8. Rest # << >> /\ Rest[1] = b /\ Tail(Rest) = c \o r
  <2>1. b \in Symbols /\ c \in Seq(Symbols) /\ r \in Seq(Symbols)
    BY <1>5, <1>6
  <2>2. /\ (<<b>> \o c) \o r # << >> /\ ((<<b>> \o c) \o r)[1] = b
        /\ Tail((<<b>> \o c) \o r) = c \o r
    <3> DEFINE z == c \o r
    <3>1. z \in Seq(Symbols) /\ (<<b>> \o c) \o r = <<b>> \o z
      BY <2>1
    <3> HIDE DEF z
    <3>2. <<b>> \o z # << >> /\ (<<b>> \o z)[1] = b /\ Tail(<<b>> \o z) = z
      BY <2>1, <3>1
    <3> QED BY <3>1, <3>2 DEF z
  <2> QED BY <1>7, <2>2 DEF one
<1>9. k < Len(w) /\ b = w[k + 1] /\ c \o r = Drop(w, k + 1)
  <2>1. k \in Nat /\ k <= Len(w) /\ Len(w) \in Nat
    BY <1>3
  <2> DEFINE z == SubSeq(w, k + 1, Len(w))
  <2>2. z # << >> /\ z[1] = b /\ Tail(z) = c \o r
    BY <1>2, <1>8 DEF Drop
  <2>3. k < Len(w)
    <3>1. CASE k = Len(w)
      <4>1. z = << >>
        BY <1>3, <2>1, <3>1
      <4> QED BY <2>2, <4>1
    <3> QED BY <2>1, <3>1
  <2>4. z[1] = w[k + 1] /\ Tail(z) = SubSeq(w, k + 2, Len(w))
    <3> HIDE DEF z
    <3>1. /\ z \in Seq(Symbols) /\ Len(z) = Len(w) - k
          /\ \A i \in 1 .. Len(w) - k : z[i] = w[k + i]
      BY <1>3, <2>1, <2>3 DEF z
    <3> DEFINE x == Tail(z)  y == SubSeq(w, k + 2, Len(w))
    <3>2. /\ x \in Seq(Symbols) /\ Len(x) = (Len(w) - k) - 1
          /\ \A i \in 1 .. (Len(w) - k) - 1 : x[i] = z[i + 1]
      BY <2>1, <2>3, <3>1
    <3>3. /\ y \in Seq(Symbols) /\ Len(y) = (Len(w) - k) - 1
          /\ \A i \in 1 .. (Len(w) - k) - 1 : y[i] = w[(k + 1) + i]
      <4> DEFINE m == k + 2
      <4>1. m \in Nat \ {0} /\ m <= Len(w) + 1
        BY <2>1, <2>3
      <4> HIDE DEF m
      <4>2. /\ SubSeq(w, m, Len(w)) \in Seq(Symbols)
            /\ Len(SubSeq(w, m, Len(w))) = (Len(w) - m) + 1
            /\ \A i \in 1 .. (Len(w) - m) + 1 : SubSeq(w, m, Len(w))[i] = w[(m + i) - 1]
        <5>1. w \in Seq(Symbols)
          BY <1>3
        <5> QED BY <4>1, <5>1, SubSeqFacts
      <4>3. m = k + 2 /\ (Len(w) - m) + 1 = (Len(w) - k) - 1
        BY <2>1 DEF m
      <4>4. y = SubSeq(w, m, Len(w))
        BY <4>3
      <4> HIDE DEF y
      <4>5. ASSUME NEW i \in 1 .. (Len(w) - k) - 1 PROVE y[i] = w[(k + 1) + i]
        <5>1. (m + i) - 1 = (k + 1) + i
          BY <2>1, <4>3
        <5>2. i \in 1 .. (Len(w) - m) + 1
          BY <4>3, Zenon
        <5> QED BY <4>2, <4>4, <5>1, <5>2, Zenon
      <4> QED BY <4>2, <4>3, <4>4, <4>5, Zenon
    <3> HIDE DEF x, y
    <3>4. ASSUME NEW i \in 1 .. Len(x) PROVE x[i] = y[i]
      <4>1. /\ i \in 1 .. (Len(w) - k) - 1 /\ i + 1 \in 1 .. Len(w) - k
            /\ k + (i + 1) = (k + 1) + i
        BY <2>1, <2>3, <3>2
      <4> QED BY <3>1, <3>2, <3>3, <4>1
    <3>5. x = y
      BY <3>2, <3>3, <3>4, SameSeq
    <3>6. z[1] = w[k + 1]
      <4>1. 1 \in 1 .. Len(w) - k
        BY <2>1, <2>3
      <4> QED BY <3>1, <4>1
    <3> QED BY <3>5, <3>6 DEF x, y
  <2>5. (k + 1) + 1 = k + 2
    BY <2>1
  <2> QED BY <2>2, <2>3, <2>4, <2>5 DEF Drop
<1>10. After(parser', k + 1, t, p)
  <2>1. k \in 0 .. Len(p) + 3
    BY <1>3, <1>9
  <2>2. Shape(parser)
    BY DEF RxInv, Watched
  <2> QED BY <1>1, <1>2, <1>4, <1>9, <2>1, <2>2, AfterStep DEF w
<1>11. Underway(t, p)'
  <2>1. k + 1 \in 0 .. Len(w)
    BY <1>3, <1>9
  <2> QED BY <1>7, <1>9, <1>10, <2>1 DEF Underway, After, w
<1> QED BY <1>1, <1>4, <1>11 DEF Whole

\* A timeout finds a whole frame consumed, and the parser waiting for the next.
LEMMA WholeIdle ==
  ASSUME RxInv, Whole, IdleTimeout
  PROVE  Whole'
<1> SUFFICES ASSUME quiet, ~damaged PROVE Whole'
  BY DEF IdleTimeout, Whole
<1>1. PICK t \in {Ping, Command}, p \in Seq(Bytes) : Underway(t, p)
  BY DEF Whole
<1>2. PICK k \in 0 .. Len(P!Frame(t, p)) :
        Rest = Drop(P!Frame(t, p), k) /\ After(parser, k, t, p)
  BY <1>1 DEF Underway
<1>3. Rest = << >>
  BY DEF IdleTimeout, Rest
<1>4. k = Len(p) + 4
  BY <1>2, <1>3, NothingLeft
<1>5. parser.at.state = "sof"
  BY <1>2, <1>4 DEF After
<1>6. parser' = parser
  BY <1>5 DEF IdleTimeout, P!TimedOut, P!InFrame
<1>7. Rest' = Rest /\ UNCHANGED <<sent, quiet, damaged>>
  BY DEF IdleTimeout, Rest
<1>8. UNCHANGED <<parser, sent, quiet>> /\ (~damaged' => ~damaged)
  BY <1>6, <1>7
<1> QED BY <1>7, <1>8, WholeKept

-----------------------------------------------------------------------------
(* The two theorems about frames.                                          *)

FrameInv == IInv /\ Parsed(parser) /\ Following /\ Whole

LEMMA InitialFrameInv == ASSUME Init PROVE FrameInv
<1>1. IInv
  BY InitialIInv
<1>2. P!Begin = Made(P!Begin.stats, "sof", 0, 0, << >>, << >>)
  BY DEF P!Begin, P!Idle, Made
<1>3. parser.at.state = "sof" /\ parser.at.type = 0 /\ parser.at.payload = << >> /\ parser.out = << >>
  BY <1>2, MadeFields DEF Init
<1>4. Parsed(parser)
  <2>1. Len(parser.at.payload) = 0 /\ parser.at.payload \in Seq(Symbols)
    BY <1>3
  <2>2. parser.out \in Seq(Nat \X Seq(Symbols))
    BY <1>3
  <2> QED BY <1>3, <2>1, <2>2, Bounds DEF Parsed
<1>5. Following
  <2>1. Accounts(<< >>, {}, parser.out, faults)
    <3>1. << >> \in Seq(Symbols) /\ Len(<< >>) = 0 /\ faults = 0
      BY DEF Init
    <3> QED BY <1>3, <3>1, FS_EmptySet DEF Accounts
  <2>2. Rest = << >>
    BY DEF Init, Rest
  <2>3. Len(<< >> \o << >>) = 0
    OBVIOUS
  <2>4. Places(<< >> \o << >>, sent, [i \in 1 .. Len(<< >> \o << >>) |-> 0])
    BY <2>3 DEF Places
  <2>5. [i \in 1 .. Len(<< >> \o << >>) |-> 0] \in [1 .. Len(<< >> \o << >>) -> Nat]
    OBVIOUS
  <2>6. << >> \in Seq(Symbols) /\ {} \in SUBSET Nat
    OBVIOUS
  <2>7. Traced(<< >> \o Rest, sent)
    BY <2>2, <2>4, <2>5 DEF Traced
  <2> QED BY <2>1, <2>6, <2>7 DEF Following
<1>6. Whole
  BY DEF Init, Whole
<1> QED BY <1>1, <1>4, <1>5, <1>6 DEF FrameInv

LEMMA NextFrameInv == ASSUME FrameInv, [Next]_vars PROVE FrameInv'
<1> USE DEF FrameInv
<1>1. IInv'
  BY NextIInv
<1>2. SymbolsType /\ Shape(parser) /\ RxInv /\ damaged \in BOOLEAN /\ damaged' \in BOOLEAN
  BY <1>1 DEF IInv, RxInv, Watched, Flags
<1>3. CASE HostSends
  <2>1. Parsed(parser')
    BY <1>3 DEF HostSends
  <2> QED BY <1>1, <1>2, <1>3, <2>1, FollowingSend, WholeSend
<1>4. CASE BusError
  <2>1. Whole'
    BY <1>4 DEF BusError, BusFails, Whole
  <2> QED BY <1>1, <1>2, <1>4, <2>1, FollowingError
<1>5. CASE RxReady
  <2>1. Parsed(parser')
    BY <1>5 DEF RxReady
  <2> QED BY <1>1, <1>2, <1>5, <2>1, FollowingReady, WholeReady
<1>6. CASE RxFeed
  BY <1>1, <1>2, <1>6, FollowingFeed, WholeFeed
<1>7. CASE RxTake \/ RxDone \/ IdleTimeout \/ TxWork \/ TxDone \/ UNCHANGED vars
  <2>1. Following' /\ Parsed(parser')
    BY <1>2, <1>7, FollowingOther
  <2>2. Whole'
    <3>1. CASE IdleTimeout
      BY <1>2, <3>1, WholeIdle
    <3>2. CASE ~IdleTimeout
      <4>1. UNCHANGED <<parser, sent, quiet, damaged>>
        BY <1>7, <3>2 DEF RxTake, RxDone, TxWork, TxDone, rxVars, vars
      <4>2. Rest' = Rest
        BY <1>2, <1>7, RestKept
      <4> QED BY <1>2, <4>1, <4>2, WholeKept
    <3> QED BY <3>1, <3>2
  <2> QED BY <1>1, <2>1, <2>2
<1>8. CASE BusErrorInFeed
  <2>1. Whole'
    BY <1>8 DEF BusErrorInFeed, BusFails, Whole
  <2> QED BY <1>1, <1>2, <1>8, <2>1, FollowingErrorInFeed
<1> QED BY <1>3, <1>4, <1>5, <1>6, <1>7, <1>8 DEF Next, Receive

LEMMA FrameInvariant == Spec => []FrameInv
<1>1. Init => FrameInv
  BY InitialFrameInv
<1>2. FrameInv /\ [Next]_vars => FrameInv'
  BY NextFrameInv
<1> QED BY <1>1, <1>2, PTL DEF Spec

\* Whatever is lost or reset, for any frames and any bounds, the board acts only
\* on frames the host sent, each at most once and in their order; a reset between
\* the comparison of a checksum and the delivery takes the payload of a frame, of
\* one per bus error; and a frame in the making stays within the payload buffer
\* (proto_feed, proto_parser_reset).
THEOREM OnlySentFrames == Spec => []DeliveredWereSent
<1>1. FrameInv => DeliveredWereSent
  <2> SUFFICES ASSUME FrameInv PROVE DeliveredWereSent
    OBVIOUS
  <2> DEFINE out == parser.out
  <2>1. /\ Len(parser.at.payload) <= MaxPayload
        /\ out \in Seq(Nat \X Seq(Symbols)) /\ sent \in Seq(Frames)
        /\ Rest \in Seq(Symbols)
    BY DEF FrameInv, Parsed, IInv, RxInv, SymbolsType, Rest
  <2>2. PICK d \in Seq(Symbols), cut \in SUBSET Nat :
          Accounts(d, cut, out, faults) /\ Traced(d \o Rest, sent)
    BY DEF FrameInv, Following
  <2> DEFINE s == d \o Rest
  <2>3. PICK g \in [1 .. Len(s) -> Nat] : Places(s, sent, g)
    BY <2>2 DEF Traced
  <2>4. \A i \in 1 .. Len(out) : i \in 1 .. Len(s) /\ s[i] = d[i]
    BY <2>1, <2>2 DEF Accounts
  <2> HIDE DEF s
  <2>5. ASSUME NEW i \in 1 .. Len(out)
        PROVE  /\ i \in 1 .. Len(s) /\ IsSum(s[i]) /\ g[i] \in 1 .. Len(sent)
               /\ out[i] = (IF i \in cut THEN Emptied(sent[g[i]]) ELSE sent[g[i]])
    <3>1. PICK x \in Frames : d[i] = SumOf(x) /\ out[i] = (IF i \in cut THEN Emptied(x) ELSE x)
      BY <2>2 DEF Accounts
    <3>2. i \in 1 .. Len(s) /\ s[i] = SumOf(x) /\ IsSum(s[i])
      BY <2>4, <3>1, SumIsSum
    <3>3. g[i] \in 1 .. Len(sent) /\ SumOf(x) = SumOf(sent[g[i]])
      BY <2>3, <3>2 DEF Places
    <3> DEFINE y == sent[g[i]]
    <3>4. y \in Frames
      BY <2>1, <3>3
    <3> HIDE DEF y
    <3>5. x[1] = y[1] /\ x[2] = y[2]
      <4>1. SumOf(x) = P!Crc(y[1], Len(y[2]), y[2])
        BY <3>3 DEF SumOf, y
      <4> QED BY <4>1, SumsDiffer
    <3>6. x = y
      BY <3>4, <3>5 DEF Frames
    <3> QED BY <3>1, <3>2, <3>3, <3>6 DEF y
  <2> DEFINE place == [i \in DOMAIN out |-> g[i]]
  <2>6. DOMAIN out = 1 .. Len(out) /\ DOMAIN sent = 1 .. Len(sent)
    BY <2>1
  <2>7. place \in [DOMAIN out -> DOMAIN sent]
    BY <2>5, <2>6
  <2>8. ASSUME NEW i \in DOMAIN out, NEW j \in DOMAIN out, i < j
        PROVE  place[i] < place[j]
    <3>1. /\ i \in 1 .. Len(s) /\ j \in 1 .. Len(s) /\ IsSum(s[i]) /\ IsSum(s[j])
      BY <2>5, <2>6
    <3>2. g[i] < g[j]
      BY <2>3, <2>8, <3>1 DEF Places
    <3> QED BY <3>2
  <2>9. \A i \in DOMAIN out : place[i] = g[i]
    OBVIOUS
  <2> HIDE DEF place
  <2>10. \A i \in DOMAIN out : out[i] \in {sent[place[i]], Emptied(sent[place[i]])}
    BY <2>5, <2>6, <2>9
  <2>11. Cardinality({i \in DOMAIN out : out[i] # sent[place[i]]}) <= faults
    <3> DEFINE torn == {i \in DOMAIN out : out[i] # sent[place[i]]}
    <3>1. torn \subseteq cut
      BY <2>5, <2>6, <2>9
    <3> HIDE DEF torn
    <3>2. cut \subseteq 1 .. Len(out) /\ Cardinality(cut) <= faults /\ faults \in Nat
      BY <2>2 DEF Accounts
    <3>3. Len(out) \in Nat
      BY <2>1
    <3>4. IsFiniteSet(cut)
      BY <3>2, <3>3, PartOfInterval
    <3>5. /\ Cardinality(torn) <= Cardinality(cut)
          /\ Cardinality(torn) \in Nat /\ Cardinality(cut) \in Nat
      BY <3>1, <3>4, FS_Subset, FS_CardinalityType
    <3>6. Cardinality(torn) <= faults
      BY <3>2, <3>5
    <3> QED BY <3>6 DEF torn
  <2> QED BY <2>1, <2>7, <2>8, <2>10, <2>11 DEF DeliveredWereSent
<1> QED BY <1>1, FrameInvariant, PTL

\* A frame sent to a board at rest of which no symbol is lost is delivered, for any
\* frame, whatever was lost before: the parser takes it symbol by symbol, and no
\* timeout falls inside it (rx_work_handler, idle_work_handler).
THEOREM WholeFramesArrive == Spec => []WholeFrameArrives
<1>1. FrameInv => WholeFrameArrives
  <2> SUFFICES ASSUME FrameInv, AtRest, quiet, ~damaged
               PROVE  parser.out # << >> /\ parser.out[Len(parser.out)] = sent[Len(sent)]
    BY DEF WholeFrameArrives
  <2>1. PICK t \in {Ping, Command}, p \in Seq(Bytes) :
          sent[Len(sent)] = <<t, p>> /\ Underway(t, p)
    BY DEF FrameInv, Whole
  <2>2. PICK k \in 0 .. Len(P!Frame(t, p)) :
          Rest = Drop(P!Frame(t, p), k) /\ After(parser, k, t, p)
    BY <2>1 DEF Underway
  <2>3. Rest = << >>
    BY DEF AtRest, Rest
  <2>4. k = Len(p) + 4
    BY <2>2, <2>3, NothingLeft
  <2> QED BY <2>1, <2>2, <2>4 DEF After
<1> QED BY <1>1, FrameInvariant, PTL
===============================================================================
