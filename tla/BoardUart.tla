------------------------------ MODULE BoardUart -------------------------------
(***************************************************************************)
(* The board's end of the serial link (firmware/nordic/src/uart_link.c):   *)
(* the UART interrupt fills a ring, work items on the system work queue    *)
(* drain it through the frame parser and time out a frame left open, and a *)
(* queue of replies is sent one frame at a time.  The host, the wire and   *)
(* the UART peripheral are external.                                       *)
(*                                                                         *)
(* An interrupt can come between any two symbols of a work item, and       *)
(* within one: proto_parser_reset runs in the interrupt, between any two   *)
(* writes of proto_feed.                                                   *)
(***************************************************************************)
EXTENDS Integers, Sequences, FiniteSets

CONSTANTS
  Ping, Command,  \* a frame type without a payload, and one with
  MaxPayload,     \* the longest payload of a command
  CrcReads,       \* what a checksum reads as, taken for another field
  Burst,          \* the most symbols of one UART_RX_RDY
  RingSize, ChunkSize, TxDepth,  \* RX_RING_SIZE, the work item's chunk, TX_QUEUE_DEPTH
  MaxFrames,      \* bound: frames the host sends
  MaxFaults       \* bound: bus errors, and transmissions that fail

ASSUME UartAssumption ==
  /\ Ping \in Nat /\ Command \in Nat /\ Ping # Command /\ CrcReads \in Nat
  /\ MaxPayload \in Nat \ {0, 1} /\ Burst \in Nat \ {0} /\ RingSize \in Nat \ {0}
  /\ ChunkSize \in Nat \ {0} /\ TxDepth \in Nat \ {0}
  /\ MaxFrames \in Nat /\ MaxFaults \in Nat

VARIABLES
  wire,      \* symbols on their way to the board
  sent,      \* the frames the host sent: their types and payloads
  ring, chunk,  \* rx_ring, and what the work item took of it
  rxWork,    \* rx_work is submitted
  idleTimer, \* idle_work is scheduled
  parser,    \* the parser, its counters, and the frames it delivered
  faults,    \* bus errors so far
  damaged,   \* a symbol was lost, or the parser reset, since the newest frame began
  quiet,     \* the newest frame was sent with nothing under way at the board
  txQueue, txCurrent, txBusy, txWork,  \* tx_queue, tx_current, tx_in_progress, tx_work
  txFailed,  \* the last uart_tx failed
  tx         \* stats.tx_frames, stats.tx_dropped, and replies asked for

rxVars == <<wire, sent, ring, chunk, rxWork, idleTimer, parser, faults, damaged, quiet>>
txVars == <<txQueue, txCurrent, txBusy, txWork, txFailed, tx>>
vars == <<wire, sent, ring, chunk, rxWork, idleTimer, parser, faults, damaged, quiet,
          txQueue, txCurrent, txBusy, txWork, txFailed, tx>>

LengthCap(t) == IF t = Command THEN MaxPayload ELSE 0

P == INSTANCE FrameParser WITH Types <- {Ping, Command}, LengthCap <- LengthCap

Init ==
  /\ wire = << >> /\ sent = << >> /\ ring = << >> /\ chunk = << >>
  /\ rxWork = FALSE /\ idleTimer = FALSE /\ parser = P!Begin
  /\ faults = 0 /\ damaged = FALSE /\ quiet = FALSE
  /\ txQueue = << >> /\ txCurrent = 0 /\ txBusy = FALSE /\ txWork = FALSE
  /\ txFailed = FALSE /\ tx = [frames |-> 0, dropped |-> 0, asked |-> 0]

AtRest == wire = << >> /\ ring = << >> /\ chunk = << >> /\ ~rxWork /\ ~idleTimer

-----------------------------------------------------------------------------
(* The host and the wire *)

(* Payloads are told apart by their first symbol; the second is any.       *)
Payloads(t) ==
  IF t = Ping THEN {<< >>}
  ELSE LET number == P!Byte(Len(sent) + 1)
       IN  {<<number>>} \cup {<<number, P!Byte(n)>> : n \in {P!SOF, Ping, Command}}

HostSends ==
  /\ Len(sent) < MaxFrames
  /\ \E t \in {Ping, Command} : \E payload \in Payloads(t) :
       /\ sent' = Append(sent, <<t, payload>>)
       /\ wire' = wire \o P!Frame(t, payload)
  /\ quiet' = AtRest /\ damaged' = FALSE
  /\ UNCHANGED <<ring, chunk, rxWork, idleTimer, parser, faults, txVars>>

Take(s, n) == SubSeq(s, 1, IF n < Len(s) THEN n ELSE Len(s))
Drop(s, n) == SubSeq(s, n + 1, Len(s))

(* UART_RX_RDY, of a full buffer or of an idle line: what the ring has no  *)
(* room for is lost.                                                       *)
RxReady == \E n \in 1 .. Burst :
  /\ n <= Len(wire)
  /\ LET got == Take(wire, n)
         put == Take(got, RingSize - Len(ring))
     IN  /\ wire' = Drop(wire, n)
         /\ ring' = ring \o put
         /\ damaged' = (damaged \/ put # got)
  /\ rxWork' = TRUE
  /\ UNCHANGED <<sent, chunk, idleTimer, parser, faults, quiet, txVars>>

(* UART_RX_STOPPED and UART_RX_DISABLED: symbols are lost, reception is    *)
(* enabled again and the parser is reset; the ring keeps what it holds.    *)
BusFails ==
  /\ wire # << >> /\ faults < MaxFaults
  /\ faults' = faults + 1
  /\ wire' = Tail(wire) /\ damaged' = TRUE
  /\ UNCHANGED <<sent, ring, rxWork, idleTimer, quiet>>

BusError ==
  /\ BusFails
  /\ parser' = P!Reset(parser)
  /\ UNCHANGED <<chunk, txVars>>

-----------------------------------------------------------------------------
(* The work queue *)

RxTake ==
  /\ rxWork /\ chunk = << >> /\ ring # << >>
  /\ chunk' = Take(ring, ChunkSize)
  /\ ring' = Drop(ring, ChunkSize)
  /\ UNCHANGED <<wire, sent, rxWork, idleTimer, parser, faults, damaged, quiet, txVars>>

(* Mutant of Send: the reply a full queue drops is not counted.            *)
SendUncounted ==
  /\ tx' = [tx EXCEPT !.asked = @ + 1]
  /\ txQueue' = Take(Append(txQueue, tx.asked + 1), TxDepth)
  /\ txWork' = TRUE
  /\ UNCHANGED <<txCurrent, txBusy, txFailed>>

(* uart_link_send: the reply is queued, or dropped and counted.            *)
Send ==
  /\ IF Len(txQueue) < TxDepth
     THEN /\ txQueue' = Append(txQueue, tx.asked + 1)
          /\ txWork' = TRUE
          /\ tx' = [tx EXCEPT !.asked = @ + 1]
     ELSE /\ tx' = [tx EXCEPT !.asked = @ + 1, !.dropped = @ + 1]
          /\ UNCHANGED <<txQueue, txWork>>
  /\ UNCHANGED <<txCurrent, txBusy, txFailed>>

(* One symbol through proto_feed; a frame it completes is answered.        *)
RxFeed ==
  /\ chunk # << >>
  /\ parser' = P!Step(parser, Head(chunk))
  /\ chunk' = Tail(chunk)
  /\ IF parser'.stats.ok > parser.stats.ok THEN Send ELSE UNCHANGED txVars
  /\ UNCHANGED <<wire, sent, ring, rxWork, idleTimer, faults, damaged, quiet>>

(* The bus fails while the work item is inside a symbol.                   *)
BusErrorInFeed ==
  /\ BusFails
  /\ chunk # << >>
  /\ parser' \in P!Torn(parser, Head(chunk))
  /\ chunk' = Tail(chunk)
  /\ IF parser'.stats.ok > parser.stats.ok THEN Send ELSE UNCHANGED txVars

RxDone ==
  /\ rxWork /\ chunk = << >> /\ ring = << >>
  /\ rxWork' = FALSE
  /\ idleTimer' = P!InFrame(parser)
  /\ UNCHANGED <<wire, sent, ring, chunk, parser, faults, damaged, quiet, txVars>>

(* FRAME_IDLE_TIMEOUT_MS of silence: the host does not pause that long     *)
(* within a frame.                                                         *)
IdleTimeout ==
  /\ idleTimer /\ wire = << >> /\ ring = << >> /\ chunk = << >> /\ ~rxWork
  /\ idleTimer' = FALSE
  /\ parser' = P!TimedOut(parser)
  /\ UNCHANGED <<wire, sent, ring, chunk, rxWork, faults, damaged, quiet, txVars>>

(* tx_work: hands one frame to the UART.  A failure is counted and the     *)
(* work is not submitted again.                                            *)
TxWork ==
  /\ txWork /\ txWork' = FALSE
  /\ IF txBusy \/ txQueue = << >>
     THEN UNCHANGED <<txQueue, txCurrent, txBusy, txFailed, tx, faults>>
     ELSE /\ txCurrent' = Head(txQueue) /\ txQueue' = Tail(txQueue)
          /\ \/ /\ txBusy' = TRUE /\ txFailed' = FALSE
                /\ tx' = [tx EXCEPT !.frames = @ + 1]
                /\ UNCHANGED faults
             \/ /\ faults < MaxFaults /\ faults' = faults + 1
                /\ txFailed' = TRUE
                /\ tx' = [tx EXCEPT !.dropped = @ + 1]
                /\ UNCHANGED txBusy
  /\ UNCHANGED <<wire, sent, ring, chunk, rxWork, idleTimer, parser, damaged, quiet>>

(* UART_TX_DONE, UART_TX_ABORTED.                                          *)
TxDone ==
  /\ txBusy /\ txBusy' = FALSE
  /\ txWork' = TRUE
  /\ UNCHANGED <<rxVars, txQueue, txCurrent, txFailed, tx>>

Receive == RxReady \/ RxTake \/ RxFeed \/ RxDone \/ IdleTimeout

Next == HostSends \/ BusError \/ BusErrorInFeed \/ Receive \/ TxWork \/ TxDone

Spec == Init /\ [][Next]_vars

-----------------------------------------------------------------------------
(* Properties *)

TypeOK ==
  /\ Len(ring) <= RingSize /\ Len(chunk) <= ChunkSize /\ Len(txQueue) <= TxDepth
  /\ parser.at.state \in {"sof", "type", "length", "payload", "crc"}
  /\ rxWork \in BOOLEAN /\ idleTimer \in BOOLEAN /\ damaged \in BOOLEAN /\ quiet \in BOOLEAN
  /\ txBusy \in BOOLEAN /\ txWork \in BOOLEAN /\ txFailed \in BOOLEAN

(* A frame with its payload gone.                                          *)
Emptied(f) == <<f[1], << >>>>

(* Whatever is lost, the board acts only on frames the host sent, once and *)
(* in order: a payload that contains the start of a frame does not become  *)
(* one (proto_feed, "would otherwise resynchronise inside a payload").     *)
(* An interrupt that resets the parser between the comparison of a         *)
(* checksum and the delivery takes the payload of that frame away, and of  *)
(* no other: there are no more such frames than bus errors.  A frame in    *)
(* the making stays within the payload buffer of the parser.               *)
DeliveredWereSent ==
  /\ \E place \in [DOMAIN parser.out -> DOMAIN sent] :
       /\ \A i, j \in DOMAIN parser.out : i < j => place[i] < place[j]
       /\ \A i \in DOMAIN parser.out :
            parser.out[i] \in {sent[place[i]], Emptied(sent[place[i]])}
       /\ Cardinality({i \in DOMAIN parser.out : parser.out[i] # sent[place[i]]}) <= faults
  /\ Len(parser.at.payload) <= MaxPayload

(* The link does not stay inside a frame that will not be completed: once  *)
(* everything is consumed and no timer runs the parser waits for a start   *)
(* (rx_work_handler arms the idle timeout, idle_work_handler).             *)
QuietIsSynchronised == AtRest => ~P!InFrame(parser)

(* A frame sent to a quiet board and not damaged on the way is delivered,  *)
(* whatever was lost before it: what a truncated frame can swallow is      *)
(* bounded by the idle timeout.                                            *)
WholeFrameArrives ==
  AtRest /\ quiet /\ ~damaged =>
    parser.out # << >> /\ parser.out[Len(parser.out)] = sent[Len(sent)]

(* Every reply asked for is sent, dropped and counted, or still queued     *)
(* (stats.tx_frames, stats.tx_dropped).                                    *)
RepliesAccounted == tx.asked = tx.frames + tx.dropped + Len(txQueue)

(* A queued reply waits for nothing but the work queue or the frame being  *)
(* sent, except after a uart_tx that failed: then it waits for the next    *)
(* reply to be queued (tx_work_handler).                                   *)
RepliesNotForgotten == txQueue # << >> => txBusy \/ txWork \/ txFailed

(* The link keeps its promises between two frames: it returns to a start,  *)
(* and no reply is lost without a count or left behind (uart_link.c).      *)
UartInv == TypeOK /\ QuietIsSynchronised /\ RepliesAccounted /\ RepliesNotForgotten
===============================================================================
