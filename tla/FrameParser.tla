----------------------------- MODULE FrameParser ------------------------------
(***************************************************************************)
(* The framing of the serial link, as both ends parse it                   *)
(* (vertex/serial/proto.py, firmware/nordic/src/proto.c):                  *)
(*     SOF  TYPE  LENGTH  PAYLOAD[LENGTH]  CRC                             *)
(* A symbol stands for one byte, or for the two bytes of a LENGTH or a CRC:*)
(* the number it reads as, and what it is the checksum of.                 *)
(* Payload symbols take every value, SOF and the types included.           *)
(***************************************************************************)
EXTENDS Integers, Sequences

CONSTANTS
  Types,      \* the frame types this end knows
  LengthCap(_),  \* max_len_for: the longest payload of a type
  MaxPayload, \* PROTO_MAX_PAYLOAD
  CrcReads    \* what a checksum reads as, taken for another field

SOF == 9

Byte(n) == [n |-> n, of |-> << >>]

(* An ideal checksum: different spans have different sums, and nothing     *)
(* else passes for one.                                                    *)
Crc(type, length, payload) == [n |-> CrcReads, of |-> <<type, length, payload>>]

Frame(type, payload) ==
  <<Byte(SOF), Byte(type), Byte(Len(payload))>> \o payload
    \o <<Crc(type, Len(payload), payload)>>

Idle == [state |-> "sof", type |-> 0, expected |-> 0, payload |-> << >>]

Begin == [stats |-> [ok |-> 0, crc |-> 0, len |-> 0, resyncs |-> 0, timeouts |-> 0],
          at |-> Idle, out |-> << >>]

InFrame(p) == p.at.state # "sof"

At(p, s) == [p EXCEPT !.at.state = s]
Counting(p, f) == [p EXCEPT !.stats[f] = @ + 1]
Resync(p) == Counting(At(p, "sof"), "resyncs")

Sof(p, b) == IF b.n = SOF THEN At(p, "type") ELSE p

Type(p, b) == IF b.n \in Types THEN [At(p, "length") EXCEPT !.at.type = b.n] ELSE Resync(p)

Length(p, b) ==
  IF b.n > LengthCap(p.at.type) \/ b.n > MaxPayload
  THEN Counting(Resync(p), "len")
  ELSE [At(p, IF b.n = 0 THEN "crc" ELSE "payload")
          EXCEPT !.at.expected = b.n, !.at.payload = << >>]

(* Mutant of Payload: the state is reset after every payload byte.         *)
PayloadReset(p, b) == [At(p, "sof") EXCEPT !.at.payload = Append(@, b)]

Payload(p, b) ==
  LET q == [p EXCEPT !.at.payload = Append(@, b)]
  IN  IF Len(q.at.payload) >= p.at.expected THEN At(q, "crc") ELSE q

Deliver(p, payload) ==
  [Counting(At(p, "sof"), "ok") EXCEPT !.out = Append(@, <<p.at.type, payload>>)]

(* Mutant of Check: a frame whose checksum is wrong is delivered as well.  *)
CheckAnyhow(p, b) == Deliver(p, p.at.payload)

Matches(p, b) == b = Crc(p.at.type, p.at.expected, p.at.payload)

Refuse(p) == Counting(Resync(p), "crc")

Check(p, b) == IF Matches(p, b) THEN Deliver(p, p.at.payload) ELSE Refuse(p)

(* proto_feed, for one symbol.                                             *)
Step(p, b) ==
  CASE p.at.state = "sof"     -> Sof(p, b)
    [] p.at.state = "type"    -> Type(p, b)
    [] p.at.state = "length"  -> Length(p, b)
    [] p.at.state = "payload" -> Payload(p, b)
    [] p.at.state = "crc"     -> Check(p, b)

Reset(p) == [p EXCEPT !.at = [Idle EXCEPT !.type = p.at.type]]

(* proto_feed, with a reset by an interrupt inside the symbol: what was    *)
(* written before it is lost, what is written after it stays.  The lengths *)
(* are zeroed, so an open frame is left with a payload in the making, or   *)
(* the one byte; and a frame whose checksum matched, with no payload.      *)
Torn(p, b) ==
  LET Left(s, payload) ==
        [p EXCEPT !.at = [state |-> s, type |-> p.at.type, expected |-> 0, payload |-> payload]]
      short == b.n > 0 /\ b.n <= LengthCap(p.at.type) /\ b.n <= MaxPayload
  IN  {Reset(p)} \cup
      CASE p.at.state = "length"  ->
             {Step(p, b), Left("crc", << >>)} \cup (IF short THEN {Left("payload", << >>)} ELSE {})
        [] p.at.state = "payload" ->
             {Left("crc", held) : held \in {<< >>, <<b>>, Append(p.at.payload, b)}}
        [] p.at.state = "crc"     ->
             {Step(p, b), Refuse(p)} \cup (IF Matches(p, b) THEN {Deliver(p, << >>)} ELSE {})
        [] OTHER                  -> {Step(p, b)}

TimedOut(p) == IF InFrame(p) THEN Counting(Reset(p), "timeouts") ELSE p
===============================================================================
