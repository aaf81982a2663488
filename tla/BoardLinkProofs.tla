---------------------------- MODULE BoardLinkProofs ---------------------------
(***************************************************************************)
(* A relay and its board agree, whatever is lost, refused or answered too  *)
(* late: an operation that met no reply but its own got the answers to its *)
(* requests, a configuration that returned so is held, the board's law is  *)
(* of one assignment, and a run started so is running.  For any            *)
(* assignments, any depth of the board's queue, any number of operations,  *)
(* and any number of lost frames, early timeouts and radio errors.         *)
(***************************************************************************)
EXTENDS BoardLink, SequenceTheorems, TLAPS

-----------------------------------------------------------------------------
(* The inductive invariant.                                                *)

Mg == {"plant", "virtual", "iface"}

\* The frames of a configuration, and what is left of them from one on.
Whole == <<"network", "algorithm", "disturbance", "plant", "virtual", "iface", "radio", "stats">>
Short == <<"network", "algorithm", "disturbance", "radio", "stats">>

RestOfWhole(t) ==
  IF t = "network" THEN Whole
  ELSE IF t = "algorithm" THEN <<"algorithm", "disturbance", "plant", "virtual", "iface", "radio", "stats">>
  ELSE IF t = "disturbance" THEN <<"disturbance", "plant", "virtual", "iface", "radio", "stats">>
  ELSE IF t = "plant" THEN <<"plant", "virtual", "iface", "radio", "stats">>
  ELSE IF t = "virtual" THEN <<"virtual", "iface", "radio", "stats">>
  ELSE IF t = "iface" THEN <<"iface", "radio", "stats">>
  ELSE IF t = "radio" THEN <<"radio", "stats">> ELSE <<"stats">>

RestOfShort(t) ==
  IF t = "network" THEN Short
  ELSE IF t = "algorithm" THEN <<"algorithm", "disturbance", "radio", "stats">>
  ELSE IF t = "disturbance" THEN <<"disturbance", "radio", "stats">>
  ELSE IF t = "radio" THEN <<"radio", "stats">> ELSE <<"stats">>

Rest(t, c) == IF c \in Microgrid THEN RestOfWhole(t) ELSE RestOfShort(t)

Frames(c) == {"network", "algorithm", "disturbance", "radio", "stats"}
             \cup (IF c \in Microgrid THEN Mg ELSE {})

\* The parameter frames an assignment has before this one.
Earlier(t) ==
  IF t = "network" THEN {}
  ELSE IF t = "algorithm" THEN {"network"}
  ELSE IF t = "disturbance" THEN {"network", "algorithm"}
  ELSE IF t = "plant" THEN {"network", "algorithm", "disturbance"}
  ELSE IF t = "virtual" THEN {"network", "algorithm", "disturbance", "plant"}
  ELSE IF t = "iface" THEN {"network", "algorithm", "disturbance", "plant", "virtual"}
  ELSE IF t = "radio" THEN {"network", "algorithm", "disturbance", "plant", "virtual", "iface"}
  ELSE ParamFrames
Before(t, c) == Earlier(t) \cap Frames(c)

\* The operation in progress, and the frame it has come to.
InOrder ==
  /\ op = "configure" => /\ target \in Configs /\ confirmed = None
                         /\ Head(todo) \in Frames(target)
                         /\ todo = Rest(Head(todo), target)
                         /\ trusted => clean
  /\ op = "start" => todo = <<"start">>
  /\ op = "stop" => todo = <<"stop">> /\ ~relayRuns
  /\ cur # None => cur = [type |-> Head(todo), cfg |-> target]

\* A clean operation has sent its first request, and not yet returned.
Underway == clean /\ (cur # None \/ (op = "configure" /\ Head(todo) # "network"))

\* One exchange at a time: its request, or its reply, is in one place.
NoReply == \A i \in DOMAIN txQueue : txQueue[i] = State
Single ==
  /\ toBoard # <<>> => /\ cur # None /\ toBoard = <<cur>>
                       /\ NoReply /\ toHost = <<>> /\ reading = None /\ ~ready
  /\ ~NoReply => cur # None /\ toHost = <<>> /\ reading = None /\ ~ready
  /\ \A i, j \in DOMAIN txQueue : txQueue[i] # State /\ txQueue[j] # State => i = j
  /\ toHost # <<>> => cur # None /\ Len(toHost) = 1 /\ reading = None /\ ~ready
  /\ reading # None => cur # None /\ ~ready /\ (stored => slot = reading)

\* What a reply that accepts the request in progress says of the board.
Effect ==
  LET t == Head(todo)
  IN  /\ t \in ParamFrames => params[t] = target
      /\ t = "network" => law = "scalar"
      /\ t = "iface" => law = "microgrid" /\ blocks = {"plant", "virtual"}
      /\ t = "start" => running
Vouched(r) == r.to = cur /\ (r.ok => Effect)

Vouching ==
  /\ \A i \in DOMAIN txQueue : txQueue[i] # State => Vouched(txQueue[i])
  /\ \A i \in DOMAIN toHost : Vouched(toHost[i])
  /\ reading # None => Vouched(reading)
  /\ cur # None /\ ready => slot # None /\ Vouched(slot)

Exchange == Underway => Single /\ Vouching

\* The board holds what comes before a frame of an assignment.
Holds(t, c) ==
  /\ \A s \in Before(t, c) : params[s] = c
  /\ "network" \in Before(t, c) =>
       /\ "iface" \in Before(t, c) => law = "microgrid" /\ blocks = {"plant", "virtual"}
       /\ "iface" \notin Before(t, c) /\ t # "iface" => law = "scalar"

\* So it does for a clean configuration, and for the one parameter frame that
\* may be under way, given up on or not, when no configuration strayed.
Pushed == op = "configure" /\ clean => Holds(Head(todo), target)

IsParam(i) == toBoard[i].type \in ParamFrames
Strays ==
  /\ \A i \in DOMAIN toBoard : IsParam(i) =>
       /\ confirmed = None /\ toBoard[i].type \in Frames(toBoard[i].cfg)
       /\ trusted => Holds(toBoard[i].type, toBoard[i].cfg)
  /\ trusted => \A i, j \in DOMAIN toBoard : IsParam(i) /\ IsParam(j) => i = j
  /\ \A i \in DOMAIN toBoard : toBoard[i].type = "stop" => ~relayRuns

IInv ==
  /\ TypeOK /\ InOrder /\ Exchange /\ Pushed /\ Strays
  /\ ConfirmedIsHeld /\ LawIsWhole /\ StartedIsRunning

-----------------------------------------------------------------------------
(* The frames of a configuration.                                          *)

LEMMA Sentinels ==
  /\ None \notin Configs /\ None \notin Requests /\ None \notin Replies
  /\ State \notin Replies /\ Microgrid \subseteq Configs
  /\ TxDepth \in Nat /\ TxDepth > 0 /\ MaxOps \in Nat /\ MaxFaults \in Nat
BY BoardLinkAssumption

LEMMA WholeLiteral == (Basic \o MgBlock) \o <<"radio", "stats">> = Whole
<1> DEFINE six == <<"network", "algorithm", "disturbance", "plant", "virtual", "iface">>
           b == <<"network", "algorithm", "disturbance">> \o <<"plant", "virtual", "iface">>
           s == six \o <<"radio", "stats">>
<1> USE DEF FrameTypes, ParamFrames
<1>1. b \in Seq(FrameTypes) /\ Len(b) = 6
  OBVIOUS
<1>2. /\ b[1] = "network" /\ b[2] = "algorithm" /\ b[3] = "disturbance"
      /\ b[4] = "plant" /\ b[5] = "virtual" /\ b[6] = "iface"
  OBVIOUS
<1>3. six \in Seq(FrameTypes) /\ Len(six) = 6
  OBVIOUS
<1>4. s \in Seq(FrameTypes) /\ Len(s) = 8
  OBVIOUS
<1>5. /\ s[1] = "network" /\ s[2] = "algorithm" /\ s[3] = "disturbance"
      /\ s[4] = "plant" /\ s[5] = "virtual" /\ s[6] = "iface"
      /\ s[7] = "radio" /\ s[8] = "stats"
  OBVIOUS
<1>6. Whole \in Seq(FrameTypes) /\ Len(Whole) = 8
  BY DEF Whole
<1> HIDE DEF FrameTypes, ParamFrames, b, s
<1>7. b = six
  <2>1. \A i \in 1 .. Len(b) : b[i] = six[i]
    BY <1>1, <1>2
  <2> QED BY <1>1, <1>3, <2>1, SeqEqual
<1>8. s = Whole
  <2>1. \A i \in 1 .. Len(s) : s[i] = Whole[i]
    BY <1>4, <1>5 DEF Whole
  <2> QED BY <1>4, <1>6, <2>1, SeqEqual
<1> QED BY <1>7, <1>8 DEF b, s, Basic, MgBlock

LEMMA ShortLiteral == (Basic \o << >>) \o <<"radio", "stats">> = Short
<1> DEFINE s == Basic \o <<"radio", "stats">>
<1>1. Basic \in Seq(FrameTypes) /\ <<"radio", "stats">> \in Seq(FrameTypes)
  BY DEF Basic, FrameTypes, ParamFrames
<1>2. Basic \o << >> = Basic
  BY <1>1, ConcatEmptySeq
<1>3. s \in Seq(FrameTypes) /\ Len(s) = 5
  BY <1>1 DEF Basic
<1>4. /\ s[1] = "network" /\ s[2] = "algorithm" /\ s[3] = "disturbance"
      /\ s[4] = "radio" /\ s[5] = "stats"
  BY <1>1 DEF Basic
<1>5. Short \in Seq(FrameTypes)
  BY DEF Short, FrameTypes, ParamFrames
<1> HIDE DEF s
<1>6. Len(Short) = 5 /\ \A i \in 1 .. Len(s) : s[i] = Short[i]
  BY <1>3, <1>4 DEF Short
<1>7. s = Short
  BY <1>3, <1>5, <1>6, SeqEqual
<1> QED BY <1>2, <1>7 DEF s

\* A configuration begins with the network frame, before which there is none.
LEMMA FramesLiteral ==
  ASSUME NEW c
  PROVE  /\ FramesOf(c) = Rest("network", c) /\ "network" \in Frames(c)
         /\ Before("network", c) = {}
BY WholeLiteral, ShortLiteral DEF FramesOf, Rest, RestOfWhole, RestOfShort, Frames, Before, Earlier

\* A rest begins with its frame, and goes on with the next one.
LEMMA RestBegins ==
  ASSUME NEW c, NEW t \in Frames(c)
  PROVE  /\ Rest(t, c) \in Seq(FrameTypes) /\ Rest(t, c) # << >> /\ Head(Rest(t, c)) = t
         /\ t = "stats" => Len(Rest(t, c)) = 1
         /\ t # "stats" => Len(Rest(t, c)) > 1
<1> USE DEF FrameTypes, ParamFrames
<1>1. CASE c \in Microgrid
  <2>1. CASE t = "network"
    BY <1>1, <2>1 DEF Rest, RestOfWhole, Whole
  <2>2. CASE t = "algorithm"
    BY <1>1, <2>2 DEF Rest, RestOfWhole, Whole
  <2>3. CASE t = "disturbance"
    BY <1>1, <2>3 DEF Rest, RestOfWhole, Whole
  <2>4. CASE t = "plant"
    BY <1>1, <2>4 DEF Rest, RestOfWhole, Whole
  <2>5. CASE t = "virtual"
    BY <1>1, <2>5 DEF Rest, RestOfWhole, Whole
  <2>6. CASE t = "iface"
    BY <1>1, <2>6 DEF Rest, RestOfWhole, Whole
  <2>7. CASE t = "radio"
    BY <1>1, <2>7 DEF Rest, RestOfWhole, Whole
  <2>8. CASE t = "stats"
    BY <1>1, <2>8 DEF Rest, RestOfWhole, Whole
  <2> QED BY <1>1, <2>1, <2>2, <2>3, <2>4, <2>5, <2>6, <2>7, <2>8 DEF Frames, Mg
<1>2. CASE c \notin Microgrid
  <2>1. CASE t = "network"
    BY <1>2, <2>1 DEF Rest, RestOfShort, Short
  <2>2. CASE t = "algorithm"
    BY <1>2, <2>2 DEF Rest, RestOfShort, Short
  <2>3. CASE t = "disturbance"
    BY <1>2, <2>3 DEF Rest, RestOfShort, Short
  <2>4. CASE t = "radio"
    BY <1>2, <2>4 DEF Rest, RestOfShort, Short
  <2>5. CASE t = "stats"
    BY <1>2, <2>5 DEF Rest, RestOfShort, Short
  <2> QED BY <1>2, <2>1, <2>2, <2>3, <2>4, <2>5 DEF Frames, Mg
<1> QED BY <1>1, <1>2

Follower(t, c) ==
  IF t = "network" THEN "algorithm"
  ELSE IF t = "algorithm" THEN "disturbance"
  ELSE IF t = "disturbance" THEN (IF c \in Microgrid THEN "plant" ELSE "radio")
  ELSE IF t = "plant" THEN "virtual"
  ELSE IF t = "virtual" THEN "iface"
  ELSE IF t = "iface" THEN "radio" ELSE "stats"

LEMMA RestGoesOn ==
  ASSUME NEW c, NEW t \in Frames(c), t # "stats"
  PROVE  /\ Follower(t, c) \in Frames(c)
         /\ Tail(Rest(t, c)) = Rest(Follower(t, c), c)
         /\ Before(Follower(t, c), c) = Before(t, c) \cup {t}
<1>1. CASE c \in Microgrid
  <2>1. Follower(t, c) \in Frames(c)
    BY <1>1 DEF Follower, Frames, Mg
  <2>2. Tail(Rest(t, c)) = Rest(Follower(t, c), c)
    BY <1>1 DEF Rest, RestOfWhole, Whole, Follower, Frames, Mg
  <2>3. Before(Follower(t, c), c) = Before(t, c) \cup {t}
    BY <1>1 DEF Before, Earlier, Follower, Frames, Mg, ParamFrames
  <2> QED BY <2>1, <2>2, <2>3
<1>2. CASE c \notin Microgrid
  <2>1. Follower(t, c) \in Frames(c)
    BY <1>2 DEF Follower, Frames
  <2>2. Tail(Rest(t, c)) = Rest(Follower(t, c), c)
    BY <1>2 DEF Rest, RestOfShort, Short, Follower, Frames
  <2>3. Before(Follower(t, c), c) = Before(t, c) \cup {t}
    BY <1>2 DEF Before, Earlier, Follower, Frames, ParamFrames
  <2> QED BY <2>1, <2>2, <2>3
<1> QED BY <1>1, <1>2


-----------------------------------------------------------------------------
(* What a step leaves alone.                                               *)

RelayType ==
  /\ op \in {"idle", "configure", "start", "stop"}
  /\ target \in Configs \cup {None}
  /\ todo \in Seq(FrameTypes) /\ (op = "idle" <=> todo = << >>)
  /\ assignment \in Configs \cup {None} /\ confirmed \in Configs \cup {None}
  /\ relayRuns \in BOOLEAN /\ clean \in BOOLEAN /\ trusted \in BOOLEAN
  /\ begun \in 0 .. MaxOps

SlotType ==
  /\ cur \in Requests \cup {None}
  /\ cur # None => op # "idle" /\ cur.type = Head(todo)
  /\ awaiting = (cur # None)
  /\ slot \in Replies \cup {None} /\ ready \in BOOLEAN
  /\ reading \in Replies \cup {None}
  /\ stored \in BOOLEAN /\ (stored => reading # None)

WireType ==
  /\ toBoard \in Seq(Requests) /\ toHost \in Seq(Replies)
  /\ txQueue \in Seq(Replies \cup {State}) /\ Len(txQueue) <= TxDepth

BoardType ==
  /\ params \in [ParamFrames -> Configs \cup {None}]
  /\ blocks \subseteq {"plant", "virtual"} /\ law \in {"scalar", "microgrid"}
  /\ running \in BOOLEAN

FaultType == faults \in 0 .. MaxFaults

\* What the relay and the board agree on.
Agreement == Pushed /\ Strays /\ ConfirmedIsHeld /\ LawIsWhole /\ StartedIsRunning

LEMMA Parts ==
  IInv <=> /\ RelayType /\ SlotType /\ WireType /\ BoardType /\ FaultType
           /\ InOrder /\ Exchange /\ Agreement
<1>1. TypeOK <=> RelayType /\ SlotType /\ WireType /\ BoardType /\ FaultType
  BY DEF TypeOK, RelayType, SlotType, WireType, BoardType, FaultType
<1> QED BY <1>1 DEF IInv, Agreement

LEMMA PartsNext ==
  ASSUME RelayType', SlotType', WireType', BoardType', FaultType',
         InOrder', Exchange', Agreement'
  PROVE  IInv'
<1>1. TypeOK'
  BY DEF TypeOK, RelayType, SlotType, WireType, BoardType, FaultType
<1> QED BY <1>1 DEF IInv, Agreement

LEMMA FaultKept ==
  ASSUME FaultType, Fault \/ UNCHANGED faults
  PROVE  FaultType'
BY Sentinels DEF FaultType, Fault

LEMMA RelayKept ==
  ASSUME RelayType, InOrder, UNCHANGED relayVars, cur' = cur
  PROVE  RelayType' /\ InOrder' /\ (Underway' <=> Underway)
<1>1. RelayType'
  BY DEF RelayType, relayVars
<1>2. InOrder' /\ (Underway' <=> Underway)
  BY DEF InOrder, Underway, relayVars
<1> QED BY <1>1, <1>2

LEMMA HoldsKept ==
  ASSUME UNCHANGED <<params, blocks, law>>
  PROVE  \A t, c : Holds(t, c) => Holds(t, c)'
BY DEF Holds

\* The frames under way are among those there were.
LEMMA StraysFewer ==
  ASSUME WireType, Strays, UNCHANGED <<params, blocks, law, confirmed, trusted, relayRuns>>,
         toBoard' = toBoard \/ (toBoard # << >> /\ toBoard' = Tail(toBoard))
  PROVE  Strays'
<1>1. CASE toBoard' = toBoard
  BY <1>1, HoldsKept DEF Strays, IsParam, Holds
<1>2. CASE toBoard # << >> /\ toBoard' = Tail(toBoard)
  <2>1. \A i \in DOMAIN toBoard' : i + 1 \in DOMAIN toBoard /\ toBoard'[i] = toBoard[i + 1] /\ i \in Nat
    BY <1>2 DEF WireType
  <2>2. \A i \in DOMAIN toBoard' : IsParam(i)' <=> IsParam(i + 1)
    BY <2>1 DEF IsParam
  <2>3. \A i \in DOMAIN toBoard' : IsParam(i)' =>
          /\ confirmed' = None /\ toBoard'[i].type \in Frames(toBoard'[i].cfg)
          /\ trusted' => Holds(toBoard'[i].type, toBoard'[i].cfg)
    BY <2>1, <2>2 DEF Strays
  <2>5. trusted' => \A i, j \in DOMAIN toBoard' : IsParam(i)' /\ IsParam(j)' => i = j
    <3> SUFFICES ASSUME trusted', NEW i \in DOMAIN toBoard', NEW j \in DOMAIN toBoard',
                        IsParam(i)', IsParam(j)'
                 PROVE  i = j
      OBVIOUS
    <3>1. i + 1 = j + 1
      BY <2>1, <2>2 DEF Strays
    <3> QED BY <2>1, <3>1
  <2>6. \A i \in DOMAIN toBoard' : toBoard'[i].type = "stop" => ~relayRuns'
    BY <2>1 DEF Strays
  <2>7. \A i \in DOMAIN toBoard' : IsParam(i)' =>
          /\ confirmed' = None /\ toBoard'[i].type \in Frames(toBoard'[i].cfg)
          /\ trusted' => Holds(toBoard[i].type, toBoard[i].cfg)'
    BY <2>3 DEF Holds
  <2> QED BY <2>5, <2>6, <2>7 DEF Strays
<1> QED BY <1>1, <1>2

LEMMA BoardKept ==
  ASSUME BoardType, WireType, Agreement, UNCHANGED relayVars,
         UNCHANGED <<params, blocks, law, running>>,
         toBoard' = toBoard \/ (toBoard # << >> /\ toBoard' = Tail(toBoard))
  PROVE  BoardType' /\ Agreement'
<1>1. BoardType'
  BY DEF BoardType
<1>2. Pushed'
  BY DEF Agreement, Pushed, Holds, relayVars
<1>3. ConfirmedIsHeld' /\ LawIsWhole' /\ StartedIsRunning'
  BY DEF Agreement, ConfirmedIsHeld, LawIsWhole, StartedIsRunning, relayVars
<1>4. Strays'
  BY StraysFewer DEF Agreement, relayVars
<1> QED BY <1>1, <1>2, <1>3, <1>4 DEF Agreement

\* While no request of it is in progress nothing is on the way.
Quiet == toBoard = << >> /\ NoReply /\ toHost = << >> /\ reading = None

LEMMA Quietness ==
  ASSUME Single, cur = None \/ ready
  PROVE  Quiet
BY DEF Single, Quiet

LEMMA QuietKept ==
  ASSUME Quiet, UNCHANGED <<wires, reader>>, cur' = None \/ ~ready'
  PROVE  Single' /\ Vouching'
<1>1. Quiet'
  BY DEF Quiet, NoReply, wires, reader
<1>2. Single'
  BY <1>1 DEF Single, Quiet, NoReply
<1>3. (\A i \in DOMAIN toHost : Vouched(toHost[i]))'
  BY <1>1 DEF Quiet
<1>4. Vouching'
  BY <1>1, <1>3 DEF Vouching, Quiet, NoReply
<1> QED BY <1>2, <1>4

-----------------------------------------------------------------------------
(* The relay.                                                              *)

LEMMA InitialIInv == ASSUME Init PROVE IInv
<1>1. RelayType
  <2>1. todo \in Seq(FrameTypes) /\ (op = "idle" <=> todo = << >>)
    BY DEF Init
  <2>2. begun \in 0 .. MaxOps
    BY Sentinels DEF Init
  <2> QED BY <2>1, <2>2 DEF Init, RelayType
<1>2. SlotType
  BY DEF Init, SlotType
<1>3. WireType
  BY Sentinels DEF Init, WireType
<1>4. BoardType
  BY DEF Init, BoardType
<1>5. FaultType
  BY Sentinels DEF Init, FaultType
<1>6. InOrder
  BY DEF Init, InOrder
<1>7. Exchange
  BY DEF Init, Exchange, Underway
<1>8. Strays
  <2>1. \A i \in DOMAIN toBoard : FALSE
    BY DEF Init
  <2> QED BY <2>1 DEF Strays
<1>9. Agreement
  BY <1>8 DEF Init, Agreement, Pushed, ConfirmedIsHeld, LawIsWhole, StartedIsRunning
<1> QED BY <1>1, <1>2, <1>3, <1>4, <1>5, <1>6, <1>7, <1>9, Parts

LEMMA BeginConfigureStep ==
  ASSUME IInv, NEW c \in Configs, BeginConfigure(c)
  PROVE  IInv'
<1> USE Parts DEF BeginConfigure, Begin
<1>1. cur = None /\ cur' = None
  BY DEF SlotType, slotVars
<1>2. /\ todo' = Rest("network", c) /\ "network" \in Frames(c) /\ Before("network", c) = {}
  BY FramesLiteral
<1>3. todo' \in Seq(FrameTypes) /\ todo' # << >> /\ Head(todo') = "network"
  BY <1>2, RestBegins
<1>4. RelayType'
  BY <1>3, Sentinels DEF RelayType
<1>5. SlotType'
  BY <1>1 DEF SlotType, slotVars, reader
<1>6. WireType' /\ FaultType'
  BY DEF WireType, FaultType, wires
<1>7. Exchange'
  BY <1>1, <1>3 DEF Exchange, Underway
<1>8. InOrder'
  BY <1>1, <1>2, <1>3 DEF InOrder
<1>9. BoardType'
  BY DEF BoardType, board
<1>10. Pushed'
  BY <1>2, <1>3 DEF Pushed, Holds
<1>11. Strays'
  BY DEF Agreement, Strays, IsParam, Holds, board, wires
<1>12. Agreement'
  BY <1>10, <1>11 DEF Agreement, ConfirmedIsHeld, LawIsWhole, StartedIsRunning, board
<1> QED BY <1>4, <1>5, <1>6, <1>7, <1>8, <1>9, <1>12, PartsNext

LEMMA BeginStartStep == ASSUME IInv, BeginStart PROVE IInv'
<1> USE Parts DEF BeginStart, Begin
<1>1. cur = None /\ cur' = None
  BY DEF SlotType, slotVars
<1>2. <<"start">> \in Seq(FrameTypes) /\ <<"start">> # << >>
  BY DEF FrameTypes
<1>11. begun' \in 0 .. MaxOps
  BY Sentinels DEF RelayType
<1>3. RelayType'
  BY <1>2, <1>11 DEF RelayType
<1>4. SlotType'
  BY <1>1 DEF SlotType, slotVars, reader
<1>5. WireType' /\ FaultType'
  BY DEF WireType, FaultType, wires
<1>6. Exchange'
  BY <1>1 DEF Exchange, Underway
<1>7. InOrder'
  BY <1>1 DEF InOrder
<1>8. BoardType'
  BY DEF BoardType, board
<1>9. Strays'
  BY DEF Agreement, Strays, IsParam, Holds, board, wires
<1>10. Agreement'
  BY <1>9 DEF Agreement, Pushed, ConfirmedIsHeld, LawIsWhole, StartedIsRunning, board
<1> QED BY <1>3, <1>4, <1>5, <1>6, <1>7, <1>8, <1>10, PartsNext

LEMMA BeginStopStep == ASSUME IInv, BeginStop PROVE IInv'
<1> USE Parts DEF BeginStop, Begin
<1>1. cur = None /\ cur' = None
  BY DEF SlotType, slotVars
<1>2. <<"stop">> \in Seq(FrameTypes) /\ <<"stop">> # << >>
  BY DEF FrameTypes
<1>11. begun' \in 0 .. MaxOps
  BY Sentinels DEF RelayType
<1>3. RelayType'
  BY <1>2, <1>11 DEF RelayType
<1>4. SlotType'
  BY <1>1 DEF SlotType, slotVars, reader
<1>5. WireType' /\ FaultType'
  BY DEF WireType, FaultType, wires
<1>6. Exchange'
  BY <1>1 DEF Exchange, Underway
<1>7. InOrder'
  BY <1>1 DEF InOrder
<1>8. BoardType'
  BY DEF BoardType, board
<1>9. Strays'
  BY DEF Agreement, Strays, IsParam, Holds, board, wires
<1>10. Agreement'
  BY <1>9 DEF Agreement, Pushed, ConfirmedIsHeld, LawIsWhole, StartedIsRunning, board
<1> QED BY <1>3, <1>4, <1>5, <1>6, <1>7, <1>8, <1>10, PartsNext

\* A clean operation finds the link quiet; any other adds to what strays.
LEMMA SendStep == ASSUME IInv, Send PROVE IInv'
<1> USE Parts DEF Send, Finds
<1> DEFINE q == [type |-> Head(todo), cfg |-> target]
<1>1. cur' = q /\ q \in Requests /\ q # None /\ q.type = Head(todo) /\ q.cfg = target
  <2>1. todo # << >> /\ todo \in Seq(FrameTypes)
    BY DEF RelayType
  <2>2. Head(todo) \in FrameTypes
    BY <2>1
  <2>3. q \in Requests
    BY <2>2 DEF RelayType, Requests
  <2> QED BY <2>3, Sentinels
<1>2. toBoard' = Append(toBoard, q) /\ toBoard \in Seq(Requests)
  BY <1>1 DEF WireType
<1>3. InOrder'
  BY <1>1 DEF InOrder
<1> HIDE DEF q
<1>4. RelayType'
  BY DEF RelayType
<1>5. SlotType'
  BY <1>1 DEF SlotType, reader
<1>6. WireType' /\ FaultType'
  BY <1>1, <1>2 DEF WireType, FaultType
<1>7. Lost => Quiet /\ toBoard' = <<q>>
  BY <1>2 DEF Lost, Quiet, NoReply
<1>8. Exchange'
  <2> SUFFICES ASSUME Underway' PROVE Single' /\ Vouching'
    BY DEF Exchange
  <2>1. Quiet /\ toBoard' = <<q>>
    BY <1>7 DEF Underway
  <2>2. Single'
    BY <1>1, <2>1 DEF Single, Quiet, NoReply, reader
  <2>3. \A i \in DOMAIN txQueue' : txQueue'[i] = State
    BY <2>1 DEF Quiet, NoReply
  <2>4. \A i \in DOMAIN toHost' : FALSE
    BY <2>1 DEF Quiet
  <2>5. reading' = None
    BY <2>1 DEF Quiet, reader
  <2> QED BY <2>2, <2>3, <2>4, <2>5 DEF Vouching
<1>9. BoardType' /\ Pushed' /\ ConfirmedIsHeld' /\ LawIsWhole' /\ StartedIsRunning'
  BY DEF BoardType, Agreement, Pushed, Holds, ConfirmedIsHeld, LawIsWhole, StartedIsRunning, board
<1>10. \A i \in DOMAIN toBoard' : \/ i \in DOMAIN toBoard /\ toBoard'[i] = toBoard[i]
                                  \/ toBoard'[i] = q /\ i = Len(toBoard) + 1
  BY <1>1, <1>2
<1>11. q.type \in ParamFrames =>
         /\ op = "configure" /\ confirmed = None /\ q.type \in Frames(q.cfg)
         /\ trusted => Holds(q.type, q.cfg)
  <2>1. op \in {"configure", "start", "stop"}
    BY DEF RelayType
  <2>2. op \in {"start", "stop"} => Head(todo) \notin ParamFrames
    BY DEF InOrder, ParamFrames
  <2> QED BY <1>1, <2>1, <2>2 DEF InOrder, Agreement, Pushed
<1>12. q.type = "stop" => ~relayRuns
  <2>1. op = "configure" => Head(todo) # "stop"
    BY DEF InOrder, Frames, Mg
  <2>2. op \in {"configure", "start", "stop"}
    BY DEF RelayType
  <2> QED BY <1>1, <2>1, <2>2 DEF InOrder
<1>13. \A i \in DOMAIN toBoard' : IsParam(i)' =>
         /\ confirmed' = None /\ toBoard'[i].type \in Frames(toBoard'[i].cfg)
         /\ trusted' => Holds(toBoard'[i].type, toBoard'[i].cfg)
  BY <1>10, <1>11 DEF IsParam, Agreement, Strays
<1>14. \A i \in DOMAIN toBoard' : IsParam(i)' =>
         /\ confirmed' = None /\ toBoard'[i].type \in Frames(toBoard'[i].cfg)
         /\ trusted' => Holds(toBoard[i].type, toBoard[i].cfg)'
  BY <1>13 DEF Holds, board
<1>15. trusted' => \A i, j \in DOMAIN toBoard' : IsParam(i)' /\ IsParam(j)' => i = j
  <2> SUFFICES ASSUME trusted', NEW i \in DOMAIN toBoard', NEW j \in DOMAIN toBoard',
                      IsParam(i)', IsParam(j)'
               PROVE  i = j
    OBVIOUS
  <2>1. CASE q.type \in ParamFrames
    <3>1. toBoard = << >>
      BY <1>7, <1>11, <2>1 DEF Quiet
    <3> QED BY <1>10, <3>1
  <2>2. CASE q.type \notin ParamFrames
    BY <1>10, <2>2 DEF IsParam, Agreement, Strays
  <2> QED BY <2>1, <2>2
<1>16. \A i \in DOMAIN toBoard' : toBoard'[i].type = "stop" => ~relayRuns'
  BY <1>10, <1>12 DEF Agreement, Strays
<1>17. Strays'
  BY <1>14, <1>15, <1>16 DEF Strays
<1> QED BY <1>3, <1>4, <1>5, <1>6, <1>8, <1>9, <1>17, PartsNext DEF Agreement

-----------------------------------------------------------------------------
(* A request ends.                                                         *)

\* What the relay has sent is vouched for, so it goes on.
LEMMA Accepting ==
  ASSUME IInv, cur # None, cur' = None, Accepted, clean, Effect, UNCHANGED <<board, toBoard>>,
         Len(todo) = 1 => \A i \in DOMAIN toBoard : toBoard[i] = cur
  PROVE  RelayType' /\ InOrder' /\ BoardType' /\ Agreement'
<1> USE Parts
<1> DEFINE t == Head(todo)
<1>1. /\ op # "idle" /\ cur.type = t /\ cur.cfg = target /\ todo # << >>
      /\ todo \in Seq(FrameTypes)
  BY DEF SlotType, InOrder, RelayType
<1>2. BoardType' /\ clean' = clean /\ begun' = begun
  BY DEF BoardType, board, Accepted
<1>3. CASE op = "configure" /\ t # "stats"
  <2> DEFINE n == Follower(t, target)
  <2>1. /\ target \in Configs /\ confirmed = None /\ t \in Frames(target)
        /\ todo = Rest(t, target)
    BY <1>3 DEF InOrder
  <2>2. Len(todo) > 1
    BY <1>3, <2>1, RestBegins
  <2>3. /\ n \in Frames(target) /\ todo' = Rest(n, target)
        /\ Before(n, target) = Before(t, target) \cup {t}
    BY <1>3, <2>1, RestGoesOn DEF Accepted
  <2>4. /\ op' = "configure" /\ target' = target /\ confirmed' = None /\ relayRuns' = relayRuns
        /\ trusted' = trusted
    BY <1>3, <2>1, <2>2 DEF Accepted
  <2>5. /\ todo' \in Seq(FrameTypes) /\ todo' # << >> /\ Head(todo') = n
    BY <2>3, RestBegins
  <2>6. assignment' \in Configs \cup {None}
    BY <2>1 DEF Accepted, RelayType
  <2>7. t \in ParamFrames
    BY <1>3, <2>1 DEF Frames, Mg, ParamFrames
  <2>8. /\ params[t] = target /\ (t = "network" => law = "scalar")
        /\ (t = "iface" => law = "microgrid" /\ blocks = {"plant", "virtual"})
    BY <2>7 DEF Effect
  <2>9. Holds(t, target)
    BY <1>3 DEF Agreement, Pushed
  <2>10. t # "network" => "network" \in Before(t, target)
    BY <1>3, <2>1 DEF Frames, Mg, Before, Earlier, ParamFrames
  <2>11. t = "network" => "iface" \notin Before(t, target)
    BY DEF Before, Earlier
  <2> HIDE DEF t, n
  <2>12. \A s \in Before(n, target) : params[s] = target
    BY <2>3, <2>8, <2>9 DEF Holds
  <2>13. "iface" \in Before(n, target) => law = "microgrid" /\ blocks = {"plant", "virtual"}
    BY <2>3, <2>8, <2>9, <2>10, <2>11 DEF Holds
  <2>14. "iface" \notin Before(n, target) => law = "scalar"
    BY <2>3, <2>8, <2>9, <2>10 DEF Holds
  <2>15. Pushed'
    BY <2>4, <2>5, <2>12, <2>13, <2>14 DEF Pushed, Holds, board
  <2>16. RelayType'
    BY <1>2, <2>1, <2>4, <2>5, <2>6 DEF RelayType
  <2>17. InOrder'
    BY <1>2, <2>1, <2>3, <2>4, <2>5 DEF InOrder
  <2>18. ConfirmedIsHeld'
    BY <2>4 DEF ConfirmedIsHeld
  <2>19. StartedIsRunning' /\ LawIsWhole'
    BY <2>4 DEF Agreement, StartedIsRunning, LawIsWhole, board
  <2>20. Strays'
    BY <2>1, <2>4 DEF Agreement, Strays, IsParam, Holds, board
  <2> QED BY <1>2, <2>15, <2>16, <2>17, <2>18, <2>19, <2>20 DEF Agreement
<1>4. CASE op = "configure" /\ t = "stats"
  <2>1. /\ target \in Configs /\ confirmed = None /\ t \in Frames(target)
        /\ todo = Rest(t, target)
    BY <1>4 DEF InOrder
  <2>2. Len(todo) = 1
    BY <1>4, <2>1, RestBegins
  <2>3. todo' = << >>
    BY <1>1, <2>2 DEF Accepted
  <2>4. /\ op' = "idle" /\ confirmed' = target /\ target' = None
        /\ relayRuns' = relayRuns /\ assignment' = assignment /\ trusted' = TRUE
    <3>1. ~(Len(todo) > 1)
      BY <2>2
    <3> QED BY <1>1, <1>4, <3>1 DEF Accepted, RelayType
  <2>5. Before("stats", target) = ParamFrames \cap Frames(target)
    BY DEF Before, Earlier
  <2>6. Holds("stats", target)
    BY <1>4 DEF Agreement, Pushed
  <2>7. /\ \A s \in ParamFrames \ Mg : params[s] = target
        /\ target \in Microgrid => /\ law = "microgrid" /\ blocks = {"plant", "virtual"}
                                   /\ \A s \in Mg : params[s] = target
        /\ target \notin Microgrid => law = "scalar"
    BY <2>5, <2>6 DEF Holds, ParamFrames, Frames, Mg
  <2>8. ConfirmedIsHeld'
    BY <2>4, <2>7 DEF ConfirmedIsHeld, board, Mg
  <2>9. LawIsWhole'
    BY <2>7 DEF LawIsWhole, board, Mg
  <2>10. StartedIsRunning'
    BY <2>4 DEF Agreement, StartedIsRunning, board
  <2>11. RelayType'
    BY <1>2, <2>1, <2>3, <2>4 DEF RelayType
  <2>12. cur' = None /\ InOrder' /\ Pushed'
    BY <2>4 DEF InOrder, Pushed
  <2>13. Strays'
    <3>1. \A i \in DOMAIN toBoard' : toBoard'[i].type = "stats"
      BY <1>1, <1>4, <2>2
    <3> QED BY <3>1 DEF Strays, IsParam, ParamFrames
  <2> QED BY <1>2, <2>8, <2>9, <2>10, <2>11, <2>12, <2>13 DEF Agreement
<1>5. CASE op \in {"start", "stop"}
  <2>1. todo = <<op>> /\ t = op
    BY <1>5 DEF InOrder
  <2>2. Len(todo) = 1 /\ todo' = << >>
    BY <2>1 DEF Accepted
  <2>3. /\ op' = "idle" /\ confirmed' = confirmed /\ target' = None /\ trusted' = trusted
        /\ relayRuns' = (relayRuns \/ op = "start") /\ assignment' = assignment
    BY <1>1, <1>5, <2>1, <2>2 DEF Accepted, RelayType
  <2>4. RelayType'
    BY <1>2, <2>2, <2>3 DEF RelayType
  <2>5. InOrder' /\ Pushed'
    BY <2>3 DEF InOrder, Pushed
  <2>6. ConfirmedIsHeld' /\ LawIsWhole'
    BY <2>3 DEF Agreement, ConfirmedIsHeld, LawIsWhole, board
  <2>7. StartedIsRunning'
    BY <2>1, <2>3 DEF Agreement, StartedIsRunning, board, Effect
  <2>8. \A i \in DOMAIN toBoard : toBoard[i].type = op
    BY <1>1, <2>1, <2>2
  <2>9. Strays'
    <3>1. \A i \in DOMAIN toBoard' : ~IsParam(i)'
      BY <1>5, <2>8 DEF IsParam, ParamFrames
    <3>2. \A i \in DOMAIN toBoard' : toBoard'[i].type = "stop" => ~relayRuns'
      BY <2>3, <2>8 DEF Agreement, Strays
    <3> QED BY <3>1, <3>2 DEF Strays
  <2> QED BY <1>2, <2>4, <2>5, <2>6, <2>7, <2>9 DEF Agreement
<1> QED BY <1>1, <1>3, <1>4, <1>5 DEF RelayType

LEMMA OneOrMore ==
  ASSUME NEW s \in Seq(FrameTypes), s # << >>
  PROVE  (Len(s) = 1 \/ Len(s) > 1) /\ (Len(s) = 1 => ~(Len(s) > 1))
<1>1. Len(s) \in Nat /\ Len(s) # 0
  OBVIOUS
<1>2. \A n \in Nat : (n # 0 => n = 1 \/ n > 1) /\ (n = 1 => ~(n > 1))
  OBVIOUS
<1> QED BY <1>1, <1>2

\* An operation that strayed goes on with whatever answer, and claims nothing.
LEMMA AcceptingAnyhow ==
  ASSUME IInv, cur # None, cur' = None, Accepted, ~clean, UNCHANGED <<board, toBoard>>
  PROVE  RelayType' /\ InOrder' /\ BoardType' /\ Agreement'
<1> USE Parts
<1> DEFINE t == Head(todo)
<1>1. /\ op # "idle" /\ todo # << >> /\ todo \in Seq(FrameTypes)
      /\ target \in Configs \cup {None}
  BY DEF SlotType, InOrder, RelayType
<1>6. (Len(todo) = 1 \/ Len(todo) > 1) /\ (Len(todo) = 1 => ~(Len(todo) > 1))
  BY <1>1, OneOrMore
<1>2. /\ BoardType' /\ clean' = clean /\ begun' = begun /\ confirmed' = confirmed
      /\ relayRuns' = relayRuns /\ trusted' = trusted
  BY DEF BoardType, RelayType, board, Accepted
<1>3. Agreement'
  <2>1. ConfirmedIsHeld' /\ LawIsWhole' /\ StartedIsRunning'
    BY <1>2 DEF Agreement, ConfirmedIsHeld, LawIsWhole, StartedIsRunning, board
  <2>2. Strays'
    BY <1>2 DEF Agreement, Strays, IsParam, Holds, board
  <2> QED BY <1>2, <2>1, <2>2 DEF Agreement, Pushed
<1>4. CASE Len(todo) > 1
  <2>1. op = "configure"
    <3>1. op \in {"start", "stop"} => Len(todo) = 1
      BY DEF InOrder
    <3>2. op \notin {"start", "stop"}
      BY <1>4, <1>6, <3>1
    <3> QED BY <1>1, <3>2 DEF RelayType
  <2>2. /\ target \in Configs /\ confirmed = None /\ t \in Frames(target)
        /\ todo = Rest(t, target) /\ ~trusted
    BY <2>1 DEF InOrder
  <2>3. t # "stats"
    <3>1. t = "stats" => Len(todo) = 1
      BY <2>2, RestBegins
    <3> QED BY <1>4, <1>6, <3>1
  <2> DEFINE n == Follower(t, target)
  <2>4. n \in Frames(target) /\ todo' = Rest(n, target)
    BY <2>2, <2>3, RestGoesOn DEF Accepted
  <2>5. todo' \in Seq(FrameTypes) /\ todo' # << >> /\ Head(todo') = n
    BY <2>4, RestBegins
  <2>6. op' = "configure" /\ target' = target /\ assignment' \in Configs \cup {None}
    BY <1>4, <2>1, <2>2 DEF Accepted, RelayType
  <2> HIDE DEF n, t
  <2>7. RelayType'
    BY <1>2, <2>2, <2>5, <2>6 DEF RelayType
  <2>8. InOrder'
    BY <1>2, <2>2, <2>4, <2>5, <2>6 DEF InOrder
  <2> QED BY <1>2, <1>3, <2>7, <2>8
<1>5. CASE ~(Len(todo) > 1)
  <2>1. Len(todo) = 1
    BY <1>5, <1>6
  <2>6. todo' = << >>
    BY <1>1, <2>1 DEF Accepted
  <2>2. op' = "idle" /\ target' = None
    BY <1>5 DEF Accepted
  <2>3. assignment' \in Configs \cup {None}
    BY <1>1 DEF Accepted, RelayType
  <2>4. RelayType'
    BY <1>2, <2>2, <2>3, <2>6 DEF RelayType
  <2>5. InOrder'
    BY <2>2 DEF InOrder
  <2> QED BY <1>2, <1>3, <2>4, <2>5
<1> QED BY <1>4, <1>5

\* A refusal ends the operation; what was confirmed is still held.
LEMMA Refusing ==
  ASSUME IInv, cur # None, cur' = None, cur.type # "stats", Rejected,
         UNCHANGED <<board, toBoard>>
  PROVE  RelayType' /\ InOrder' /\ BoardType' /\ Agreement' /\ op' = "idle"
<1> USE Parts
<1>1. /\ op' = "idle" /\ todo' = << >> /\ target' = None /\ assignment' = assignment
      /\ confirmed' = confirmed /\ relayRuns' = relayRuns /\ clean' = clean
      /\ trusted' = trusted /\ begun' = begun
  BY DEF Rejected
<1>2. RelayType'
  BY <1>1 DEF RelayType
<1>3. InOrder' /\ Pushed'
  BY <1>1 DEF InOrder, Pushed
<1>4. BoardType'
  BY DEF BoardType, board
<1>5. ConfirmedIsHeld' /\ LawIsWhole' /\ StartedIsRunning'
  BY <1>1 DEF Agreement, ConfirmedIsHeld, LawIsWhole, StartedIsRunning, board
<1>6. Strays'
  BY <1>1 DEF Agreement, Strays, IsParam, Holds, board
<1> QED BY <1>1, <1>2, <1>3, <1>4, <1>5, <1>6 DEF Agreement

\* The statistics have no effect to vouch for, and come last.
LEMMA LastOfAll ==
  ASSUME IInv, cur # None, cur.type = "stats"
  PROVE  Effect /\ Len(todo) = 1
<1> USE Parts
<1>1. Head(todo) = "stats" /\ op # "idle"
  BY DEF SlotType
<1>2. Effect
  BY <1>1 DEF Effect, ParamFrames
<1>3. op = "configure"
  BY <1>1 DEF InOrder, RelayType
<1>4. todo = Rest("stats", target) /\ "stats" \in Frames(target)
  BY <1>1, <1>3 DEF InOrder
<1> QED BY <1>2, <1>4, RestBegins

\* A clean operation gets its own answer, and finds the link quiet again.
LEMMA AnsweredStep == ASSUME IInv, Answered PROVE IInv'
<1> USE Parts DEF Answered
<1>1. clean => Quiet /\ Vouching
  BY Quietness DEF Exchange, Underway
<1>2. clean => \A i \in DOMAIN toBoard : toBoard[i] = cur
  BY <1>1 DEF Quiet
<1>3. UNCHANGED <<board, toBoard>>
  BY DEF wires
<1>4. RelayType' /\ InOrder' /\ BoardType' /\ Agreement'
  <2>1. CASE slot # None /\ slot.ok
    <3>1. CASE clean
      <4>1. Effect
        BY <1>1, <2>1, <3>1 DEF Vouching, Vouched
      <4> QED BY <1>2, <1>3, <2>1, <3>1, <4>1, Accepting DEF Judge
    <3>2. CASE ~clean
      BY <1>3, <2>1, <3>2, AcceptingAnyhow DEF Judge
    <3> QED BY <3>1, <3>2
  <2>2. CASE ~(slot # None /\ slot.ok) /\ cur.type = "stats"
    <3>1. Accepted
      BY <2>2 DEF Judge, Rejected
    <3>2. CASE clean
      BY <1>2, <1>3, <2>2, <3>1, <3>2, LastOfAll, Accepting
    <3>3. CASE ~clean
      BY <1>3, <3>1, <3>3, AcceptingAnyhow
    <3> QED BY <3>2, <3>3
  <2>3. CASE ~(slot # None /\ slot.ok) /\ cur.type # "stats"
    BY <1>3, <2>3, Refusing DEF Judge
  <2> QED BY <2>1, <2>2, <2>3
<1>5. SlotType'
  BY DEF SlotType, reader
<1>6. WireType' /\ FaultType'
  BY DEF WireType, FaultType, wires
<1>7. clean' = clean
  BY DEF Judge, Accepted, Rejected
<1>8. Exchange'
  <2> SUFFICES ASSUME clean PROVE Single' /\ Vouching'
    BY <1>7 DEF Exchange, Underway
  <2> QED BY <1>1, QuietKept
<1> QED BY <1>4, <1>5, <1>6, <1>8, PartsNext

\* A request that times out ends its operation, whatever is still to come.
LEMMA ExpiredStep == ASSUME IInv, Expired PROVE IInv'
<1> USE Parts DEF Expired
<1>1. UNCHANGED <<board, toBoard>>
  BY DEF wires
<1>2. FaultType'
  BY FaultKept
<1>3. clean => \A i \in DOMAIN toBoard : toBoard[i] = cur
  <2> SUFFICES ASSUME clean PROVE \A i \in DOMAIN toBoard : toBoard[i] = cur
    OBVIOUS
  <2>1. Single
    BY DEF Exchange, Underway
  <2>2. toBoard = << >> \/ toBoard = <<cur>>
    BY <2>1 DEF Single
  <2> QED BY <2>2
<1>4. RelayType' /\ InOrder' /\ BoardType' /\ Agreement' /\ op' = "idle"
  <2>1. CASE cur.type = "stats"
    <3>1. Accepted /\ Effect /\ Len(todo) = 1
      BY <2>1, LastOfAll DEF Rejected
    <3>2. op' = "idle"
      BY <3>1 DEF Accepted
    <3>3. CASE clean
      BY <1>1, <1>3, <3>1, <3>2, <3>3, Accepting
    <3>4. CASE ~clean
      BY <1>1, <3>1, <3>2, <3>4, AcceptingAnyhow
    <3> QED BY <3>3, <3>4
  <2>2. CASE cur.type # "stats"
    BY <1>1, <2>2, Refusing
  <2> QED BY <2>1, <2>2
<1>5. SlotType'
  BY DEF SlotType, reader
<1>6. WireType'
  BY DEF WireType, wires
<1>7. Exchange'
  BY <1>4 DEF Exchange, Underway
<1> QED BY <1>2, <1>4, <1>5, <1>6, <1>7, PartsNext

-----------------------------------------------------------------------------
(* The reader thread.                                                      *)

\* While a reply is on its way its request waits, and nothing else is.
LEMMA OnTheWay ==
  ASSUME Single, toHost # << >> \/ reading # None
  PROVE  /\ cur # None /\ toBoard = << >> /\ NoReply /\ ~ready
         /\ toHost # << >> => reading = None
BY DEF Single

LEMMA ReaderTakesStep == ASSUME IInv, ReaderTakes PROVE IInv'
<1> USE Parts DEF ReaderTakes
<1>1. RelayType' /\ InOrder' /\ (Underway' <=> Underway)
  BY RelayKept DEF slotVars
<1>2. /\ toHost \in Seq(Replies) /\ Head(toHost) = toHost[1] /\ 1 \in DOMAIN toHost
      /\ Tail(toHost) \in Seq(Replies) /\ Head(toHost) \in Replies
      /\ Len(toHost) = 1 => Tail(toHost) = << >>
  BY DEF WireType
<1>3. SlotType'
  BY <1>2 DEF SlotType, slotVars, relayVars
<1>4. WireType' /\ FaultType'
  BY <1>2 DEF WireType, FaultType
<1>5. BoardType' /\ Agreement'
  BY BoardKept DEF board
<1>6. Exchange'
  <2> SUFFICES ASSUME Underway PROVE Single' /\ Vouching'
    BY <1>1 DEF Exchange
  <2>1. Single /\ Vouching
    BY DEF Exchange
  <2>2. /\ cur # None /\ awaiting /\ toBoard = << >> /\ NoReply /\ ~ready /\ ~stored
    BY <2>1, OnTheWay DEF SlotType
  <2>3. Len(toHost) = 1 /\ Vouched(Head(toHost))
    BY <1>2, <2>1 DEF Single, Vouching
  <2>4. toHost' = << >> /\ reading' = Head(toHost) /\ reading' \in Replies
    BY <1>2, <2>2, <2>3
  <2>5. Single'
    BY <2>2, <2>4 DEF Single, NoReply, slotVars
  <2>6. \A i \in DOMAIN txQueue' : txQueue'[i] = State
    BY <2>2 DEF NoReply
  <2>7. \A i \in DOMAIN toHost' : FALSE
    BY <2>4
  <2>8. Vouched(reading)'
    <3>1. reading'.to = cur' /\ (reading'.ok => Effect)
      BY <2>3, <2>4 DEF Vouched, slotVars
    <3> QED BY <3>1 DEF Vouched, Effect, relayVars, slotVars, board
  <2>9. ~ready'
    BY <2>2 DEF slotVars
  <2> QED BY <2>5, <2>6, <2>7, <2>8, <2>9 DEF Vouching
<1> QED BY <1>1, <1>3, <1>4, <1>5, <1>6, PartsNext

LEMMA ReaderStoresStep == ASSUME IInv, ReaderStores PROVE IInv'
<1> USE Parts DEF ReaderStores
<1>1. RelayType' /\ InOrder' /\ (Underway' <=> Underway)
  BY RelayKept
<1>2. SlotType'
  BY DEF SlotType, relayVars
<1>3. WireType' /\ FaultType'
  BY DEF WireType, FaultType, wires
<1>4. BoardType' /\ Agreement'
  BY BoardKept DEF board, wires
<1>5. Exchange'
  <2> SUFFICES ASSUME Underway PROVE Single' /\ Vouching'
    BY <1>1 DEF Exchange
  <2>1. Single /\ Vouching
    BY DEF Exchange
  <2>2. /\ cur # None /\ toBoard = << >> /\ NoReply /\ ~ready /\ toHost = << >>
    BY <2>1, OnTheWay
  <2>3. Single'
    BY <2>2 DEF Single, NoReply, wires
  <2>4. \A i \in DOMAIN txQueue' : txQueue'[i] = State
    BY <2>2 DEF NoReply, wires
  <2>5. \A i \in DOMAIN toHost' : FALSE
    BY <2>2 DEF wires
  <2>6. Vouched(reading)'
    BY <2>1 DEF Vouching, Vouched, Effect, relayVars, board
  <2>7. ~ready'
    BY <2>2
  <2> QED BY <2>3, <2>4, <2>5, <2>6, <2>7 DEF Vouching
<1> QED BY <1>1, <1>2, <1>3, <1>4, <1>5, PartsNext

LEMMA ReaderSignalsStep == ASSUME IInv, ReaderSignals PROVE IInv'
<1> USE Parts DEF ReaderSignals
<1>1. RelayType' /\ InOrder' /\ (Underway' <=> Underway)
  BY RelayKept
<1>2. SlotType' /\ reading # None
  BY DEF SlotType, relayVars
<1>3. WireType' /\ FaultType'
  BY DEF WireType, FaultType, wires
<1>4. BoardType' /\ Agreement'
  BY BoardKept DEF board, wires
<1>5. Exchange'
  <2> SUFFICES ASSUME Underway PROVE Single' /\ Vouching'
    BY <1>1 DEF Exchange
  <2>1. Single /\ Vouching
    BY DEF Exchange
  <2>2. /\ cur # None /\ toBoard = << >> /\ NoReply /\ ~ready /\ toHost = << >> /\ slot = reading
    BY <1>2, <2>1, OnTheWay DEF Single
  <2>3. Single'
    BY <2>2 DEF Single, NoReply, wires
  <2>4. \A i \in DOMAIN txQueue' : txQueue'[i] = State
    BY <2>2 DEF NoReply, wires
  <2>5. \A i \in DOMAIN toHost' : FALSE
    BY <2>2 DEF wires
  <2>6. Vouched(slot)'
    BY <1>2, <2>1, <2>2 DEF Vouching, Vouched, Effect, relayVars, board
  <2>7. slot' # None
    BY <1>2, <2>2
  <2> QED BY <2>3, <2>4, <2>5, <2>6, <2>7 DEF Vouching
<1> QED BY <1>1, <1>2, <1>3, <1>4, <1>5, PartsNext

-----------------------------------------------------------------------------
(* The board takes a frame.                                                *)

\* What is put on the queue comes last, or not at all.
LEMMA Queued ==
  ASSUME WireType, NEW x \in Replies \cup {State}, Enqueue(x)
  PROVE  /\ txQueue' \in Seq(Replies \cup {State}) /\ Len(txQueue') <= TxDepth
         /\ \A i \in DOMAIN txQueue' :
              \/ i \in DOMAIN txQueue /\ txQueue'[i] = txQueue[i]
              \/ i = Len(txQueue) + 1 /\ txQueue'[i] = x
<1>1. txQueue \in Seq(Replies \cup {State}) /\ Len(txQueue) <= TxDepth
  BY DEF WireType
<1>2. CASE Len(txQueue) < TxDepth
  <2> DEFINE q == Append(txQueue, x)
  <2>1. txQueue' = q
    BY <1>2 DEF Enqueue
  <2>2. q \in Seq(Replies \cup {State}) /\ Len(q) = Len(txQueue) + 1
    BY <1>1
  <2>3. \A i \in 1 .. Len(txQueue) : q[i] = txQueue[i]
    BY <1>1
  <2>4. q[Len(txQueue) + 1] = x
    BY <1>1
  <2>5. Len(q) <= TxDepth
    BY <1>1, <1>2, <2>2, Sentinels
  <2> HIDE DEF q
  <2>6. DOMAIN q = 1 .. Len(txQueue) + 1 /\ DOMAIN txQueue = 1 .. Len(txQueue)
    BY <1>1, <2>2
  <2>7. \A i \in DOMAIN q : i \in DOMAIN txQueue \/ i = Len(txQueue) + 1
    BY <1>1, <2>6
  <2> QED BY <2>1, <2>2, <2>3, <2>4, <2>5, <2>6, <2>7
<1>3. CASE ~(Len(txQueue) < TxDepth)
  BY <1>1, <1>3 DEF Enqueue
<1> QED BY <1>2, <1>3

\* If it is a clean operation's it is the request in progress, and its reply is
\* the only one there is.
LEMMA Taking ==
  ASSUME IInv, NEW types, NEW ok \in BOOLEAN, Take(types, ok),
         Underway /\ ok => Effect'
  PROVE  /\ RelayType' /\ SlotType' /\ WireType' /\ InOrder' /\ Exchange'
<1> USE Parts DEF Take
<1> DEFINE reply == [to |-> Head(toBoard), ok |-> ok]
<1>1. /\ toBoard \in Seq(Requests) /\ Head(toBoard) \in Requests /\ Tail(toBoard) \in Seq(Requests)
      /\ txQueue \in Seq(Replies \cup {State})
  BY DEF WireType
<1>2. /\ reply.to = Head(toBoard) /\ reply.ok = ok /\ reply \in Replies /\ reply # State
  BY <1>1, Sentinels DEF Replies
<1> HIDE DEF reply
<1>3. Enqueue(reply)
  BY DEF reply
<1>4. /\ txQueue' \in Seq(Replies \cup {State}) /\ Len(txQueue') <= TxDepth
      /\ \A i \in DOMAIN txQueue' :
           \/ i \in DOMAIN txQueue /\ txQueue'[i] = txQueue[i]
           \/ i = Len(txQueue) + 1 /\ txQueue'[i] = reply
  BY <1>2, <1>3, Queued
<1>5. RelayType' /\ InOrder' /\ (Underway' <=> Underway)
  BY RelayKept DEF slotVars
<1>6. SlotType'
  BY DEF SlotType, slotVars, reader, relayVars
<1>7. WireType'
  BY <1>1, <1>4 DEF WireType
<1>8. Exchange'
  <2> SUFFICES ASSUME Underway PROVE Single' /\ Vouching'
    BY <1>5 DEF Exchange
  <2>1. /\ cur # None /\ toBoard = <<cur>> /\ NoReply /\ toHost = << >> /\ reading = None /\ ~ready
        /\ Head(toBoard) = cur
    BY DEF Exchange, Single
  <2>2. toBoard' = << >>
    BY <2>1
  <2>3. \A i \in DOMAIN txQueue' : txQueue'[i] # State => i = Len(txQueue) + 1 /\ txQueue'[i] = reply
    BY <1>4, <2>1 DEF NoReply
  <2>4. \A i, j \in DOMAIN txQueue' : txQueue'[i] # State /\ txQueue'[j] # State => i = j
    BY <2>3
  <2>5. /\ cur' # None /\ toHost' = << >> /\ reading' = None /\ ~ready'
    BY <2>1 DEF slotVars, reader
  <2>6. Single'
    BY <2>2, <2>4, <2>5 DEF Single, NoReply
  <2>7. reply.to = cur' /\ (reply.ok => Effect')
    BY <1>2, <2>1 DEF slotVars
  <2>8. (\A i \in DOMAIN txQueue : txQueue[i] # State => Vouched(txQueue[i]))'
    BY <2>3, <2>7 DEF Vouched
  <2>9. \A i \in DOMAIN toHost' : FALSE
    BY <2>5
  <2> QED BY <2>5, <2>6, <2>8, <2>9 DEF Vouching
<1> QED BY <1>5, <1>6, <1>7, <1>8

\* The frame the board takes: the one in progress of a clean operation, or one
\* of an operation given up on.
LEMMA FrameTaken ==
  ASSUME IInv, toBoard # << >>
  PROVE  LET f == Head(toBoard)
         IN  /\ f \in Requests
             /\ f.type \in ParamFrames => /\ confirmed = None /\ f.type \in Frames(f.cfg)
                                          /\ trusted => Holds(f.type, f.cfg)
             /\ f.type = "stop" => ~relayRuns
             /\ Underway => cur # None /\ f = cur /\ f.type = Head(todo) /\ f.cfg = target
<1> USE Parts
<1>1. Head(toBoard) = toBoard[1] /\ 1 \in DOMAIN toBoard /\ Head(toBoard) \in Requests
  BY DEF WireType
<1>2. Head(toBoard).type \in ParamFrames =>
        /\ confirmed = None /\ Head(toBoard).type \in Frames(Head(toBoard).cfg)
        /\ trusted => Holds(Head(toBoard).type, Head(toBoard).cfg)
  BY <1>1 DEF Agreement, Strays, IsParam
<1>3. Head(toBoard).type = "stop" => ~relayRuns
  BY <1>1 DEF Agreement, Strays
<1>4. Underway => cur # None /\ Head(toBoard) = cur
  BY DEF Exchange, Single
<1>5. cur # None => cur.type = Head(todo) /\ cur.cfg = target
  BY DEF InOrder
<1> QED BY <1>1, <1>2, <1>3, <1>4, <1>5

\* A frame of a configuration disturbs none of those before it.
LEMMA FrameApplied ==
  ASSUME IInv, toBoard # << >>, toBoard' = Tail(toBoard), UNCHANGED relayVars,
         Head(toBoard).type \in ParamFrames,
         \/ params' = params
         \/ params' = [params EXCEPT ![Head(toBoard).type] = Head(toBoard).cfg],
         law' = law \/ Head(toBoard).type \in {"network", "iface"},
         blocks' = blocks \/ Head(toBoard).type \in {"network", "plant", "virtual"},
         law' \in {"scalar", "microgrid"}, blocks' \subseteq {"plant", "virtual"},
         running' = running, LawIsWhole'
  PROVE  BoardType' /\ Agreement'
<1> USE Parts
<1> DEFINE f == Head(toBoard)
           t == Head(todo)
<1>1. /\ f \in Requests /\ confirmed = None
      /\ Underway => f.type = t /\ f.cfg = target
  BY FrameTaken
<1>2. params \in [ParamFrames -> Configs \cup {None}] /\ f.cfg \in Configs \cup {None}
  BY <1>1 DEF BoardType, Requests
<1>3. params' \in [ParamFrames -> Configs \cup {None}]
  BY <1>2
<1>4. BoardType'
  BY <1>3 DEF BoardType
<1>5. \A s \in ParamFrames : params'[s] = params[s] \/ s = f.type
  BY <1>2
<1> HIDE DEF f
<1>6. ASSUME op = "configure", clean PROVE Holds(t, target)'
  <2>1. CASE t = "network"
    <3>1. Before("network", target) = {}
      BY FramesLiteral
    <3> QED BY <2>1, <3>1 DEF Holds, relayVars
  <2>2. CASE t # "network"
    <3>1. Holds(t, target) /\ f.type = t
      BY <1>1, <1>6, <2>2 DEF Underway, Agreement, Pushed
    <3>2. Before(t, target) \subseteq ParamFrames \ {t}
      BY DEF Before, Earlier, ParamFrames
    <3>3. \A s \in Before(t, target) : params'[s] = target
      BY <1>5, <3>1, <3>2 DEF Holds
    <3>4. "iface" \in Before(t, target) => t \notin {"network", "iface", "plant", "virtual"}
      BY DEF Before, Earlier
    <3>5. "iface" \in Before(t, target) => law' = law /\ blocks' = blocks
      BY <3>1, <3>4 DEF f
    <3>6. t # "iface" => law' = law
      BY <2>2, <3>1 DEF f
    <3>7. /\ target' = target /\ todo' = todo
      BY DEF relayVars
    <3> HIDE DEF t
    <3>8. Holds(t, target) <=> /\ \A s \in Before(t, target) : params[s] = target
                               /\ "network" \in Before(t, target) =>
                                    /\ "iface" \in Before(t, target) => law = "microgrid" /\ blocks = {"plant", "virtual"}
                                    /\ "iface" \notin Before(t, target) /\ t # "iface" => law = "scalar"
      BY DEF Holds
    <3> QED BY <3>1, <3>3, <3>5, <3>6, <3>7, <3>8 DEF Holds, t
  <2> QED BY <2>1, <2>2
<1>7. Pushed'
  BY <1>6 DEF Pushed, relayVars
<1>8. ConfirmedIsHeld' /\ StartedIsRunning'
  BY <1>1 DEF Agreement, ConfirmedIsHeld, StartedIsRunning, relayVars
<1>9. Strays'
  <2>1. \A i \in DOMAIN toBoard' : i + 1 \in DOMAIN toBoard /\ toBoard'[i] = toBoard[i + 1]
                                   /\ i \in Nat /\ i + 1 # 1
    BY DEF WireType
  <2>2. IsParam(1) /\ 1 \in DOMAIN toBoard
    BY DEF WireType, IsParam
  <2>3. \A i \in DOMAIN toBoard' : IsParam(i)' <=> IsParam(i + 1)
    BY <2>1 DEF IsParam
  <2>4. trusted => \A i \in DOMAIN toBoard' : ~IsParam(i)'
    BY <2>1, <2>2, <2>3 DEF Agreement, Strays
  <2>5. \A i \in DOMAIN toBoard' : IsParam(i)' => toBoard'[i].type \in Frames(toBoard'[i].cfg)
    BY <2>1, <2>3 DEF Agreement, Strays
  <2>6. \A i \in DOMAIN toBoard' : toBoard'[i].type = "stop" => ~relayRuns
    BY <2>1 DEF Agreement, Strays
  <2>7. confirmed' = None /\ trusted' = trusted /\ relayRuns' = relayRuns
    BY <1>1 DEF relayVars
  <2> QED BY <2>4, <2>5, <2>6, <2>7 DEF Strays
<1> QED BY <1>4, <1>7, <1>8, <1>9 DEF Agreement

\* What the law's blocks say once a frame that is not theirs was applied.
LEMMA OtherFrame ==
  ASSUME LawIsWhole, BoardType, UNCHANGED <<blocks, law, trusted>>,
         NEW s, s \notin Mg, NEW v,
         params' = params \/ params' = [params EXCEPT ![s] = v]
  PROVE  LawIsWhole'
<1>1. \A q \in Mg : params'[q] = params[q]
  BY DEF BoardType, Mg, ParamFrames
<1> QED BY <1>1 DEF LawIsWhole, Mg

LEMMA ApplyNetworkStep == ASSUME IInv, ApplyNetwork PROVE IInv'
<1> USE Parts DEF ApplyNetwork
<1>1. /\ toBoard # << >> /\ Head(toBoard).type = "network" /\ UNCHANGED relayVars
      /\ toBoard' = Tail(toBoard)
  BY DEF Take
<1>2. Underway => Head(toBoard).type = Head(todo) /\ Head(toBoard).cfg = target
  BY <1>1, FrameTaken
<1>3. params \in [ParamFrames -> Configs \cup {None}] /\ FaultType'
  BY DEF BoardType, FaultType
<1>4. BoardType' /\ Agreement'
  <2>1. LawIsWhole'
    BY <1>1 DEF LawIsWhole, Agreement, relayVars
  <2>2. blocks' \subseteq {"plant", "virtual"} /\ law' \in {"scalar", "microgrid"}
    BY DEF BoardType
  <2>3. Head(toBoard).type \in ParamFrames
    BY <1>1 DEF ParamFrames
  <2> QED BY <1>1, <2>1, <2>2, <2>3, FrameApplied DEF Fields
<1>5. Underway /\ ~Bad => Effect'
  <2> SUFFICES ASSUME Underway, ~Bad PROVE Effect'
    OBVIOUS
  <2>1. params'["network"] = target /\ law' = "scalar" /\ "network" \in ParamFrames
    BY <1>1, <1>2, <1>3 DEF Fields, ParamFrames
  <2>2. Head(todo') = "network" /\ target' = target
    BY <1>1, <1>2 DEF relayVars
  <2> QED BY <2>1, <2>2 DEF Effect
<1>6. (~Bad) \in BOOLEAN
  OBVIOUS
<1>7. Take({"network"}, ~Bad)
  OBVIOUS
<1> HIDE DEF ApplyNetwork, Bad
<1>8. RelayType' /\ SlotType' /\ WireType' /\ InOrder' /\ Exchange'
  BY <1>5, <1>6, <1>7, Taking
<1> QED BY <1>3, <1>4, <1>8, PartsNext

\* A frame that is stored, and neither declares nor commits a law.
LEMMA StoredFrame ==
  ASSUME IInv, NEW types \in SUBSET {"algorithm", "disturbance", "radio"},
         NEW ok \in BOOLEAN, Take(types, ok), FaultType',
         params' = params \/ Fields, ok => Fields,
         UNCHANGED <<blocks, law, running>>
  PROVE  IInv'
<1> USE Parts
<1>1. /\ toBoard # << >> /\ Head(toBoard).type \in {"algorithm", "disturbance", "radio"}
      /\ UNCHANGED relayVars /\ toBoard' = Tail(toBoard)
  BY DEF Take
<1>2. /\ Head(toBoard).type \in ParamFrames /\ Head(toBoard).type \notin Mg
      /\ Underway => Head(toBoard).type = Head(todo) /\ Head(toBoard).cfg = target
  BY <1>1, FrameTaken DEF ParamFrames, Mg
<1>3. params \in [ParamFrames -> Configs \cup {None}]
  BY DEF BoardType
<1>4. BoardType' /\ Agreement'
  <2>1. LawIsWhole'
    BY <1>1, <1>2, OtherFrame DEF Fields, Agreement, relayVars
  <2>2. blocks' \subseteq {"plant", "virtual"} /\ law' \in {"scalar", "microgrid"}
    BY DEF BoardType
  <2> QED BY <1>1, <1>2, <2>1, <2>2, FrameApplied DEF Fields
<1>5. Underway /\ ok => Effect'
  <2> SUFFICES ASSUME Underway, ok PROVE Effect'
    OBVIOUS
  <2>1. params'[Head(todo)] = target
    BY <1>2, <1>3 DEF Fields
  <2>2. todo' = todo /\ target' = target
    BY <1>1 DEF relayVars
  <2> QED BY <1>1, <1>2, <2>1, <2>2 DEF Effect
<1>6. RelayType' /\ SlotType' /\ WireType' /\ InOrder' /\ Exchange'
  BY <1>5, Taking
<1> QED BY <1>4, <1>6, PartsNext

LEMMA ApplyScalarStep == ASSUME IInv, ApplyScalar PROVE IInv'
<1> DEFINE ok == ~Bad
<1>1. /\ Take({"algorithm", "disturbance"}, ok) /\ ok \in BOOLEAN
      /\ UNCHANGED <<blocks, law, running, faults>>
  BY DEF ApplyScalar
<1>2. FaultType'
  BY <1>1, Parts DEF FaultType
<1>3. (params' = params \/ Fields) /\ (ok => Fields)
  BY DEF ApplyScalar
<1> HIDE DEF ok
<1> QED BY <1>1, <1>2, <1>3, StoredFrame

LEMMA ApplyRadioStep == ASSUME IInv, ApplyRadio PROVE IInv'
<1> DEFINE ok == ~Bad
<1>1. /\ Take({"radio"}, ok) /\ ok \in BOOLEAN
      /\ UNCHANGED <<blocks, law, running, faults>>
  BY DEF ApplyRadio
<1>2. FaultType'
  BY <1>1, Parts DEF FaultType
<1>3. (params' = params \/ Fields) /\ (ok => Fields)
  BY DEF ApplyRadio
<1> HIDE DEF ok
<1> QED BY <1>1, <1>2, <1>3, StoredFrame

LEMMA ApplyRadioFailsStep == ASSUME IInv, ApplyRadioFails PROVE IInv'
<1>1. Take({"radio"}, FALSE) /\ Fields /\ UNCHANGED <<blocks, law, running>>
  BY DEF ApplyRadioFails
<1>2. FaultType'
  BY Parts, FaultKept DEF ApplyRadioFails
<1> QED BY <1>1, <1>2, StoredFrame

\* The blocks come while the law is the scalar one.
LEMMA ApplyBlockStep == ASSUME IInv, ApplyBlock PROVE IInv'
<1> USE Parts DEF ApplyBlock
<1> DEFINE ok == ~Bad
           f == Head(toBoard)
<1>1. /\ toBoard # << >> /\ f.type \in {"plant", "virtual"}
      /\ UNCHANGED relayVars /\ toBoard' = Tail(toBoard)
  BY DEF Take
<1>2. /\ f.type \in ParamFrames /\ f.type \in Frames(f.cfg)
      /\ trusted => Holds(f.type, f.cfg)
      /\ Underway => f.type = Head(todo) /\ f.cfg = target
  BY <1>1, FrameTaken DEF ParamFrames
<1>3. params \in [ParamFrames -> Configs \cup {None}] /\ FaultType'
  BY DEF BoardType, FaultType
<1>4. trusted => law = "scalar"
  <2>1. "network" \in Before(f.type, f.cfg) /\ "iface" \notin Before(f.type, f.cfg)
        /\ f.type # "iface"
    BY <1>1 DEF Before, Earlier, Frames
  <2> QED BY <1>2, <2>1 DEF Holds
<1>5. BoardType' /\ Agreement'
  <2>1. LawIsWhole'
    BY <1>1, <1>4 DEF LawIsWhole, relayVars
  <2>2. blocks' \subseteq {"plant", "virtual"} /\ law' \in {"scalar", "microgrid"}
    BY <1>1 DEF BoardType
  <2> QED BY <1>1, <1>2, <2>1, <2>2, FrameApplied DEF Fields
<1>6. Underway /\ ok => Effect'
  <2> SUFFICES ASSUME Underway PROVE Effect'
    OBVIOUS
  <2>1. params'[Head(todo)] = target
    BY <1>2, <1>3 DEF Fields
  <2>2. todo' = todo /\ target' = target
    BY <1>1 DEF relayVars
  <2> QED BY <1>1, <1>2, <2>1, <2>2 DEF Effect
<1>7. Take({"plant", "virtual"}, ok) /\ ok \in BOOLEAN
  OBVIOUS
<1> HIDE DEF ApplyBlock, ok
<1>8. RelayType' /\ SlotType' /\ WireType' /\ InOrder' /\ Exchange'
  BY <1>6, <1>7, Taking
<1> QED BY <1>3, <1>5, <1>8, PartsNext

\* The commit finds both blocks of its own assignment.
LEMMA ApplyIfaceStep == ASSUME IInv, ApplyIface PROVE IInv'
<1> USE Parts
<1> DEFINE ok == ~Bad /\ {"plant", "virtual"} \subseteq blocks
           f == Head(toBoard)
<1>1. /\ Take({"iface"}, ok) /\ ok \in BOOLEAN
      /\ ok => Fields /\ law' = "microgrid" /\ blocks = {"plant", "virtual"}
      /\ ~ok => UNCHANGED <<params, law>>
      /\ UNCHANGED <<blocks, running, faults>>
  BY DEF ApplyIface, BoardType
<1> HIDE DEF ok
<1>2. /\ toBoard # << >> /\ f.type = "iface" /\ UNCHANGED relayVars /\ toBoard' = Tail(toBoard)
  BY <1>1 DEF Take
<1>3. /\ f.type \in ParamFrames /\ f.type \in Frames(f.cfg)
      /\ trusted => Holds(f.type, f.cfg)
      /\ Underway => f.type = Head(todo) /\ f.cfg = target
  BY <1>2, FrameTaken DEF ParamFrames
<1>4. params \in [ParamFrames -> Configs \cup {None}] /\ FaultType'
  BY <1>1 DEF BoardType, FaultType
<1>5. /\ f.cfg \in Microgrid
      /\ trusted => params["plant"] = f.cfg /\ params["virtual"] = f.cfg
  <2>1. f.cfg \in Microgrid
    BY <1>2, <1>3 DEF Frames, Mg
  <2>2. "plant" \in Before(f.type, f.cfg) /\ "virtual" \in Before(f.type, f.cfg)
    BY <1>2, <2>1 DEF Before, Earlier, Frames, Mg
  <2> QED BY <1>3, <2>1, <2>2 DEF Holds
<1>6. LawIsWhole'
  <2>1. CASE ok /\ trusted
    <3>1. params' = [params EXCEPT !["iface"] = f.cfg]
      BY <1>1, <1>2, <2>1 DEF Fields
    <3>2. \A s \in {"plant", "virtual", "iface"} : params'[s] = f.cfg
      BY <1>4, <1>5, <2>1, <3>1 DEF ParamFrames
    <3> HIDE DEF f
    <3> QED BY <1>1, <1>5, <2>1, <3>2 DEF LawIsWhole
  <2>2. CASE ~trusted
    BY <1>2, <2>2 DEF LawIsWhole, relayVars
  <2>3. CASE ~ok
    BY <1>1, <1>2, <2>3 DEF Agreement, LawIsWhole, relayVars
  <2> QED BY <2>1, <2>2, <2>3
<1>7. BoardType' /\ Agreement'
  <2>1. blocks' \subseteq {"plant", "virtual"} /\ law' \in {"scalar", "microgrid"}
    BY <1>1 DEF BoardType
  <2>2. params' = params \/ Fields
    BY <1>1
  <2> QED BY <1>1, <1>2, <1>3, <1>6, <2>1, <2>2, FrameApplied DEF Fields
<1>8. Underway /\ ok => Effect'
  <2> SUFFICES ASSUME Underway, ok PROVE Effect'
    OBVIOUS
  <2>1. params'["iface"] = target /\ law' = "microgrid" /\ blocks' = {"plant", "virtual"}
    BY <1>1, <1>2, <1>3, <1>4 DEF Fields
  <2>2. Head(todo') = "iface" /\ target' = target
    BY <1>2, <1>3 DEF relayVars
  <2> QED BY <2>1, <2>2 DEF Effect
<1>9. RelayType' /\ SlotType' /\ WireType' /\ InOrder' /\ Exchange'
  BY <1>1, <1>8, Taking
<1> QED BY <1>4, <1>7, <1>9, PartsNext

\* A frame that carries no parameter.
LEMMA CommandTaken ==
  ASSUME IInv, NEW types \in SUBSET {"start", "stop", "stats"}, Take(types, TRUE),
         UNCHANGED <<params, blocks, law, faults>>, running' \in BOOLEAN,
         Head(toBoard).type = "start" => running',
         relayRuns /\ running => running'
  PROVE  IInv'
<1> USE Parts
<1>1. /\ toBoard # << >> /\ Head(toBoard).type \in {"start", "stop", "stats"}
      /\ UNCHANGED relayVars /\ toBoard' = Tail(toBoard)
  BY DEF Take
<1>2. Underway => Head(toBoard).type = Head(todo)
  BY <1>1, FrameTaken
<1>3. Underway => Effect'
  <2>1. todo' = todo
    BY <1>1 DEF relayVars
  <2> QED BY <1>1, <1>2, <2>1 DEF Effect, ParamFrames
<1>4. BoardType' /\ FaultType'
  BY DEF BoardType, FaultType
<1>5. Agreement'
  <2>1. Pushed' /\ ConfirmedIsHeld' /\ LawIsWhole'
    BY <1>1 DEF Agreement, Pushed, Holds, ConfirmedIsHeld, LawIsWhole, relayVars
  <2>2. StartedIsRunning'
    BY <1>1 DEF Agreement, StartedIsRunning, relayVars
  <2>3. Strays'
    BY <1>1, StraysFewer DEF Agreement, relayVars
  <2> QED BY <2>1, <2>2, <2>3 DEF Agreement
<1>6. RelayType' /\ SlotType' /\ WireType' /\ InOrder' /\ Exchange'
  BY <1>3, Taking
<1> QED BY <1>4, <1>5, <1>6, PartsNext

LEMMA ApplyTriggerStep == ASSUME IInv, ApplyTrigger PROVE IInv'
BY CommandTaken DEF ApplyTrigger

\* A stop given up on finds no run the relay believes in.
LEMMA ApplyStopStep == ASSUME IInv, ApplyStop PROVE IInv'
<1>1. toBoard # << >> /\ Head(toBoard).type = "stop"
  BY DEF ApplyStop, Take
<1>2. ~relayRuns
  BY <1>1, FrameTaken
<1> QED BY <1>1, <1>2, CommandTaken DEF ApplyStop

LEMMA AnswerStatsStep == ASSUME IInv, AnswerStats PROVE IInv'
<1>1. toBoard # << >> /\ Head(toBoard).type = "stats"
  BY DEF AnswerStats, Take
<1>2. running' \in BOOLEAN
  BY Parts DEF AnswerStats, BoardType, board
<1> QED BY <1>1, <1>2, CommandTaken DEF AnswerStats, board

-----------------------------------------------------------------------------
(* The board on its own, and the wires.                                    *)

\* A report takes a place in the queue, and no reply's.
LEMMA BoardReportsStep == ASSUME IInv, BoardReports PROVE IInv'
<1> USE Parts DEF BoardReports
<1>1. /\ txQueue' \in Seq(Replies \cup {State}) /\ Len(txQueue') <= TxDepth
      /\ \A i \in DOMAIN txQueue' : \/ txQueue'[i] = State
                                    \/ i \in DOMAIN txQueue /\ txQueue'[i] = txQueue[i]
  BY Queued
<1>2. RelayType' /\ InOrder' /\ (Underway' <=> Underway)
  BY RelayKept DEF slotVars
<1>3. SlotType'
  BY DEF SlotType, slotVars, reader, relayVars
<1>4. WireType' /\ FaultType'
  BY <1>1 DEF WireType, FaultType
<1>5. BoardType' /\ Agreement'
  BY BoardKept DEF board
<1>6. Exchange'
  <2> SUFFICES ASSUME Underway PROVE Single' /\ Vouching'
    BY <1>2 DEF Exchange
  <2>1. Single /\ Vouching
    BY DEF Exchange
  <2>2. NoReply => NoReply'
    BY <1>1 DEF NoReply
  <2>3. \A i, j \in DOMAIN txQueue' : txQueue'[i] # State /\ txQueue'[j] # State => i = j
    BY <1>1, <2>1 DEF Single
  <2>4. Single'
    BY <2>1, <2>2, <2>3 DEF Single, slotVars, reader
  <2>6. \A i \in DOMAIN txQueue' : txQueue'[i] # State => Vouched(txQueue[i]) /\ txQueue'[i] = txQueue[i]
    BY <1>1, <2>1 DEF Vouching
  <2>7. (\A i \in DOMAIN txQueue : txQueue[i] # State => Vouched(txQueue[i]))'
    BY <2>6 DEF Vouched, Effect, relayVars, slotVars, board
  <2>8. (\A i \in DOMAIN toHost : Vouched(toHost[i]))'
    BY <2>1 DEF Vouching, Vouched, Effect, relayVars, slotVars, board
  <2>9. /\ (reading # None => Vouched(reading))'
        /\ (cur # None /\ ready => slot # None /\ Vouched(slot))'
    BY <2>1 DEF Vouching, Vouched, Effect, relayVars, slotVars, reader, board
  <2> QED BY <2>4, <2>7, <2>8, <2>9 DEF Vouching
<1> QED BY <1>2, <1>3, <1>4, <1>5, <1>6, PartsNext

\* What is left of the queue once its head is gone.
LEMMA Unqueued ==
  ASSUME WireType, Transmit
  PROVE  /\ Head(txQueue) = txQueue[1] /\ 1 \in DOMAIN txQueue
         /\ txQueue' \in Seq(Replies \cup {State}) /\ Len(txQueue') <= TxDepth
         /\ \A i \in DOMAIN txQueue' : /\ i \in Nat /\ i + 1 # 1
                                       /\ i + 1 \in DOMAIN txQueue /\ txQueue'[i] = txQueue[i + 1]
<1>1. /\ txQueue \in Seq(Replies \cup {State}) /\ Len(txQueue) <= TxDepth /\ Len(txQueue) > 0
      /\ Head(txQueue) = txQueue[1] /\ 1 \in DOMAIN txQueue
  BY DEF WireType, Transmit
<1>2. txQueue' = Tail(txQueue)
  BY DEF Transmit
<1>3. /\ Tail(txQueue) \in Seq(Replies \cup {State}) /\ Len(Tail(txQueue)) = Len(txQueue) - 1
      /\ \A i \in 1 .. Len(txQueue) - 1 : Tail(txQueue)[i] = txQueue[i + 1]
  BY <1>1
<1>4. DOMAIN Tail(txQueue) = 1 .. Len(txQueue) - 1 /\ DOMAIN txQueue = 1 .. Len(txQueue)
  BY <1>1, <1>3
<1>5. Len(txQueue) - 1 <= TxDepth
  BY <1>1, Sentinels
<1>6. \A i \in 1 .. Len(txQueue) - 1 : i \in Nat /\ i + 1 # 1 /\ i + 1 \in 1 .. Len(txQueue)
  BY <1>1
<1> QED BY <1>1, <1>2, <1>3, <1>4, <1>5, <1>6

\* The one reply there may be to a clean operation goes out to a host that waits
\* for it.
LEMMA TransmitStep == ASSUME IInv, Transmit PROVE IInv'
<1> USE Parts
<1>1. /\ txQueue # << >> /\ UNCHANGED <<relayVars, slotVars, reader, toBoard, board, faults>>
      /\ toHost' = IF Head(txQueue) = State THEN toHost ELSE Append(toHost, Head(txQueue))
  BY DEF Transmit
<1>2. /\ Head(txQueue) = txQueue[1] /\ 1 \in DOMAIN txQueue
      /\ txQueue' \in Seq(Replies \cup {State}) /\ Len(txQueue') <= TxDepth
      /\ \A i \in DOMAIN txQueue' : /\ i \in Nat /\ i + 1 # 1
                                    /\ i + 1 \in DOMAIN txQueue /\ txQueue'[i] = txQueue[i + 1]
  BY Unqueued
<1>3. RelayType' /\ InOrder' /\ (Underway' <=> Underway)
  BY <1>1, RelayKept DEF slotVars
<1>4. SlotType' /\ FaultType'
  BY <1>1 DEF SlotType, FaultType, slotVars, reader, relayVars
<1>5. BoardType' /\ Agreement'
  BY <1>1, BoardKept DEF board
<1>6. toHost \in Seq(Replies) /\ (Head(txQueue) # State => txQueue[1] \in Replies)
  BY <1>2 DEF WireType
<1>7. WireType'
  BY <1>1, <1>2, <1>6 DEF WireType
<1>8. Exchange'
  <2> SUFFICES ASSUME Underway PROVE Single' /\ Vouching'
    BY <1>3 DEF Exchange
  <2>1. Single /\ Vouching
    BY DEF Exchange
  <2>2. \A i, j \in DOMAIN txQueue' : txQueue'[i] # State /\ txQueue'[j] # State => i = j
    <3> SUFFICES ASSUME NEW i \in DOMAIN txQueue', NEW j \in DOMAIN txQueue',
                        txQueue'[i] # State, txQueue'[j] # State
                 PROVE  i = j
      OBVIOUS
    <3>1. i + 1 = j + 1
      BY <1>2, <2>1 DEF Single
    <3> QED BY <1>2, <3>1
  <2>3. \A i \in DOMAIN txQueue' : txQueue'[i] # State => Vouched(txQueue'[i])
    BY <1>2, <2>1 DEF Vouching
  <2>4. (\A i \in DOMAIN txQueue : txQueue[i] # State => Vouched(txQueue[i]))'
    BY <1>1, <2>3 DEF Vouched, Effect, relayVars, slotVars, board
  <2>5. /\ (reading # None => Vouched(reading))'
        /\ (cur # None /\ ready => slot # None /\ Vouched(slot))'
    BY <1>1, <2>1 DEF Vouching, Vouched, Effect, relayVars, slotVars, reader, board
  <2>6. CASE Head(txQueue) = State
    <3>1. toHost' = toHost
      BY <1>1, <2>6
    <3>2. NoReply => NoReply'
      BY <1>2 DEF NoReply
    <3>3. Single'
      BY <1>1, <2>1, <2>2, <3>1, <3>2 DEF Single, slotVars, reader
    <3>4. (\A i \in DOMAIN toHost : Vouched(toHost[i]))'
      BY <1>1, <2>1, <3>1 DEF Vouching, Vouched, Effect, relayVars, slotVars, board
    <3> QED BY <2>4, <2>5, <3>3, <3>4 DEF Vouching
  <2>7. CASE Head(txQueue) # State
    <3>1. cur # None /\ toHost = << >> /\ reading = None /\ ~ready /\ toBoard = << >>
      BY <1>2, <2>1, <2>7 DEF Single, NoReply
    <3>2. toHost' = <<txQueue[1]>>
      BY <1>1, <1>2, <2>7, <3>1
    <3>3. NoReply'
      <4> SUFFICES ASSUME NEW i \in DOMAIN txQueue', txQueue'[i] # State PROVE FALSE
        BY DEF NoReply
      <4>1. i + 1 \in DOMAIN txQueue /\ txQueue[i + 1] # State /\ i + 1 # 1
        BY <1>2
      <4>2. i + 1 = 1
        BY <1>2, <2>1, <2>7, <4>1 DEF Single
      <4> QED BY <4>1, <4>2
    <3>4. Len(toHost') = 1 /\ toHost' # << >>
      <4> DEFINE x == txQueue[1]
      <4>1. toHost' = <<x>>
        BY <3>2
      <4> HIDE DEF x
      <4>2. Len(<<x>>) = 1 /\ <<x>> # << >>
        OBVIOUS
      <4> QED BY <4>1, <4>2
    <3>5. Single'
      BY <1>1, <2>2, <3>1, <3>3, <3>4 DEF Single, slotVars, reader
    <3>6. Vouched(txQueue[1])
      BY <1>2, <2>1, <2>7 DEF Vouching
    <3>7. \A i \in DOMAIN toHost' : toHost'[i] = txQueue[1]
      BY <3>2
    <3>8. (\A i \in DOMAIN toHost : Vouched(toHost[i]))'
      BY <1>1, <3>6, <3>7 DEF Vouched, Effect, relayVars, slotVars, board
    <3> QED BY <2>4, <2>5, <3>5, <3>8 DEF Vouching
  <2> QED BY <2>6, <2>7
<1> QED BY <1>3, <1>4, <1>5, <1>7, <1>8, PartsNext

LEMMA TailOfOne ==
  ASSUME NEW S, NEW s \in Seq(S), Len(s) = 1
  PROVE  Tail(s) = << >>
<1>1. s # << >>
  BY EmptySeq
<1>2. Tail(s) \in Seq(S) /\ Len(Tail(s)) = 0
  BY <1>1, HeadTailProperties
<1> QED BY <1>2, EmptySeq

\* A frame lost from a clean operation leaves nothing of its exchange.
LEMMA LoseFrameStep == ASSUME IInv, LoseFrame PROVE IInv'
<1> USE Parts DEF LoseFrame
<1>1. RelayType' /\ InOrder' /\ (Underway' <=> Underway)
  BY RelayKept DEF slotVars
<1>2. SlotType'
  BY DEF SlotType, slotVars, reader, relayVars
<1>3. FaultType'
  BY FaultKept
<1>4. BoardType' /\ Agreement'
  BY BoardKept DEF board
<1>5. WireType'
  <2>1. /\ toBoard # << >> => Tail(toBoard) \in Seq(Requests)
        /\ toHost # << >> => Tail(toHost) \in Seq(Replies)
    BY DEF WireType
  <2> QED BY <2>1 DEF WireType
<1>6. Exchange'
  <2> SUFFICES ASSUME Underway PROVE Single' /\ Vouching'
    BY <1>1 DEF Exchange
  <2>1. Single /\ Vouching
    BY DEF Exchange
  <2>2. toBoard # << >> => Tail(toBoard) = << >>
    <3> SUFFICES ASSUME toBoard # << >> PROVE Tail(toBoard) = << >>
      OBVIOUS
    <3>1. toBoard = <<cur>>
      BY <2>1 DEF Single
    <3>2. Len(toBoard) = 1
      BY <3>1
    <3>3. toBoard \in Seq(Requests)
      BY DEF WireType
    <3> QED BY <3>2, <3>3, TailOfOne
  <2>3. toHost # << >> => Tail(toHost) = << >>
    BY <2>1, TailOfOne DEF Single, WireType
  <2>4. /\ toBoard' = toBoard \/ toBoard' = << >>
        /\ toHost' = toHost \/ toHost' = << >>
    BY <2>2, <2>3
  <2>5. Single'
    BY <2>1, <2>4 DEF Single, NoReply, slotVars, reader
  <2>6. (\A i \in DOMAIN toHost : Vouched(toHost[i]))'
    BY <2>1, <2>4 DEF Vouching, Vouched, Effect, relayVars, slotVars, board
  <2>7. (\A i \in DOMAIN txQueue : txQueue[i] # State => Vouched(txQueue[i]))'
    BY <2>1 DEF Vouching, Vouched, Effect, relayVars, slotVars, board
  <2>8. /\ (reading # None => Vouched(reading))'
        /\ (cur # None /\ ready => slot # None /\ Vouched(slot))'
    BY <2>1 DEF Vouching, Vouched, Effect, relayVars, slotVars, reader, board
  <2> QED BY <2>5, <2>6, <2>7, <2>8 DEF Vouching
<1> QED BY <1>1, <1>2, <1>3, <1>4, <1>5, <1>6, PartsNext

LEMMA StutterStep == ASSUME IInv, UNCHANGED vars PROVE IInv'
<1> USE Parts DEF vars
<1>1. RelayType' /\ InOrder' /\ (Underway' <=> Underway)
  BY RelayKept DEF slotVars
<1>2. SlotType'
  BY DEF SlotType, slotVars, reader, relayVars
<1>3. WireType' /\ FaultType'
  BY DEF WireType, FaultType, wires
<1>4. BoardType' /\ Agreement'
  BY BoardKept DEF board, wires
<1>5. Single' <=> Single
  BY DEF Single, NoReply, slotVars, reader, wires
<1>6. Vouching' <=> Vouching
  BY DEF Vouching, Vouched, Effect, relayVars, slotVars, reader, wires, board
<1> QED BY <1>1, <1>2, <1>3, <1>4, <1>5, <1>6, PartsNext DEF Exchange

-----------------------------------------------------------------------------
LEMMA NextIInv == ASSUME IInv, [Next]_vars PROVE IInv'
<1>1. CASE Relay
  BY <1>1, BeginConfigureStep, BeginStartStep, BeginStopStep DEF Relay
<1>2. CASE Link
  BY <1>2, SendStep, AnsweredStep, ExpiredStep DEF Link
<1>3. CASE Reader
  BY <1>3, ReaderTakesStep, ReaderStoresStep, ReaderSignalsStep DEF Reader
<1>4. CASE WorkQueue
  BY <1>4, ApplyNetworkStep, ApplyScalarStep, ApplyBlockStep, ApplyIfaceStep, ApplyRadioStep,
     ApplyRadioFailsStep, ApplyTriggerStep, ApplyStopStep, AnswerStatsStep DEF WorkQueue
<1>5. CASE BoardReports \/ Transmit \/ LoseFrame
  BY <1>5, BoardReportsStep, TransmitStep, LoseFrameStep
<1>6. CASE UNCHANGED vars
  BY <1>6, StutterStep
<1> QED BY <1>1, <1>2, <1>3, <1>4, <1>5, <1>6 DEF Next

LEMMA Invariance == Spec => []IInv
<1>1. Init => IInv
  BY InitialIInv
<1>2. IInv /\ [Next]_vars => IInv'
  BY NextIInv
<1> QED BY <1>1, <1>2, PTL DEF Spec

\* Every behaviour of a relay and its board stays within TypeOK: a request in
\* progress is the next frame of its operation, and the queue keeps its depth.
THEOREM TypeCorrect == Spec => []TypeOK
<1>1. IInv => TypeOK
  BY DEF IInv
<1> QED BY <1>1, Invariance, PTL

\* What a request returns is the reply to the frame it sent (SerialLink.request
\* and its gate), also after requests that timed out with their replies still to
\* come, unless one came while its operation already had a request out.
THEOREM RepliesAnswer == Spec => []AnswersItsRequest
<1>1. IInv => AnswersItsRequest
  BY DEF IInv, Exchange, Underway, Vouching, Vouched, AnswersItsRequest
<1> QED BY <1>1, Invariance, PTL

\* A configure() that returned from a clean exchange is held by the board in
\* every block (BleRelay.configure), whatever was refused, lost or late before it
\* and whatever comes late after it.
THEOREM ConfiguredIsHeld == Spec => []ConfirmedIsHeld
<1>1. IInv => ConfirmedIsHeld
  BY DEF IInv
<1> QED BY <1>1, Invariance, PTL

\* The law of a board is of one accepted assignment (apply_mg_iface commits
\* only over blocks that apply_network cleared first), as long as every
\* configuration since one that returned clean met no reply but its own.
THEOREM LawOfOneAssignment == Spec => []LawIsWhole
<1>1. IInv => LawIsWhole
  BY DEF IInv
<1> QED BY <1>1, Invariance, PTL

\* A start() that returned from a clean exchange has triggered the board
\* (BleRelay.start), and only a stop() ends the run, not one given up on before.
THEOREM StartedRuns == Spec => []StartedIsRunning
<1>1. IInv => StartedIsRunning
  BY DEF IInv
<1> QED BY <1>1, Invariance, PTL
=============================================================================
