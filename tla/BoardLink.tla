------------------------------ MODULE BoardLink -------------------------------
(***************************************************************************)
(* A relay and its nRF board: the relay's operations                       *)
(* (vertex/agent/relay.py), the request/reply slot shared by the caller    *)
(* and the reader thread of the serial link (vertex/serial/link.py), the   *)
(* two directions of the UART, the board's transmit queue (uart_link.c)    *)
(* and the frames as the board applies them (control.c, agent.c).          *)
(*                                                                         *)
(* A configuration is pushed frame by frame, each awaiting its reply, and  *)
(* gives up at the first that is refused or not answered in time.  A reply *)
(* is matched to a request by nothing but its arrival: one that comes      *)
(* after its request timed out is dropped if nobody is waiting, and taken  *)
(* for the answer to the next request if that has been sent.               *)
(***************************************************************************)
EXTENDS Naturals, Sequences, FiniteSets

CONSTANTS
  Configs,      \* the assignments
  Microgrid,    \* those that select a microgrid law
  Refused,      \* per assignment, the frames whose values the board refuses
  None,
  State,        \* a STATE report
  TxDepth,      \* entries of the board's transmit queue
  MaxOps,       \* bound on the operations begun
  MaxFaults     \* bound on lost frames, early timeouts and radio errors

\* The frames that carry parameters, in the order they are sent.
Basic   == <<"network", "algorithm", "disturbance">>
MgBlock == <<"plant", "virtual", "iface">>
ParamFrames == {"network", "algorithm", "disturbance", "plant", "virtual",
                "iface", "radio"}
FrameTypes == ParamFrames \cup {"stats", "start", "stop"}

Requests == [type : FrameTypes, cfg : Configs \cup {None}]
\* A reply stands for ACK, ERR or STATS; `to` is the request that caused it,
\* which the frame itself does not say.
Replies  == [to : Requests, ok : BOOLEAN]

ASSUME BoardLinkAssumption ==
  /\ Microgrid \subseteq Configs
  /\ None \notin Configs /\ None \notin Requests /\ None \notin Replies
  /\ State \notin Replies
  /\ Refused \in [Configs -> SUBSET ParamFrames]
  /\ TxDepth \in Nat \ {0}
  /\ MaxOps \in Nat /\ MaxFaults \in Nat

VARIABLES
  op,         \* the relay operation in progress: "configure", "start", "stop"
  target,     \* the assignment a configure pushes, or None
  todo,       \* the frames it has yet to send
  assignment, \* self.assignment
  confirmed,  \* the assignment whose configure() last returned from a clean
              \* exchange, None while a later one is in progress or has failed
  relayRuns,  \* start() returned from a clean exchange, and stop() has not been
              \* called since
  clean,      \* each request of the operation was sent when nothing of an
              \* earlier exchange was under way
  trusted,    \* so was each of every configure() since one returned clean
  begun,      \* operations begun
  cur,        \* the request awaiting its reply, or None
  awaiting,   \* self._awaiting
  slot,       \* self._reply
  ready,      \* self._reply_ready
  reading,    \* the reply the reader thread is storing, or None
  stored,     \* it has written the slot and not yet set the event
  toBoard,    \* frames on their way to the board
  txQueue,    \* tx_queue: replies and STATE reports
  toHost,     \* replies on their way to the reader
  params,     \* per parameter frame, the assignment the board's fields hold
  blocks,     \* mg_blocks
  law,        \* params.law
  running,    \* params.running
  faults

relayVars == <<op, target, todo, assignment, confirmed, relayRuns, clean, trusted,
               begun>>
slotVars  == <<cur, awaiting, slot, ready>>
reader    == <<reading, stored>>
board     == <<params, blocks, law, running>>
wires     == <<toBoard, txQueue, toHost>>
vars      == <<relayVars, slotVars, reader, wires, board, faults>>

Fault == faults < MaxFaults /\ faults' = faults + 1

-----------------------------------------------------------------------------
(* The relay's operations                                                  *)

(* assignment_to_frames, the radio frame, then the board's statistics.     *)
FramesOf(c) == Basic \o (IF c \in Microgrid THEN MgBlock ELSE <<>>)
                     \o <<"radio", "stats">>

(* The agent calls one operation at a time.                                *)
Begin == op = "idle" /\ begun < MaxOps /\ begun' = begun + 1 /\ clean' = TRUE

BeginConfigure(c) ==
  /\ Begin
  /\ op' = "configure" /\ target' = c /\ todo' = FramesOf(c)
  /\ confirmed' = None
  /\ UNCHANGED <<assignment, relayRuns, trusted, slotVars, reader, wires, board, faults>>

(* An assignment configured once is enough, whatever became of a later one. *)
BeginStart ==
  /\ Begin /\ assignment # None
  /\ op' = "start" /\ todo' = <<"start">>
  /\ UNCHANGED <<target, assignment, confirmed, relayRuns, trusted, slotVars, reader, wires,
                 board, faults>>

BeginStop ==
  /\ Begin
  /\ op' = "stop" /\ todo' = <<"stop">>
  /\ relayRuns' = FALSE
  /\ UNCHANGED <<target, assignment, confirmed, trusted, slotVars, reader, wires, board, faults>>

(* Nothing of an exchange is under way.                                    *)
Lost ==
  /\ toBoard = <<>> /\ toHost = <<>> /\ reading = None
  /\ \A i \in DOMAIN txQueue : txQueue[i] = State

(* The relay does not know whether it finds the link so.                   *)
Finds ==
  /\ clean' = (clean /\ Lost)
  /\ trusted' = (trusted /\ (op = "configure" => Lost))
  /\ UNCHANGED <<op, target, todo, assignment, confirmed, relayRuns, begun>>

(* Mutant of Send: the event is not cleared.                               *)
SendUncleared ==
  /\ op # "idle" /\ cur = None /\ todo # <<>>
  /\ cur' = [type |-> Head(todo), cfg |-> target]
  /\ awaiting' = TRUE
  /\ toBoard' = Append(toBoard, cur')
  /\ Finds
  /\ UNCHANGED <<slot, ready, reader, txQueue, toHost, board, faults>>

(* request(): empty the slot, open the gate, write the frame.              *)
Send ==
  /\ op # "idle" /\ cur = None /\ todo # <<>>
  /\ cur' = [type |-> Head(todo), cfg |-> target]
  /\ slot' = None /\ ready' = FALSE /\ awaiting' = TRUE
  /\ toBoard' = Append(toBoard, cur')
  /\ Finds
  /\ UNCHANGED <<reader, txQueue, toHost, board, faults>>

(* The request returned a reply: go on, and finish after the last frame.   *)
Accepted ==
  /\ todo' = Tail(todo)
  /\ assignment' = IF cur.type = "radio" THEN target ELSE assignment
  /\ IF Len(todo) > 1
     THEN UNCHANGED <<op, target, confirmed, relayRuns, trusted>>
     ELSE /\ op' = "idle" /\ target' = None
          /\ confirmed' = IF op = "configure" /\ clean THEN target ELSE confirmed
          /\ relayRuns' = (relayRuns \/ (op = "start" /\ clean))
          /\ trusted' = (trusted \/ (op = "configure" /\ clean))
  /\ UNCHANGED <<clean, begun>>

(* Mutant of Rejected: the frame is sent again.                            *)
RejectedRetries ==
  IF cur.type = "stats" THEN Accepted ELSE UNCHANGED relayVars

(* It raised.  Only the statistics may be missing.                         *)
Rejected ==
  IF cur.type = "stats" THEN Accepted
  ELSE /\ op' = "idle" /\ todo' = <<>> /\ target' = None
       /\ UNCHANGED <<assignment, confirmed, relayRuns, clean, trusted, begun>>

(* Mutant of Judge: an ERR is returned like any reply.                     *)
JudgeNothing == Accepted

(* ERR raises LinkRejected; an empty slot raises too.                      *)
Judge == IF slot # None /\ slot.ok THEN Accepted ELSE Rejected

(* The event is set before the timeout.                                    *)
Answered ==
  /\ cur # None /\ ready
  /\ Judge
  /\ cur' = None /\ awaiting' = FALSE
  /\ UNCHANGED <<slot, ready, reader, wires, board, faults>>

(* Mutant of Expired: a request that timed out is taken for answered.      *)
ExpiredAccepted ==
  /\ cur # None /\ ~ready
  /\ IF Lost THEN UNCHANGED faults ELSE Fault
  /\ Accepted
  /\ cur' = None /\ awaiting' = FALSE
  /\ UNCHANGED <<slot, ready, reader, wires, board>>

(* The timeout: the gate is closed, the request raises.  A fault if the     *)
(* reply was yet to come.                                                  *)
Expired ==
  /\ cur # None /\ ~ready
  /\ IF Lost THEN UNCHANGED faults ELSE Fault
  /\ Rejected
  /\ cur' = None /\ awaiting' = FALSE
  /\ UNCHANGED <<slot, ready, reader, wires, board>>

-----------------------------------------------------------------------------
(* The reader thread: _dispatch, statement by statement                    *)

(* The gate: a reply nobody awaits, or a second one, is dropped.           *)
ReaderTakes ==
  /\ reading = None /\ toHost # <<>>
  /\ toHost' = Tail(toHost)
  /\ reading' = IF awaiting /\ ~ready THEN Head(toHost) ELSE None
  /\ UNCHANGED <<relayVars, slotVars, stored, toBoard, txQueue, board, faults>>

ReaderStores ==
  /\ reading # None /\ ~stored
  /\ slot' = reading
  /\ stored' = TRUE
  /\ UNCHANGED <<relayVars, cur, awaiting, ready, reading, wires, board, faults>>

ReaderSignals ==
  /\ stored
  /\ ready' = TRUE
  /\ reading' = None /\ stored' = FALSE
  /\ UNCHANGED <<relayVars, cur, awaiting, slot, wires, board, faults>>

-----------------------------------------------------------------------------
(* The board                                                               *)

(* Mutant of Enqueue: the queue grows.                                     *)
EnqueueUnbounded(frame) == txQueue' = Append(txQueue, frame)

(* uart_link_send: a full queue drops, without blocking.                   *)
Enqueue(frame) ==
  txQueue' = IF Len(txQueue) < TxDepth THEN Append(txQueue, frame) ELSE txQueue

(* The work queue takes the next frame off the wire and answers it.        *)
Take(types, ok) ==
  /\ toBoard # <<>> /\ Head(toBoard).type \in types
  /\ toBoard' = Tail(toBoard)
  /\ Enqueue([to |-> Head(toBoard), ok |-> ok])
  /\ UNCHANGED <<relayVars, slotVars, reader, toHost>>

Bad    == Head(toBoard).type \in Refused[Head(toBoard).cfg]
Fields == params' = [params EXCEPT ![Head(toBoard).type] = Head(toBoard).cfg]

(* Mutant of ApplyNetwork: the law and the blocks survive.                 *)
ApplyNetworkOnly ==
  /\ Take({"network"}, ~Bad)
  /\ IF Bad THEN UNCHANGED params ELSE Fields
  /\ UNCHANGED <<blocks, law, running, faults>>

(* apply_network: every configuration declares its law afresh.             *)
ApplyNetwork ==
  /\ Take({"network"}, ~Bad)
  /\ IF Bad THEN UNCHANGED <<params, blocks, law>>
     ELSE Fields /\ blocks' = {} /\ law' = "scalar"
  /\ UNCHANGED <<running, faults>>

(* apply_algorithm, apply_disturbance: checked, then written.              *)
ApplyScalar ==
  /\ Take({"algorithm", "disturbance"}, ~Bad)
  /\ IF Bad THEN UNCHANGED params ELSE Fields
  /\ UNCHANGED <<blocks, law, running, faults>>

(* apply_mg_plant, apply_mg_virtual: written, then checked.                *)
ApplyBlock ==
  /\ Take({"plant", "virtual"}, ~Bad)
  /\ Fields
  /\ blocks' = IF Bad THEN blocks \ {Head(toBoard).type}
               ELSE blocks \cup {Head(toBoard).type}
  /\ UNCHANGED <<law, running, faults>>

(* apply_mg_iface: the commit, which also resets the integrators.          *)
ApplyIface ==
  LET ok == ~Bad /\ {"plant", "virtual"} \subseteq blocks
  IN /\ Take({"iface"}, ok)
     /\ IF ok THEN Fields /\ law' = "microgrid"
        ELSE UNCHANGED <<params, law>>
     /\ UNCHANGED <<blocks, running, faults>>

(* apply_radio: the parse checks everything.                               *)
ApplyRadio ==
  /\ Take({"radio"}, ~Bad)
  /\ IF Bad THEN UNCHANGED params ELSE Fields
  /\ UNCHANGED <<blocks, law, running, faults>>

(* In a run the scanner is restarted, which may fail after the parameters  *)
(* were stored.                                                            *)
ApplyRadioFails ==
  /\ Fault
  /\ running
  /\ Take({"radio"}, FALSE) /\ ~Bad
  /\ Fields
  /\ UNCHANGED <<blocks, law, running>>

(* apply_control: the trigger latches the initial conditions.              *)
ApplyTrigger ==
  /\ Take({"start"}, TRUE)
  /\ running' = TRUE
  /\ UNCHANGED <<params, blocks, law, faults>>

ApplyStop ==
  /\ Take({"stop"}, TRUE)
  /\ running' = FALSE
  /\ UNCHANGED <<params, blocks, law, faults>>

AnswerStats ==
  /\ Take({"stats"}, TRUE)
  /\ UNCHANGED <<board, faults>>

(* report_state.                                                           *)
BoardReports ==
  /\ running
  /\ Enqueue(State)
  /\ UNCHANGED <<relayVars, slotVars, reader, toBoard, toHost, board, faults>>

(* tx_work: the next queued frame goes out.  A STATE report is handed to   *)
(* the relay's callback and touches no slot.                               *)
Transmit ==
  /\ txQueue # <<>>
  /\ txQueue' = Tail(txQueue)
  /\ toHost' = IF Head(txQueue) = State THEN toHost
               ELSE Append(toHost, Head(txQueue))
  /\ UNCHANGED <<relayVars, slotVars, reader, toBoard, board, faults>>

(* A frame is corrupted: the parser at the other end drops it.             *)
LoseFrame ==
  /\ Fault
  /\ \/ toBoard # <<>> /\ toBoard' = Tail(toBoard) /\ UNCHANGED toHost
     \/ toHost # <<>> /\ toHost' = Tail(toHost) /\ UNCHANGED toBoard
  /\ UNCHANGED <<relayVars, slotVars, reader, txQueue, board>>

-----------------------------------------------------------------------------
Init ==
  /\ op = "idle" /\ target = None /\ todo = <<>>
  /\ assignment = None /\ confirmed = None /\ relayRuns = FALSE
  /\ clean = TRUE /\ trusted = TRUE /\ begun = 0
  /\ cur = None /\ awaiting = FALSE /\ slot = None /\ ready = FALSE
  /\ reading = None /\ stored = FALSE
  /\ toBoard = <<>> /\ txQueue = <<>> /\ toHost = <<>>
  /\ params = [t \in ParamFrames |-> None]
  /\ blocks = {} /\ law = "scalar" /\ running = FALSE
  /\ faults = 0

Relay ==
  \/ \E c \in Configs : BeginConfigure(c)
  \/ BeginStart \/ BeginStop

Link == Send \/ Answered \/ Expired

Reader == ReaderTakes \/ ReaderStores \/ ReaderSignals

WorkQueue ==
  \/ ApplyNetwork \/ ApplyScalar \/ ApplyBlock \/ ApplyIface
  \/ ApplyRadio \/ ApplyRadioFails \/ ApplyTrigger \/ ApplyStop \/ AnswerStats

Next ==
  \/ Relay \/ Link \/ Reader \/ WorkQueue
  \/ BoardReports \/ Transmit \/ LoseFrame

Spec == Init /\ [][Next]_vars

(* Both processors run on, and a request does not wait past its timeout.   *)
Fairness == WF_vars(Link) /\ WF_vars(Reader) /\ WF_vars(WorkQueue)
            /\ WF_vars(Transmit)

FairSpec == Spec /\ Fairness

-----------------------------------------------------------------------------
\* The values of every variable; a request in progress is the next frame to do.
TypeOK ==
  /\ op \in {"idle", "configure", "start", "stop"}
  /\ target \in Configs \cup {None}
  /\ todo \in Seq(FrameTypes) /\ (op = "idle" <=> todo = <<>>)
  /\ assignment \in Configs \cup {None} /\ confirmed \in Configs \cup {None}
  /\ relayRuns \in BOOLEAN /\ clean \in BOOLEAN /\ trusted \in BOOLEAN
  /\ begun \in 0 .. MaxOps
  /\ cur \in Requests \cup {None}
  /\ cur # None => op # "idle" /\ cur.type = Head(todo)
  /\ awaiting = (cur # None)
  /\ slot \in Replies \cup {None} /\ ready \in BOOLEAN
  /\ reading \in Replies \cup {None}
  /\ stored \in BOOLEAN /\ (stored => reading # None)
  /\ toBoard \in Seq(Requests) /\ toHost \in Seq(Replies)
  /\ txQueue \in Seq(Replies \cup {State}) /\ Len(txQueue) <= TxDepth
  /\ params \in [ParamFrames -> Configs \cup {None}]
  /\ blocks \subseteq {"plant", "virtual"} /\ law \in {"scalar", "microgrid"}
  /\ running \in BOOLEAN
  /\ faults \in 0 .. MaxFaults

\* What a request returns is the reply to the frame it sent, unless a request
\* of its operation was sent while a reply to an earlier one was still to come
\* (SerialLink.request).  The gate drops what comes between two requests; that
\* it drops all of it is what link.py:11-13 says and the code does not do.
AnswersItsRequest == cur # None /\ ready /\ clean => slot # None /\ slot.to = cur

\* A configure() that returned from a clean exchange left the board holding that
\* assignment in every block and the law it selects, whatever was lost on the
\* way, and whatever comes late afterwards (BleRelay.configure).
ConfirmedIsHeld ==
  confirmed # None
    => /\ \A t \in ParamFrames \ {"plant", "virtual", "iface"} :
            params[t] = confirmed
       /\ confirmed \in Microgrid
            => /\ law = "microgrid"
               /\ \A t \in {"plant", "virtual", "iface"} : params[t] = confirmed
       /\ confirmed \notin Microgrid => law = "scalar"

\* The board never runs a law over blocks of two assignments, or over one it
\* refused (microgrid_frames, relay.py: "so the board is never running a law
\* whose plant or observer is missing"), as long as every configuration since
\* one that returned clean met no reply but its own; frames given up on may
\* still be applied, between other operations.
LawIsWhole ==
  law = "microgrid" /\ trusted
    => /\ blocks = {"plant", "virtual"}
       /\ \E c \in Microgrid : \A t \in {"plant", "virtual", "iface"} :
            params[t] = c

\* While the relay believes its run is on, after a start() that met no reply but
\* its own, the board is running it: no stop() given up on is still to come.
StartedIsRunning == relayRuns => running

\* Every operation of the relay returns, so the agent's event loop, which it
\* blocks, goes on, however many replies come late.
OperationsReturn == [](op # "idle" => <>(op = "idle"))
=============================================================================
