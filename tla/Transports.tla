------------------------------ MODULE Transports ------------------------------
(***************************************************************************)
(* How a bridge sends on two media at once: MultiTransport over the BLE    *)
(* and UDP members (vertex/transports), the command futures of the BLE     *)
(* member, and the HCI socket that lives as long as the process.           *)
(*                                                                         *)
(* A step is what runs between two awaits of the event loop; ble.start,    *)
(* ble.stop and udp.stop await nothing, and udp.start awaits its endpoint, *)
(* once its socket is bound.                                               *)
(***************************************************************************)
EXTENDS Integers, FiniteSets, Sequences

CONSTANTS
  MaxPackets,  \* bound: publishes, numbered in the order they are made
  MaxStarts,   \* bound: calls of start, failed ones and restarts included
  MaxReports   \* bound: advertising reports the radio hands over

ASSUME TransportsAssumption == MaxPackets \in Nat /\ MaxStarts \in Nat /\ MaxReports \in Nat

VARIABLES
  started,   \* MultiTransport._started
  running,   \* the agent's loops run: Agent.start returned, stop not called
  starts,    \* calls of start so far
  half,      \* a start has raised in the BLE member, which nothing stops then
  ble,       \* BleTransport: _pumping, _advertising, _scanning, _on_receive
  udp,       \* UdpTransport has its endpoint
  radio,     \* the controller: advertising, scanning
  heeded,    \* the last stop's commands were obeyed
  queue,     \* Set Adv Data commands the controller has not answered, in order
  pending,   \* BleTransport._pending: the publish whose future is registered
  future,    \* of each publish's command: "none", "open", or how it was settled
  task,      \* of each publish: the task of Agent._publish
  member,    \* of each publish and medium: the task of the member's publish
  stats,     \* BleStats and MultiStats
  accepted,  \* Command Completes with status 0 that the pump read
  crossed    \* the publishes under way when a stop was called

vars == <<started, running, starts, half, ble, udp, radio, heeded, queue,
          pending, future, task, member, stats, accepted, crossed>>

lifeVars == <<started, running, starts, half, ble, udp, heeded, crossed>>

Media == {"ble", "udp"}
Packets == 1 .. MaxPackets
None == 0     \* no future is registered

Down == [pumping |-> FALSE, adv |-> FALSE, scan |-> FALSE, callback |-> FALSE]

Init ==
  /\ started = {} /\ running = FALSE /\ starts = 0 /\ half = FALSE
  /\ ble = Down /\ udp = FALSE
  /\ radio = [adv |-> FALSE, scan |-> FALSE]
  /\ heeded = TRUE /\ queue = << >> /\ pending = None
  /\ future = [p \in Packets |-> "none"]
  /\ task = [p \in Packets |-> "none"]
  /\ member = [p \in Packets |-> [m \in Media |-> "none"]]
  /\ stats = [sent |-> 0, errors |-> 0, timeouts |-> 0, published |-> 0, partial |-> 0, failed |-> 0,
              reports |-> 0, rejected |-> 0, delivered |-> 0]
  /\ accepted = 0 /\ crossed = {}

Bump(f) == stats' = [stats EXCEPT ![f] = @ + 1]

-----------------------------------------------------------------------------
(* Start and stop *)

(* Where BleTransport.start gives up: nowhere, before advertising is known *)
(* to be on, before the pump is installed, at the last command, which      *)
(* turns scanning on.  A command that is not answered may have been obeyed.*)
Setups == {"up", "silent", "advertising", "pumping"}

SetupHost(s) ==
  [pumping |-> s \in {"up", "pumping"}, adv |-> s # "silent", scan |-> s = "up", callback |-> TRUE]

SetupRadio(s) ==
  {r \in [adv : BOOLEAN, scan : BOOLEAN] :
      /\ s # "silent" => r.adv
      /\ s \in {"silent", "advertising"} /\ r.scan => radio.scan
      /\ s = "up" => r.scan}

Stopped == Down

(* Each off command is issued only where its flag is set; a refusal is     *)
(* swallowed.                                                              *)
Off(flag, on, obeyed) == IF flag /\ obeyed THEN FALSE ELSE on

CancelPending == [p \in Packets |-> IF p = pending /\ future[p] = "open"
                                    THEN "cancelled" ELSE future[p]]

BleStop(h, r, obeyed) ==
  /\ ble' = Stopped
  /\ future' = CancelPending
  /\ pending' = None
  /\ radio' = [r EXCEPT !.adv = Off(h.adv, @, obeyed), !.scan = Off(h.scan, @, obeyed)]
  /\ heeded' = obeyed

(* The first member raised: none is started, and it is not stopped.        *)
FailedBle(s) ==
  /\ s # "up" /\ ~ble.pumping
  /\ ble' = [SetupHost(s) EXCEPT !.adv = @ \/ ble.adv]
  /\ radio' \in SetupRadio(s)
  /\ queue' = << >>
  /\ running' = FALSE /\ half' = TRUE /\ started' = {}
  /\ UNCHANGED <<udp, heeded, pending, future>>

(* Mutant of FailedUdp: the failure of the second member is passed on      *)
(* without stopping the first.                                             *)
FailedUdpWithoutUnwinding(up, r) ==
  /\ ble' = up /\ radio' = r
  /\ queue' = << >>
  /\ running' = FALSE /\ started' = {}
  /\ UNCHANGED <<half, udp, heeded, pending, future>>

(* The second member cannot bind its port: the first is stopped again.     *)
FailedUdp(up, r) ==
  /\ \E obeyed \in BOOLEAN : BleStop(up, r, obeyed)
  /\ queue' = << >>
  /\ running' = FALSE /\ started' = {}
  /\ UNCHANGED <<half, udp>>

(* The first member is up, and the second awaits its endpoint.             *)
BleUp(up, r) ==
  /\ ble' = up /\ radio' = r
  /\ queue' = IF ble.pumping THEN queue ELSE << >>
  /\ started' = {"ble"}
  /\ UNCHANGED <<running, half, udp, heeded, pending, future>>

(* Agent.start, up to the endpoint of the second member.  A BLE member     *)
(* whose pump is installed returns at once.                                *)
Start ==
  /\ started = {} /\ starts < MaxStarts
  /\ starts' = starts + 1
  /\ \/ \E s \in Setups : FailedBle(s)
     \/ \E r \in IF ble.pumping THEN {radio} ELSE SetupRadio("up") :
          LET up == IF ble.pumping THEN ble ELSE SetupHost("up")
          IN  FailedUdp(up, r) \/ BleUp(up, r)
  /\ UNCHANGED <<task, member, stats, accepted, crossed>>

(* The endpoint of the bound socket is there, and Agent.start returns.     *)
Opened ==
  /\ started = {"ble"}
  /\ udp' = TRUE /\ started' = Media /\ running' = TRUE
  /\ UNCHANGED <<starts, half, ble, radio, heeded, queue, pending, future, task, member,
                 stats, accepted, crossed>>

UnderWay == {p \in Packets : task[p] \in {"created", "sending"}}

(* Agent.stop once the loops are cancelled; the publishes they made go on. *)
(* The off commands read past every answer that was still to come, and the *)
(* model drops them with it.                                               *)
Stop ==
  /\ running
  /\ running' = FALSE
  /\ \E obeyed \in BOOLEAN : BleStop(ble, radio, obeyed)
  /\ queue' = << >>
  /\ udp' = FALSE
  /\ started' = {}
  /\ crossed' = crossed \cup UnderWay
  /\ UNCHANGED <<starts, half, task, member, stats, accepted>>

-----------------------------------------------------------------------------
(* One publish: Agent._publish, MultiTransport.publish, its members *)

(* The publish step makes the task of the next packet.                     *)
Publish(p) ==
  /\ running /\ task[p] = "none"
  /\ p > 1 => task[p - 1] # "none"
  /\ task' = [task EXCEPT ![p] = "created"]
  /\ UNCHANGED <<lifeVars, radio, queue, pending, future, member, stats, accepted>>

(* MultiTransport.publish up to its gather: one task for each member.      *)
FanOut(p) ==
  /\ task[p] = "created"
  /\ IF started = {}
     THEN task' = [task EXCEPT ![p] = "refused"] /\ UNCHANGED member
     ELSE /\ task' = [task EXCEPT ![p] = "sending"]
          /\ member' = [member EXCEPT ![p] = [m \in Media |->
                                              IF m \in started THEN "ready" ELSE "none"]]
  /\ UNCHANGED <<lifeVars, radio, queue, pending, future, stats, accepted>>

To(p, m, r) == member' = [member EXCEPT ![p][m] = r]

UdpPublish(p) ==
  /\ member[p]["udp"] = "ready"
  /\ \E r \in IF udp THEN {"returned", "refused"} ELSE {"raised"} : To(p, "udp", r)
  /\ UNCHANGED <<lifeVars, radio, queue, pending, future, task, stats, accepted>>

Outstanding == pending # None /\ future[pending] = "open"

(* Registering the future and sending the command; a send that fails, or a *)
(* command of this opcode still outstanding, is an error.                  *)
BlePublish(p) ==
  /\ member[p]["ble"] = "ready"
  /\ \/ /\ ~ble.pumping
        /\ To(p, "ble", "raised") /\ UNCHANGED <<queue, pending, future, stats>>
     \/ /\ ble.pumping
        /\ To(p, "ble", "refused") /\ Bump("errors")
        /\ pending' = IF Outstanding THEN pending ELSE None
        /\ UNCHANGED <<queue, future>>
     \/ /\ ble.pumping /\ ~Outstanding
        /\ pending' = p
        /\ future' = [future EXCEPT ![p] = "open"]
        /\ queue' = Append(queue, p)
        /\ To(p, "ble", "waiting")
        /\ UNCHANGED stats
  /\ UNCHANGED <<lifeVars, radio, task, accepted>>

(* _settle: whoever is registered for the opcode takes the answer.         *)
Settle(r) == future' = IF Outstanding THEN [future EXCEPT ![pending] = r] ELSE future

(* The controller takes the oldest command and the pump reads its answer,  *)
(* or there is none.                                                       *)
Completion ==
  /\ ble.pumping /\ queue # << >>
  /\ queue' = Tail(queue)
  /\ \/ accepted' = accepted + 1 /\ Settle("ok")
     \/ UNCHANGED accepted /\ Settle("refused")
     \/ UNCHANGED <<accepted, future>>
  /\ UNCHANGED <<lifeVars, radio, pending, task, member, stats>>

(* Mutant of CommandStatus: a status of 0, the command is being worked on, *)
(* settles the future as done.                                             *)
CommandStatusSettles ==
  /\ ble.pumping /\ queue # << >>
  /\ Settle("ok")
  /\ UNCHANGED <<lifeVars, radio, queue, pending, task, member, stats, accepted>>

(* A Command Status settles the future only when it refuses the command.   *)
CommandStatus ==
  /\ ble.pumping /\ queue # << >>
  /\ Settle("refused")
  /\ queue' = Tail(queue)
  /\ UNCHANGED <<lifeVars, radio, pending, task, member, stats, accepted>>

(* Mutant of Timeout: the command is awaited for as long as it takes.      *)
TimeoutNever(p) == FALSE /\ UNCHANGED vars

(* asyncio.wait_for gives up after command_timeout.                        *)
Timeout(p) ==
  /\ member[p]["ble"] = "waiting" /\ future[p] = "open"
  /\ future' = [future EXCEPT ![p] = "timeout"]
  /\ UNCHANGED <<lifeVars, radio, queue, pending, task, member, stats, accepted>>

(* The task wakes with its future settled.  Its finally removes whatever   *)
(* is registered for the opcode by then.                                   *)
BleDone(p) ==
  /\ member[p]["ble"] = "waiting" /\ future[p] # "open"
  /\ pending' = None
  /\ CASE future[p] = "ok"        -> To(p, "ble", "returned") /\ Bump("sent")
       [] future[p] = "refused"   -> To(p, "ble", "refused") /\ Bump("errors")
       [] future[p] = "timeout"   -> To(p, "ble", "refused") /\ Bump("timeouts")
       [] future[p] = "cancelled" -> To(p, "ble", "raised") /\ UNCHANGED stats
  /\ UNCHANGED <<lifeVars, radio, queue, future, task, accepted>>

Finished(p) == task[p] = "sending" /\ \A m \in Media : member[p][m] \notin {"ready", "waiting"}

(* The results are counted against the members started by now.             *)
Failures(p) == Cardinality({m \in started : member[p][m] = "raised"})

Count(p) ==
  /\ Finished(p)
  /\ task' = [task EXCEPT ![p] = "counted"]
  /\ Bump(IF Failures(p) = 0 THEN "published"
          ELSE IF Failures(p) < Cardinality(started) THEN "partial" ELSE "failed")
  /\ UNCHANGED <<lifeVars, radio, queue, pending, future, member, accepted>>

-----------------------------------------------------------------------------
(* Reception *)

(* Where _consume_reports leaves a report: foreign, undecodable and own    *)
(* ones are counted apart in the code, and together here.                  *)
Verdicts == {"rejected", "delivered"}

Report ==
  /\ ble.pumping /\ radio.scan /\ stats.reports < MaxReports
  /\ \E v \in Verdicts :
       stats' = [stats EXCEPT !.reports = @ + 1,
                              ![v] = IF v = "delivered" /\ ~ble.callback THEN @ ELSE @ + 1]
  /\ UNCHANGED <<lifeVars, radio, queue, pending, future, task, member, accepted>>

Next ==
  \/ Start \/ Opened \/ Stop \/ Completion \/ CommandStatus \/ Report
  \/ \E p \in Packets : \/ Publish(p) \/ FanOut(p) \/ UdpPublish(p) \/ BlePublish(p)
                        \/ Timeout(p) \/ BleDone(p) \/ Count(p)

(* The event loop runs every task that can go on, and its timers.          *)
Spec ==
  /\ Init /\ [][Next]_vars
  /\ \A p \in Packets : WF_vars(FanOut(p) \/ UdpPublish(p) \/ BlePublish(p) \/ Timeout(p)
                                \/ BleDone(p) \/ Count(p))

-----------------------------------------------------------------------------
(* Properties *)

(* The shape of the state, and at most one open future is registered.      *)
TypeOK ==
  /\ started \in {{}, {"ble"}, Media} /\ running = (started = Media)
  /\ ble \in [pumping : BOOLEAN, adv : BOOLEAN, scan : BOOLEAN, callback : BOOLEAN]
  /\ udp \in BOOLEAN /\ half \in BOOLEAN /\ heeded \in BOOLEAN
  /\ radio \in [adv : BOOLEAN, scan : BOOLEAN]
  /\ pending \in Packets \cup {None}
  /\ future \in [Packets -> {"none", "open", "ok", "refused", "timeout", "cancelled"}]
  /\ task \in [Packets -> {"none", "created", "sending", "refused", "counted"}]
  /\ \A p \in Packets, m \in Media :
       member[p][m] \in {"none", "ready", "waiting", "returned", "refused", "raised"}

(* A publish counted as sent was paid for by a command the controller      *)
(* completed: however late answers come, and whichever future they settle, *)
(* no answer is counted twice (BleTransport._settle, _command).            *)
SentIsAcknowledged ==
  stats.sent + Cardinality({p \in Packets : future[p] = "ok" /\ member[p]["ble"] = "waiting"})
    <= accepted

(* Every report is accounted for, "none are silent" (BleStats): the pump   *)
(* never runs without a callback to hand a packet to.                      *)
RejectionsAreCounted ==
  stats.reports = stats.rejected + stats.delivered

(* After a stop, or a start the second member failed, nothing is left on:  *)
(* no pump, no endpoint, no future to wait for, and no transmission where  *)
(* the controller obeyed (MultiTransport.stop and the unwinding of start). *)
StoppedIsSilent ==
  started = {} /\ ~half =>
    /\ ~ble.pumping /\ ~udp
    /\ \A p \in Packets : future[p] # "open" \/ pending # p
    /\ heeded => ~radio.adv /\ ~radio.scan

(* MultiStats.partial and .failed only ever count publishes a stop caught  *)
(* in flight: a member that merely fails to send does not raise.           *)
OnlyStopsCountPartial == stats.partial + stats.failed > 0 => crossed # {}

(* The counters of the bridge say what happened, whatever is late, refused *)
(* or stopped in between (BleStats, MultiStats).                           *)
BridgeInv ==
  TypeOK /\ SentIsAcknowledged /\ RejectionsAreCounted /\ OnlyStopsCountPartial

(* Every publish ends, counted or refused, whatever the controller does    *)
(* not answer: command_timeout bounds the wait, so the fire-and-forget     *)
(* tasks of Agent._publish_step do not pile up.                            *)
PublishesEnd == \A p \in Packets : task[p] = "created" ~> task[p] \in {"counted", "refused"}
===============================================================================
