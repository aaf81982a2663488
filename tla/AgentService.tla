---------------------------- MODULE AgentService ----------------------------
(***************************************************************************)
(* The virtual agents of the fleet: one process per node, each serving the *)
(* control commands of the hub (vertex/agent/service.py) over TCP          *)
(* connections (vertex/control/server.py).                                 *)
(*                                                                         *)
(* A node of type `ble` is a relay: its control law runs on an nRF board   *)
(* and the process writes down what the board reports.  Every other node   *)
(* (`wifi`, `bridge`) is local: two asyncio loops run the law here.        *)
(*                                                                         *)
(* A handler of asyncio runs alone until it awaits something that really   *)
(* suspends it.  Two do: `start` while the UDP endpoint is created, `stop` *)
(* while the cancelled loops are gathered.  Such a handler is "parked",    *)
(* and every other handler may run meanwhile.  Handlers of one connection  *)
(* never overlap; those of an abandoned connection and of its successor    *)
(* may.                                                                    *)
(***************************************************************************)
EXTENDS Naturals, FiniteSets

CONSTANTS
  Nodes,      \* the node ids of the manifest
  Relays,     \* the nodes of type `ble`
  Runs,       \* the run names
  Configs,    \* the AgentAssignments, as far as the properties tell them apart
  Ids,        \* the identities of the hub's calls
  None,       \* Python's None
  Torn,       \* a board that took only some frames of a configuration
  MaxFaults   \* bound on timeouts, process restarts and device errors

\* What a controller or a board may be running under; None before the first.
Setting == Configs \cup {Torn, None}

\* `meta` and `rows` are the two artefacts a hub fetches.
Command == {"configure", "start", "stop", "meta", "rows"}
Request ==
  {req \in [id : Ids, cmd : Command, run : Runs \cup {None},
            cfg : Configs \cup {None}] :
     /\ req.cmd = "configure" => req.cfg \in Configs
     /\ req.cmd \in {"start", "meta", "rows"} => req.run \in Runs}
Reply   == [ok : BOOLEAN, samples : BOOLEAN, rows : SUBSET Setting]

ASSUME AgentAssumption ==
  /\ Relays \subseteq Nodes
  /\ MaxFaults \in Nat
  /\ None \notin Runs /\ None \notin Ids /\ None \notin Reply

VARIABLES
  assignment,   \* self.assignment
  ready,        \* self.agent (local) or self.relay (relay) is not None
  built,        \* the configuration of the live controller or of the board
  pristine,     \* the controller has not been stepped since it was built
  loops,        \* self._tasks: "none", "live", "dead" when the control loop
                \* has raised, "cancelled" inside _halt
  orphans,      \* loops of self.agent run that self._tasks no longer holds
  strays,       \* the configurations of agents replaced while loops of theirs
                \* were still running
  board,        \* the nRF of a relay is running the law
  runName,      \* self.run_name
  logRun,       \* the run of self.runlog, None when there is no RunLog
  logOpen,      \* that RunLog's file is open
  made,         \* the runs whose meta and rows files exist on disk
  rows,         \* per run, the configurations its rows were sampled under
  final,        \* the runs whose log was finalised
  recordErrors, \* self.record_errors > 0: a relay has dropped samples
  inbox,        \* requests on their way to the process or in its socket
  parked,       \* requests whose handler is suspended in an await
  conn,         \* the client's connection: "none", "open", or "stale" when
                \* the process at its other end has died
  waiting,      \* the call in progress on that connection
  outbox,       \* the reply written to that connection, if any
  faults        \* faults injected so far

\* The configuration, the loops, the log, and the client's side.
identity   == <<assignment, ready, built>>
tasks      == <<loops, orphans, strays>>
logs       == <<logRun, logOpen, made, rows, final, recordErrors>>
clientVars == <<conn, waiting>>
agentVars  == <<identity, pristine, tasks, board, runName, logs, inbox, parked,
                conn, outbox>>

-----------------------------------------------------------------------------
(* The `running` property.                                                 *)
Running(n) == loops[n] # "none" \/ (n \in Relays /\ runName[n] # None)

Good       == [ok |-> TRUE, samples |-> FALSE, rows |-> {}]
Bad        == [ok |-> FALSE, samples |-> FALSE, rows |-> {}]
Stopped(s) == [ok |-> TRUE, samples |-> s, rows |-> {}]
Blob(s)    == [ok |-> TRUE, samples |-> FALSE, rows |-> s]

(* The server writes the reply; a client that has closed the connection    *)
(* never sees it.                                                          *)
Respond(n, req, rep) ==
  outbox' = IF waiting[n] = req.id THEN [outbox EXCEPT ![n] = rep] ELSE outbox

(* The server reads a request and calls its handler.                       *)
Take(n, req, cmd) ==
  /\ req \in inbox[n] /\ req.cmd = cmd
  /\ inbox' = [inbox EXCEPT ![n] = @ \ {req}]

Park(n, req) == parked' = [parked EXCEPT ![n] = @ \cup {req}]

(* A suspended handler is resumed.                                         *)
Resume(n, req, cmd) ==
  /\ req \in parked[n] /\ req.cmd = cmd
  /\ parked' = [parked EXCEPT ![n] = @ \ {req}]

(* A device (serial link, HCI socket, UDP socket, disk) raises.            *)
Fault == faults < MaxFaults /\ faults' = faults + 1

(* Mutant of OpenLog: the log is opened but not kept.                      *)
OpenLogUnassigned(n, r) ==
  /\ logOpen' = [logOpen EXCEPT ![n] = TRUE]
  /\ made'    = [made EXCEPT ![n] = @ \cup {r}]
  /\ rows'    = [rows EXCEPT ![n][r] = {}]
  /\ UNCHANGED <<logRun, final, recordErrors>>

(* RunLog(...).start(): write the metadata, open the rows file truncated.  *)
OpenLog(n, r) ==
  /\ logRun'  = [logRun EXCEPT ![n] = r]
  /\ logOpen' = [logOpen EXCEPT ![n] = TRUE]
  /\ made'    = [made EXCEPT ![n] = @ \cup {r}]
  /\ rows'    = [rows EXCEPT ![n][r] = {}]
  /\ UNCHANGED <<final, recordErrors>>

(* RunLog.append() on an open log.                                         *)
Append(n, c) == rows' = [rows EXCEPT ![n][logRun[n]] = @ \cup {c}]

(* RunLog.finalize(): close the rows file and write the columnar one.      *)
Finalize(n) ==
  /\ logOpen' = [logOpen EXCEPT ![n] = FALSE]
  /\ final'   = IF logRun[n] = None THEN final
                ELSE [final EXCEPT ![n] = @ \cup {logRun[n]}]
  /\ UNCHANGED <<logRun, made, rows, recordErrors>>

(* It raises: on a full disk the flush leaves the file open, the metadata  *)
(* and the columnar file leave it closed.                                  *)
FinalizeFails(n) ==
  /\ logOpen' = logOpen \/ logOpen' = [logOpen EXCEPT ![n] = FALSE]
  /\ UNCHANGED <<logRun, made, rows, final, recordErrors>>

(* runlog.samples, 0 when there is no log.                                 *)
HasSamples(n) == logRun[n] # None /\ rows[n][logRun[n]] # {}

-----------------------------------------------------------------------------
(* configure                                                               *)

(* Mutant of Rebuilds: an agent is built once and then updated.            *)
RebuildsOnce(n) == n \notin Relays /\ ~ready[n]

Rebuilds(n) == n \notin Relays /\ ~(Running(n) /\ ready[n])

(* Mutant of Configure: a running agent is restarted, not updated.         *)
ConfigureRestarts(n, req) ==
  /\ Take(n, req, "configure")
  /\ assignment' = [assignment EXCEPT ![n] = req.cfg]
  /\ built'      = [built EXCEPT ![n] = req.cfg]
  /\ ready'      = [ready EXCEPT ![n] = TRUE]
  /\ pristine'   = [pristine EXCEPT ![n] = @ \/ n \notin Relays]
  /\ loops'      = [loops EXCEPT ![n] = "none"]
  /\ runName'    = [runName EXCEPT ![n] = None]
  /\ Respond(n, req, Good)
  /\ UNCHANGED <<orphans, strays, board, logs, parked, clientVars, faults>>

(* On a running agent the parameters are replaced and the integrators are  *)
(* kept; on an idle one a new Agent takes the place of the old.  A relay   *)
(* sends the frames either way, and the board resets itself only at its    *)
(* trigger.                                                                *)
Configure(n, req) ==
  /\ Take(n, req, "configure")
  /\ assignment' = [assignment EXCEPT ![n] = req.cfg]
  /\ built'      = [built EXCEPT ![n] = req.cfg]
  /\ ready'      = [ready EXCEPT ![n] = TRUE]
  /\ pristine'   = [pristine EXCEPT ![n] = @ \/ Rebuilds(n)]
  /\ orphans'    = [orphans EXCEPT ![n] = @ /\ ~Rebuilds(n)]
  /\ strays'     = IF Rebuilds(n) /\ orphans[n]
                   THEN [strays EXCEPT ![n] = @ \cup {built[n]}] ELSE strays
  /\ Respond(n, req, Good)
  /\ UNCHANGED <<loops, board, runName, logs, parked, clientVars, faults>>

(* The controller, the transport or a frame is refused.  An idle agent has *)
(* already replaced self.assignment; a board may have taken a few frames.  *)
ConfigureFails(n, req) ==
  /\ Fault
  /\ Take(n, req, "configure")
  /\ assignment' = IF Running(n) /\ ready[n] THEN assignment
                   ELSE [assignment EXCEPT ![n] = req.cfg]
  /\ \/ built' = built
     \/ n \in Relays /\ built' = [built EXCEPT ![n] = Torn]
  /\ Respond(n, req, Bad)
  /\ UNCHANGED <<ready, pristine, tasks, board, runName, logs, parked,
                 clientVars>>

-----------------------------------------------------------------------------
(* start                                                                   *)

MayStart(n) == assignment[n] # None /\ ready[n] /\ ~Running(n)

(* "configure() before start()", "already running ..."; or RunLog.start()  *)
(* raises, and the log of the run before is kept.                          *)
StartRefused(n, req) ==
  /\ Take(n, req, "start")
  /\ IF MayStart(n) THEN Fault ELSE UNCHANGED faults
  /\ Respond(n, req, Bad)
  /\ UNCHANGED <<identity, pristine, tasks, board, runName, logs, parked,
                 clientVars>>

(* A relay sends the trigger, which latches the initial conditions.        *)
StartRelay(n, req) ==
  /\ n \in Relays
  /\ Take(n, req, "start")
  /\ MayStart(n)
  /\ OpenLog(n, req.run)
  /\ board'    = [board EXCEPT ![n] = TRUE]
  /\ pristine' = [pristine EXCEPT ![n] = TRUE]
  /\ runName'  = [runName EXCEPT ![n] = req.run]
  /\ Respond(n, req, Good)
  /\ UNCHANGED <<identity, tasks, parked, clientVars, faults>>

(* relay.start() raises after the log was opened: the board refused the    *)
(* trigger, or obeyed it and its answer was lost.                          *)
StartRelayFails(n, req) ==
  /\ Fault
  /\ n \in Relays
  /\ Take(n, req, "start")
  /\ MayStart(n)
  /\ OpenLog(n, req.run)
  /\ \/ UNCHANGED <<board, pristine>>
     \/ /\ board'    = [board EXCEPT ![n] = TRUE]
        /\ pristine' = [pristine EXCEPT ![n] = TRUE]
  /\ Respond(n, req, Bad)
  /\ UNCHANGED <<identity, tasks, runName, parked, clientVars>>

(* A local agent opens its log and awaits agent.start().                   *)
StartLocal(n, req) ==
  /\ n \notin Relays
  /\ Take(n, req, "start")
  /\ MayStart(n)
  /\ OpenLog(n, req.run)
  /\ Park(n, req)
  /\ UNCHANGED <<identity, pristine, tasks, board, runName, outbox, clientVars,
                 faults>>

(* The transport is up: name the run and create the two loops.  Loops      *)
(* another handler created meanwhile are forgotten, not stopped.           *)
StartLocalDone(n, req) ==
  /\ Resume(n, req, "start")
  /\ runName' = [runName EXCEPT ![n] = req.run]
  /\ loops'   = [loops EXCEPT ![n] = "live"]
  /\ orphans' = [orphans EXCEPT ![n] = @ \/ loops[n] = "live"]
  /\ Respond(n, req, Good)
  /\ UNCHANGED <<identity, pristine, strays, board, logs, inbox, clientVars,
                 faults>>

(* agent.start() raises: the log stays open and nothing runs.              *)
StartLocalFails(n, req) ==
  /\ Fault
  /\ Resume(n, req, "start")
  /\ Respond(n, req, Bad)
  /\ UNCHANGED <<identity, pristine, tasks, board, runName, logs, inbox,
                 clientVars>>

-----------------------------------------------------------------------------
(* stop                                                                    *)

(* Nothing runs: a no-op that reports the samples of the last local log.   *)
StopIdle(n, req) ==
  /\ Take(n, req, "stop")
  /\ ~Running(n)
  /\ Respond(n, req, Stopped(n \notin Relays /\ HasSamples(n)))
  /\ UNCHANGED <<identity, pristine, tasks, board, runName, logs, parked,
                 clientVars, faults>>

(* A relay tells its board to stop, ignores how that went, and finalises.  *)
StopRelay(n, req) ==
  /\ n \in Relays
  /\ Take(n, req, "stop")
  /\ Running(n)
  /\ \/ board' = [board EXCEPT ![n] = FALSE] /\ UNCHANGED faults
     \/ Fault /\ UNCHANGED board
  /\ Finalize(n)
  /\ runName' = [runName EXCEPT ![n] = None]
  /\ Respond(n, req, Stopped(HasSamples(n)))
  /\ UNCHANGED <<identity, pristine, tasks, parked, clientVars>>

(* The log cannot be finalised: the relay is left in its run, its board    *)
(* stopped or not, and only another stop takes it out.                     *)
StopRelayFails(n, req) ==
  /\ Fault
  /\ n \in Relays
  /\ Take(n, req, "stop")
  /\ Running(n)
  /\ board' = board \/ board' = [board EXCEPT ![n] = FALSE]
  /\ FinalizeFails(n)
  /\ Respond(n, req, Bad)
  /\ UNCHANGED <<identity, pristine, tasks, runName, parked, clientVars>>

(* Mutant of StopLocal: the answer does not wait for the loops to end.      *)
StopLocalAtOnce(n, req) ==
  /\ n \notin Relays
  /\ Take(n, req, "stop")
  /\ Running(n)
  /\ loops' = [loops EXCEPT ![n] = "cancelled"]
  /\ Park(n, req)
  /\ Respond(n, req, Stopped(HasSamples(n)))
  /\ UNCHANGED <<identity, pristine, orphans, strays, board, runName, logs,
                 clientVars, faults>>

(* _halt(): cancel the loops and await their end.                          *)
StopLocal(n, req) ==
  /\ n \notin Relays
  /\ Take(n, req, "stop")
  /\ Running(n)
  /\ loops' = [loops EXCEPT ![n] = "cancelled"]
  /\ Park(n, req)
  /\ UNCHANGED <<identity, pristine, orphans, strays, board, runName, logs,
                 outbox, clientVars, faults>>

(* The loops have ended: drop the task list, whatever it holds by now, and *)
(* finalise the current log.                                               *)
StopLocalDone(n, req) ==
  /\ Resume(n, req, "stop")
  /\ loops'   = [loops EXCEPT ![n] = "none"]
  /\ orphans' = [orphans EXCEPT ![n] = @ \/ loops[n] = "live"]
  /\ Finalize(n)
  /\ runName' = [runName EXCEPT ![n] = None]
  /\ Respond(n, req, Stopped(HasSamples(n)))
  /\ UNCHANGED <<identity, pristine, strays, board, inbox, clientVars, faults>>

(* The transport's stop or the log raises: nothing runs any more, under    *)
(* the run's name, and the next stop finds nothing to do.                  *)
StopLocalFails(n, req) ==
  /\ Fault
  /\ Resume(n, req, "stop")
  /\ loops'   = [loops EXCEPT ![n] = "none"]
  /\ orphans' = [orphans EXCEPT ![n] = @ \/ loops[n] = "live"]
  /\ FinalizeFails(n)
  /\ Respond(n, req, Bad)
  /\ UNCHANGED <<identity, pristine, strays, board, runName, inbox, clientVars>>

-----------------------------------------------------------------------------
(* fetch                                                                   *)

Fetchable(n, r) == assignment[n] # None /\ r \in made[n]

(* Mutant of OnDisk: closing a log does not flush its buffer.              *)
OnDiskUnflushed(n, r) == SUBSET rows[n][r]

(* The file is read as it is on disk; of a log still open only what has    *)
(* been flushed is there.                                                  *)
OnDisk(n, r) == IF logOpen[n] /\ logRun[n] = r THEN SUBSET rows[n][r]
                ELSE {rows[n][r]}

FetchMeta(n, req) ==
  /\ Take(n, req, "meta")
  /\ Fetchable(n, req.run)
  /\ Respond(n, req, Good)
  /\ UNCHANGED <<identity, pristine, tasks, board, runName, logs, parked,
                 clientVars, faults>>

FetchRows(n, req) ==
  /\ Take(n, req, "rows")
  /\ Fetchable(n, req.run)
  /\ \E s \in OnDisk(n, req.run) : Respond(n, req, Blob(s))
  /\ UNCHANGED <<identity, pristine, tasks, board, runName, logs, parked,
                 clientVars, faults>>

(* "agent has no identity", or there is no such file.                      *)
FetchRefused(n, req) ==
  /\ Take(n, req, "meta") \/ Take(n, req, "rows")
  /\ ~Fetchable(n, req.run)
  /\ Respond(n, req, Bad)
  /\ UNCHANGED <<identity, pristine, tasks, board, runName, logs, parked,
                 clientVars, faults>>

-----------------------------------------------------------------------------
(* What runs between the commands                                          *)

(* A control step of a local agent: step the law, append a row.            *)
ControlStep(n) ==
  /\ loops[n] = "live" \/ orphans[n]
  /\ logOpen[n]
  /\ pristine' = [pristine EXCEPT ![n] = FALSE]
  /\ Append(n, built[n])
  /\ UNCHANGED <<identity, tasks, board, runName, logRun, logOpen, made, final,
                 recordErrors, inbox, parked, outbox, clientVars, faults>>

(* A closed log raises, and an open one on a full disk: the control loop   *)
(* ends, and nobody awaits its task before the stop.                       *)
ControlStepRaises(n) ==
  /\ IF logOpen[n] THEN Fault ELSE UNCHANGED faults
  /\ pristine' = [pristine EXCEPT ![n] = FALSE]
  /\ \/ /\ loops[n] = "live"
        /\ loops' = [loops EXCEPT ![n] = "dead"] /\ UNCHANGED orphans
     \/ /\ orphans[n]
        /\ orphans' = [orphans EXCEPT ![n] = FALSE] /\ UNCHANGED loops
  /\ UNCHANGED <<identity, strays, board, runName, logs, inbox, parked, outbox,
                 clientVars>>

(* A forgotten loop of a replaced agent writes into whatever log is open.  *)
StrayStep(n) ==
  /\ \E c \in strays[n] :
       IF logOpen[n] THEN Append(n, c) /\ UNCHANGED strays
       ELSE strays' = [strays EXCEPT ![n] = @ \ {c}] /\ UNCHANGED rows
  /\ UNCHANGED <<identity, pristine, loops, orphans, board, runName, logRun,
                 logOpen, made, final, recordErrors, inbox, parked, outbox,
                 clientVars, faults>>

(* A running board reports, whether or not the process believes a run is   *)
(* on; a row the log refuses is dropped and counted.                       *)
BoardReport(n) ==
  /\ n \in Relays /\ board[n]
  /\ pristine' = [pristine EXCEPT ![n] = FALSE]
  /\ \/ logOpen[n] /\ Append(n, built[n]) /\ UNCHANGED <<recordErrors, faults>>
     \/ /\ logRun[n] # None
        /\ IF logOpen[n] THEN Fault ELSE UNCHANGED faults
        /\ recordErrors' = [recordErrors EXCEPT ![n] = TRUE]
        /\ UNCHANGED rows
     \/ logRun[n] = None /\ UNCHANGED <<rows, recordErrors, faults>>
  /\ UNCHANGED <<identity, tasks, board, runName, logRun, logOpen, made, final,
                 inbox, parked, outbox, clientVars>>

(* The process dies and is launched again.  What was not flushed is lost,  *)
(* with every request sent over its connections; its board runs on.        *)
Restart(n) ==
  /\ Fault
  /\ assignment' = [assignment EXCEPT ![n] = None]
  /\ ready'      = [ready EXCEPT ![n] = FALSE]
  /\ built'      = IF n \in Relays THEN built ELSE [built EXCEPT ![n] = None]
  /\ loops'      = [loops EXCEPT ![n] = "none"]
  /\ orphans'    = [orphans EXCEPT ![n] = FALSE]
  /\ strays'     = [strays EXCEPT ![n] = {}]
  /\ runName'    = [runName EXCEPT ![n] = None]
  /\ logRun'     = [logRun EXCEPT ![n] = None]
  /\ logOpen'    = [logOpen EXCEPT ![n] = FALSE]
  /\ IF logOpen[n]
     THEN \E s \in SUBSET rows[n][logRun[n]] :
             rows' = [rows EXCEPT ![n][logRun[n]] = s]
     ELSE rows' = rows
  /\ recordErrors' = [recordErrors EXCEPT ![n] = FALSE]
  /\ inbox'      = [inbox EXCEPT ![n] = {}]
  /\ parked'     = [parked EXCEPT ![n] = {}]
  /\ conn'       = [conn EXCEPT ![n] = IF @ = "open" THEN "stale" ELSE @]
  /\ UNCHANGED <<pristine, board, made, final, outbox, waiting>>

-----------------------------------------------------------------------------
AgentInit ==
  /\ assignment   = [n \in Nodes |-> None]
  /\ ready        = [n \in Nodes |-> FALSE]
  /\ built        = [n \in Nodes |-> None]
  /\ pristine     = [n \in Nodes |-> FALSE]
  /\ loops        = [n \in Nodes |-> "none"]
  /\ orphans      = [n \in Nodes |-> FALSE]
  /\ strays       = [n \in Nodes |-> {}]
  /\ board        = [n \in Nodes |-> FALSE]
  /\ runName      = [n \in Nodes |-> None]
  /\ logRun       = [n \in Nodes |-> None]
  /\ logOpen      = [n \in Nodes |-> FALSE]
  /\ made         = [n \in Nodes |-> {}]
  /\ rows         = [n \in Nodes |-> [r \in Runs |-> {}]]
  /\ final        = [n \in Nodes |-> {}]
  /\ recordErrors = [n \in Nodes |-> FALSE]
  /\ inbox        = [n \in Nodes |-> {}]
  /\ parked       = [n \in Nodes |-> {}]
  /\ conn         = [n \in Nodes |-> "none"]
  /\ waiting      = [n \in Nodes |-> None]
  /\ outbox       = [n \in Nodes |-> None]
  /\ faults       = 0

(* One step of the handler of a request.                                   *)
Handle(n, req) ==
  \/ Configure(n, req)      \/ ConfigureFails(n, req)
  \/ StartRefused(n, req)   \/ StartRelay(n, req)      \/ StartRelayFails(n, req)
  \/ StartLocal(n, req)     \/ StartLocalDone(n, req)  \/ StartLocalFails(n, req)
  \/ StopIdle(n, req)       \/ StopRelay(n, req)       \/ StopRelayFails(n, req)
  \/ StopLocal(n, req)      \/ StopLocalDone(n, req)   \/ StopLocalFails(n, req)
  \/ FetchMeta(n, req)      \/ FetchRows(n, req)       \/ FetchRefused(n, req)

Serve(n) == \E req \in inbox[n] \cup parked[n] : Handle(n, req)

AgentNext(n) ==
  \/ Serve(n)
  \/ ControlStep(n) \/ ControlStepRaises(n) \/ StrayStep(n) \/ BoardReport(n)
  \/ Restart(n)

ConfigurationOK ==
  /\ assignment \in [Nodes -> Configs \cup {None}]
  /\ ready \in [Nodes -> BOOLEAN]
  /\ built \in [Nodes -> Setting]
  /\ pristine \in [Nodes -> BOOLEAN]

TasksOK ==
  /\ loops \in [Nodes -> {"none", "live", "dead", "cancelled"}]
  /\ orphans \in [Nodes -> BOOLEAN]
  /\ strays \in [Nodes -> SUBSET Setting]
  /\ board \in [Nodes -> BOOLEAN]
  /\ runName \in [Nodes -> Runs \cup {None}]

LogsOK ==
  /\ logRun \in [Nodes -> Runs \cup {None}]
  /\ logOpen \in [Nodes -> BOOLEAN]
  /\ \A n \in Nodes : logOpen[n] => logRun[n] \in Runs
  /\ made \in [Nodes -> SUBSET Runs]
  /\ rows \in [Nodes -> [Runs -> SUBSET Setting]]
  /\ final \in [Nodes -> SUBSET Runs]
  /\ recordErrors \in [Nodes -> BOOLEAN]

WireOK ==
  /\ inbox \in [Nodes -> SUBSET Request]
  /\ parked \in [Nodes -> SUBSET Request]
  /\ conn \in [Nodes -> {"none", "open", "stale"}]
  /\ waiting \in [Nodes -> Ids \cup {None}]
  /\ outbox \in [Nodes -> Reply \cup {None}]
  /\ faults \in 0 .. MaxFaults

AgentTypeOK == ConfigurationOK /\ TasksOK /\ LogsOK /\ WireOK
=============================================================================
