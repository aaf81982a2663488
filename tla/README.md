# Verification of the vertex testbed

TLA+ models of the testbed in this repository, the TLC runs that check them and
the TLAPS proofs about them. Paths are relative to the repository root unless
they name a file of this directory.

## The system

A *hub* (`vertex/hub/runner.py`) drives experiments over a fleet of nodes. On
each node an *agent process* (`vertex/agent/service.py`) serves the hub's
commands over TCP. A `wifi` or `bridge` node runs its control law in the process,
in two asyncio loops; a `ble` node is a *relay*, whose law runs on an nRF board
behind a serial link. Nodes exchange their virtual states by UDP broadcast or by
BLE advertising.

| Component | State it keeps | Operations | Talks to |
|---|---|---|---|
| Hub runner | assignments, the run's `NodeOutcome`s, notes | `run` and its phases, `run_arms`, `run_repeated`, events | agents, through one client each |
| Control client | one connection, a lock | `call` (connect, send, await, close on timeout) | the agent's server |
| Control server | open connections | one task per connection, one handler at a time in each | agent service |
| Agent service | assignment, agent or relay, run log, run name, tasks | `configure`, `start`, `stop`, `fetch`, `status`, `list_runs` | loops, relay, log |
| Agent loops | controller, neighbour table, sequence number | control step, publish step | transport, log |
| Run log | open file, buffer, metadata | `start`, `append`, `flush`, `finalize`, `recover_rows` | disk |
| Relay | board statistics | `configure`, `start`, `stop`, `handle_frame` | serial link |
| Serial link | reply slot, parser | `request`, `send`, reader thread | board |
| Board firmware | parameters, law state, neighbours | command frames (work queue), dynamics thread, network thread | UART, radio |
| Board serial driver | receive ring, reply queue, parser, idle timer | UART interrupt, two work items, a timer | host, command handlers |
| Neighbour table | last value, sequence window per neighbour | `observe`, `snapshot`, `arrivals` | transport, controller |
| Transports | sockets, pending HCI commands | `start`, `publish`, `stop` | radio, network |
| Packet codecs | none | `encode`, `decode` in C and in Python | transports, observer, broadcaster |
| Manifests | a document, the graph it says | load, generate, check, arms, assignments, frames | hub, relay, board |
| Clocks, simulation | virtual time, sleepers, loopback bus | `sleep`, `advance`, `broadcast` | agent loops |
| Analysis | none | `load_node`, `link_delivery`, `normalize_run` | finished logs |

Hard behaviours: the client's timeout abandons a call but does not withdraw it;
connections of one client overlap on the server; two handlers suspend inside an
`await`; processes die and are relaunched while boards run on; a configuration
of a board is several frames; the log is open while it may be read; the board's
threads share state with its work queue, and an interrupt resets the parser the
work item is in; packets are lost, repeated and reordered, and their numbers
wrap; the answers of a radio come late or never; a write or a power supply
stops in the middle of a row; two languages encode and decode the same bytes;
what a run logs is named on one side of a link and ordered on the other.

What makes each part correct:

- **hub and agents together**: "one configuration, or none"; a run starts from a
  reset; what is collected is the whole log of one configuration; the series ends.
- **agent service**: after a stop nothing runs; a start never joins two runs.
- **agent loops**: no drift, bounded lag, and in a simulation nothing late
  and the two loops of an agent in pace.
- **run log**: what a crash leaves is a prefix of what was appended, and is read so.
- **serial link**: a reply answers the request it was sent for, and where it need not
  the operation's result is not believed; only frames that were sent are acted on, and
  a whole one is.
- **firmware**: what a trigger latches is what the run uses; a stopped board is silent.
- **neighbour table and monitor**: every packet is counted once, loss is never
  understated, a silent neighbour is dropped.
- **transports**: what is stopped is silent, and no publish waits for ever.
- **codecs**: both languages read the same packet, or both none.
- **manifests**: a board holds what the document says, whatever it held before;
  what the hub admits can run, log and be read, or is refused before a frame is sent;
  the experiments' own documents can carry their experiments.
- **control laws**: a board and a Pi of the same assignment take the same steps.

## Modules

| Module | What it is | Code |
|---|---|---|
| `AgentService` | the agents: service, server, loops, log and board, one action per handler or part of a handler between two awaits | `agent/service.py`, `control/server.py` |
| `Fleet` | the hub and its clients, composed with the agents: the complete control plane | `hub/runner.py`, `control/client.py` |
| `RunBarrier` | what the control plane promises, as a specification of its own | |
| `BoardLink` | below one relay: its operations, the serial link's reply slot, the UART, the board's transmit queue and its frame handlers | `agent/relay.py`, `serial/link.py`, `control.c`, `agent.c` |
| `BoardThreads` | inside one board: the dynamics thread, the network thread, the work queue that applies frames, the receive thread, and the radio they share | `main.c`, `observer.c`, `broadcaster.c`, `agent.c` |
| `BoardRun` | what a board promises of the packets of its runs, as a specification of its own | |
| `FrameParser` | the framing of the serial link, as both ends parse it | `proto.c`, `serial/proto.py` |
| `BoardUart` | the board's serial driver around `FrameParser` | `uart_link.c` |
| `NeighborTable` | the table and the link monitor | `agent/neighbors.py`, `wire/codec.py` |
| `StateExchange` | neighbours, medium, receive callback and control step around `NeighborTable`, and the delivery an analysis derives | `agent/agent.py`, `analysis/load.py` |
| `AgentLoops` | the periodic loops on both clocks, the driver of the virtual one, the loopback bus | `agent/agent.py`, `clock.py`, `sim/`, `transports/loopback.py` |
| `Transports` | the bridge over BLE and UDP, its commands' futures | `transports/multi.py`, `ble.py`, `udp.py` |
| `AirWire` | the packet on the air in both implementations, and its receivers | `wire/codec.py`, `radio/ad.py`, `air_wire.c`, `observer.c` |
| `RunLog` | one log from start to recovery | `agent/runlog.py`, `analysis/load.py` |
| `Topology` | graphs: generators, validation | `topology/generators.py`, `validate.py` |
| `BoardParams` | what a board reads from positional payloads | `agent.c`, `control.c` |
| `RelayReport` | the reports and statistics a board sends, by byte | `report.c`, `serial/proto.py` |
| `RunColumns` | the columns of a log, the rows, the units they are read in | `agent/service.py`, `runlog.py`, `controllers/`, `analysis/units.py` |
| `LawNumbers` | the arithmetic of the control laws, on residues | `numeric.py`, `libm` |
| `BoardLaw` | the laws of a board, from trigger to trajectory | `microgrid_task.c`, `coordination_task.c` |
| `PiLaw` | the laws of a Pi, from reset to trajectory | `vertex/controllers/` |
| `Manifests` | the hub's session from a document to a logged sample, over the seven above | `topology/`, `hub/__main__.py`, `agent/assignment.py`, `relay.py` |
| `Campaign` | the experiments' own documents, as a generator of the repository writes them | `tools/make_manifests.py` |
| `MC...` | instances small enough for TLC (`BoardThreads` has numbers only, and needs none) | |
| `...Proofs` | the theorems | |

### AgentService

The state of a process is `AgentService.__init__`'s: `assignment`, `ready` (an
agent or relay exists), `built` (what the controller or the board was last
configured with, `Torn` when a board took part of it), `pristine` (the controller
has not been stepped since it was built), `loops` for `_tasks`, `runName`,
`logRun` and `logOpen` for `runlog`. `orphans` and `strays` are tasks nobody
holds any more: asyncio keeps running them. `made`, `rows`, `final` are the disk.
A row is abstracted to the configuration it was sampled under, which is what the
properties compare.

A handler of asyncio is atomic up to an `await` that really suspends. There are
two, in `start` (the transport is being created) and in `stop` (the cancelled
loops are gathered); such a request is `parked` and finished by a second action.
Between the two any other connection's handler may run. Each handler has its
normal outcome, its refusals, and its failures (`...Fails`) when a device raises;
a failure is taken at the point where the code leaves it, so a refused start has
already opened its log, unless it was the log that could not be opened
(`StartRefused`), and a stop whose log cannot be finalised has stopped everything and
kept its run name (`StopRelayFails`, `StopLocalFails`). `FinalizeFails` leaves the file
open or closed: `RunLog.finalize` flushes, writes the metadata and writes the columnar
file, and each may raise.

`Restart` is the death of a process and its relaunch by systemd. What had not
been flushed of an open log is lost: any subset of the configurations its rows
were sampled under may remain. The board of a relay runs on.

### Fleet

`run`, `phase` and `todo` are the program counter of `run_arms`/`run_repeated`
and `run()`. A phase calls every node and waits for all (`asyncio.gather`),
except the events, one node after another, and the collection, `Fetchers`
(`COLLECT_CONCURRENCY`) at a time. `configured`, `started`, `failed`, `sampled`
and `got` are the fields of `NodeOutcome`; `missed` the nodes of a FAILED or
MISSED note.

A call goes over the client's connection. `HubGivesUp` is the timeout, or a
connection refused or reset; it closes the connection, and the request stays
where it is: in the socket, in a handler, or lost (`LoseStraggler`). A request
to a process that has died in the meantime goes into a dead connection (`stale`)
and is lost. Two constants say how late an abandoned request can still be read:
`LateClear` lets a pre-run stop outlive the clear phase, `LateCalls` lets any
call outlive its run. Runs with both `FALSE` assume the network delivers or drops
within a phase or a run; the runs with both `TRUE` show what holds without that.

`Interrupt` kills the hub in the middle of a run; a new hub, with the manifest's
assignments and no connection, drives the rest of the series.

### BoardLink

One relay and its board. `Fleet` sees a relay's configuration as one step that
may be torn (`Torn`); this module shows what tears it.

`op` and `todo` are the relay operation and the frames it has yet to send, in
the order of `assignment_to_frames`. `cur`, `awaiting`, `slot` and `ready` are
the request in progress, `_awaiting`, `_reply` and `_reply_ready`. The reader
thread's `_dispatch` is three actions, gate, slot, event (`ReaderTakes`,
`ReaderStores`, `ReaderSignals`), since it takes no lock: the caller's timeout
may come between any two. `assignment` is the relay's; `confirmed` and
`relayRuns` are what its callers were told.

The board's work queue takes one frame at a time and answers it
(`control_on_frame`); `params` holds, for each kind of frame, which assignment
its fields came from. A frame with values the board refuses (`Refused`) leaves
what the handler leaves: `ApplyBlock` writes first and checks afterwards, the
others check first. Replies and STATE reports share the transmit queue, which
drops when it is full. A reply carries the request that caused it (`to`), for
the properties only: nothing in the code can see it.

A request may time out at any moment, its frame or its reply still on the way: that
costs a fault, unless nothing of the exchange is left (`Lost`). What is left then meets
a later request. The gate drops it if it comes while no request is out; it does not if
one is (see Observations). The properties are therefore about operations that met no
reply but their own, and two history variables say so: `clean` that each request of the
operation was sent with nothing of an earlier one on the way (`Finds`), `trusted` that
this is true of every configuration since one that returned clean. The relay knows
neither. `confirmed` and `relayRuns` are what it was told by operations that were clean;
what it made of the others is in `assignment`. `begun` counts the operations, at most
`MaxOps`.

### BoardThreads

`BoardLink` sees a frame applied by the board as one step on parameters; this
module shows what the frame meets. A value is abstracted to the run it belongs
to: `law` is the run whose initial conditions the integrators descend from,
`seq` the packet counter and the run that reset it, `info`, `queue` and
`absorbed` the oldest run something in them was heard in.

`dynPc` and `netPc` are the program counters of the two loops of `main.c`. A
step of a thread ends where the thread waits, where it lets go of the mutex, or
between the reads and the writes of shared state: `discrete_step` and `tx_seq++`
are two steps each. The board has one processor and fixed priorities, and the
model keeps them: `NetAt` lets the network thread (7) move only when the
dynamics thread (5) is blocked, by its semaphore or by a mutex the network
thread holds. The work queue and the Bluetooth receive thread are cooperative
and may come in anywhere; a frame is one step, for the work queue is interrupted
by neither loop, except that a change of the scan parameters waits for the
controller (`ApplyRadio`, `RestartClear`, `RestartScan`). Each command to the
radio may be refused (`Try`), after which the flags are what the code leaves.

The host sends one frame at a time (`HostMay`). `Hasty = FALSE` says that after a
stop it sends nothing until the network thread has finished the teardown, which
takes two commands to the radio and is started by the stop itself; between two
runs the hub has at least a collection to do. `Unstopped = FALSE` says that it
triggers no board that is running. The hub never does, knowing its runs; a
relay process relaunched in the middle of a run does (see Observations).

`BoardRun` is what all this comes to for whoever listens: a run is triggered from
rest, and from the trigger to the end of the teardown the packet on the air is the one
the run counted last; then there is none, unless the radio refused a command. The
stage is a function of the flags and of the network thread's place (`Stage`), the air
of the transmitter's flag and its packet (`Air`), and a refused command is a fault
that was used. A packet is counted under the mutex and advertised outside it, by the
thread of the lowest priority, and whether that is still the last one of a run in
progress is a matter of what may come in between.

### FrameParser and BoardUart

A symbol stands for one byte, or for the two bytes of a LENGTH or of a CRC: the
number it reads as, and what it is the checksum of. A payload symbol may read as
anything, the start of a frame included, and so may a checksum that the parser
takes for another field (`CrcReads`). `Step` is `proto_feed` by state; the
firmware's parser and Python's agree state by state, so that one module stands for
both. The checksum is ideal, equal only for equal spans: what a CRC of 16 bits lets
through is not the parser's doing.

`BoardUart` puts the parser where it runs: the interrupt fills `ring` (`RxReady`), the
work item takes a `chunk` of it and feeds it symbol by symbol (`RxTake`, `RxFeed`,
`RxDone`), an interrupt coming between any two. A bus error resets the parser in the
interrupt, between two symbols (`BusError`) or inside one (`BusErrorInFeed`). `Torn`
gives every outcome of the latter: the reset falls before, between or after the writes
of `proto_feed`, and what is written after it stands. In particular it may fall
between the comparison of a checksum and `deliver`, which reads `received_len` again:
the frame is handed over with its type and no payload. Replies wait in `txQueue` for
one work item that sends one at a time.

### NeighborTable and StateExchange

`NeighborTable` has the state of the table and of its monitor and what one packet does
to them; `SeqModulus` is 2^16 in the code. `StateExchange` adds the neighbours with
their counters, a medium that keeps every packet ever sent and delivers any of them
any number of times, a restart of a neighbour, the control step with its row, and
`LinkDelivery`, which reads those rows back as `NodeRun.link_delivery` does (`Column`
is the comprehension, row by row). `first` and `heard` are history variables for the
properties. A value is the number of the packet that carried it.

### AgentLoops

Times are relative to the present, so that no clock grows. `ready` is the event
loop's queue, `sleepers` its timers or the waiters of a `VirtualClock`, in the
order they were set; `due` what each loop has as its next deadline. On the wall
clock a body takes some time of `Steps` and a sleep ends up to `Jitter` late; on
the virtual one bodies take none, and `Advance` is the driver's step, taken only
when every task is parked. Times of the model are nominal. The code's are floats, to
which each loop adds its own period, so that deadlines which fall at one instant come
apart by a rounding and the clock reaches them one after another: `Advance` wakes any
of those due at its instant, in any order, and the rest in a later step at the same
instant; a deadline at the horizon may lie beyond it. `inTick` is a law that publishes
from its control step. `ticks` counts an agent's control steps since its last packet,
carried from packet to packet, so that a step too few is made up by the next. The
simulated medium makes a task per delivery, as `LoopbackBus` does.

### Transports

An action is what runs between two awaits of the event loop. `future` is the
state of each publish's HCI command and `pending` the one registered under the
opcode; `queue` what the controller has not answered. `Start` has the failures
of each member's set-up and the unwinding of the first when the second fails to bind;
it ends with the first member up, and `Opened` is the second's endpoint and the end of
`Agent.start`: in between the first hears, its controller answers, and publishes of the
run before end. `Stop` may come with publishes in flight, and a new start after it. The
controller may answer late, answer that it is working on it, refuse, or never
answer.

### AirWire

The three formats of the payload are encoded and decoded digit by digit as
`air_wire.c` and `codec.py` do, with `Base` values of a byte, so that offsets,
signs and overflow are those of the code. Boards, Pis, a board of an older
firmware and a device of another fleet transmit; a board, a Pi over BLE and a Pi
over UDP receive, with every counter they keep. The version, flag, company and element
types are small numbers in place of the code's, as distinct as those are. The walk over
advertising data gives the octets at which its elements begin: the board stops at the
first manufacturer element (`Manufacturers`), a Pi at the first of the fleet's company
(`Ours`). `AirTraffic` says what may be sent: packets in the ranges of the code's types,
and from a device of another fleet any octets that do not read as a packet of one of the
board's neighbours. Nothing in a packet tells fleets apart, so that a stranger with a
neighbour's node id would be taken for it, by the code as by the model.

### RunLog

A row is a number and a file the sequence of its cells, so that a cut may fall
anywhere. Rows are buffered and handed over in batches; a batch refused part of
the way stays in the buffer; a kill leaves what was handed over, a power cut any
beginning of it. `Recovered` is `recover_rows` for each format.

### Topology, BoardParams, RelayReport, RunColumns, Manifests, Campaign

Pure functions of the code become operators; `Manifests` is the session that applies
them in the hub's order. `doc` is the document, `manifest` what loading made of it,
`assigned` the assignments, `board` the parameters in each board, `law` the law each
agent runs, `logged` the last row. The actions are those of the command line and of
the runner: `LoadManifest`, `CheckManifest`, `OverridePeriod`, `SetArm`, `Configure`,
`Trigger`, `ApplyEvent`, `Finish`; then `Report` logs a sample of a relay and `Sample`
one of a Pi. Engineering values count quarter steps of the wire's grid, so that a
positive one may round to 0 as it may in `numeric.quantize`; `WordMax` is the largest
integer of the wire, and one beyond it is not encoded (`Int32s`, `Encodes`). A frame
of the interface resets the integrators of its board (`Reset`), which `start`
remembers. Each value of a document is a different number, so that a value in
another's place is seen. Payloads are positional, written by `Manifests` in the host's
order and read by `BoardParams` in the board's; reports are bytes that know which
field they are of, so that a field read at another offset is `Garbage`.

`Campaign` writes the documents of the platform's experiments: `manifests(hosts)` is
everything the declared hosts can hold, `Written` what one run of the tool writes. A
name is the tuple of its parts (`<<"n30", "ring4", "40hz">>`), a host the last octet
of its address, a radio time a number of tenths of a millisecond; descriptions, seeds
and the Wi-Fi transmit power, which nothing modelled reads, are left out. The tool
also runs the hub's checks on what it built; that is `LoadManifest` and
`CheckManifest`, which every document goes through. `ExperimentsAreSound` says that
they can carry their experiments: each is admitted, links cross hosts but at a
cut-point, the clusters are three pieces until their event makes them one, every
published value reaches the air with the margin of `K_MIN`, and the manifests that are
compared differ in nothing that the comparison is not about. Where this is less than
what the tool's comments say, Observations lists the difference.

### BoardLaw and PiLaw

The law of a microgrid is written twice, in C and in Python, and so is the scalar
one. `BoardLaw` is the C, statement by statement: what `apply_control` latches,
then `discrete_step` or `microgrid_step`. `PiLaw` is the Python, object by object:
`VirtualLayer`, the two interfaces, the emulator, the controller around them, and
the scalar controller with its disturbance. Each gives the trajectory of a run from
what its side holds: the board from what the frames left in it, the Pi from
`to_controller_params` (`OnGrid`, the values rounded as the wire rounds them).

TLC has no reals. `LawNumbers` computes modulo a prime instead: every operation of
the laws is exact there, division included, so that two expressions which are equal
as rational functions agree, and two which are not disagree on most values.
Comparisons are of the representatives nearest to zero. `tanh`, `exp`, `sin` and the
power are fixed functions neither law knows anything about: they agree where their
arguments do. Rounding in single and double precision is out of the model, and so
are numbers that are not finite, which a field does not have.

`BoardStepsAsAPi`, a part of `AdmittedCanRun`, compares the two trajectories of every
relay the hub admitted: state, virtual state, gain, estimate, updates, and the cause
the watchdog latched. It excepts one cause, saturation under the adaptive law (see
Observations).

## Runs

| Run | Shows | Bounds |
|---|---|---|
| `arms` | nine properties of a paired trial | 1 relay, 1 local agent, 2 runs (two arms), 1 event, 2 faults, 1 fetch at a time; 1,779,974 states |
| `campaign` | the refinement of `RunBarrier` however late a call is executed, and that the series ends | 2 runs, 1 event, 1 fault, fair |
| `link` | a reply answers its request, what was confirmed is held, every operation returns | 3 assignments, queue of 1, 3 operations, 2 faults (frames lost, replies late), fair; 305,219 states |
| `threads` | what a run uses and hears is its own, what it sends is as `BoardRun` promises; a stop silences the board | 2 runs, 1 change of scan parameters, 1 packet a run, 1 refused command, fair |
| `frames` | only sent frames are delivered, within the payload buffer, a whole one is, no reply is forgotten | 2 frames of up to 2 payload symbols, ring of 4, chunks of 3, 2 faults, a reset inside any symbol; 1,574,576 states |
| `exchange` | the account of a link and what is used of a neighbour | 1 neighbour and 1 stranger, modulus 16, window 3, 4 packets, 3 heard, 1 restart, fair; 1,059,144 states |
| `loops` | deadlines, lag, the pace of a simulation | 1 agent on a node, 2 in a simulation, bodies of 0, 3 and 23 where a period is 10, 10 periods |
| `bridge` | counters, silence after a stop, every publish ends | 2 publishes, 2 starts, 1 report, fair; 1,017,072 states |
| `rows` | what is read back of a log, whatever ended it | 3 formats, 6 rows of 3 cells, batches of 2, 1 refused write |
| `manifests` | boards hold the manifest and step as Pis do, admitted fleets can run, what is generated can be used | all graphs on 3 agents (2 type mixes, 8 choices of reference and disabled agent), 96 generated documents, 127 with small differences, 47 with values off the wire or out of range, relays of 4 and 5 neighbours, 41 documents of the experiments on ten hosts and those of a bare run on two; 2 histories of a board, 2 other periods, 6 ticks of a law; 102,122 states |
| `air` | both languages read alike, every reception is counted | bytes of 8 values, 2 packets sent, 2 receptions |
| `relayrows` | a relay's neighbour values are logged in each other's columns (violation) | 3 relays, 2 laws, no fault |

The fleet's runs use one relay and one local agent: every rule of the code is
per node or relates one node to all, and the two node types are the only
asymmetry. No symmetry set applies, the two nodes being different. `MaxFaults`
bounds timeouts, deaths and device errors together. Two is what a failure and
its failing recovery take: a node dies and its stop times out, a trigger's
answer is lost and the clear after it. Two runs are needed for a left-over of
one to meet the next. One event suffices for a live update, its failure and its
roll-back. With two events, a process that dies after the first misses the
second and can be reported ok with a MISSED note only: the properties about ok
nodes therefore except `missed`, and the note is what the reader of a run has to
look at.

In `link`, one assignment of the scalar law and two of a microgrid law are the
cases the frames distinguish; the one that is refused is refused in its second
block, where the first is already stored. A queue of one is full after one
report, which is all it takes to lose a reply; the board's has eight. Two faults are
what it takes for a late reply to do harm: one request is given up while its reply is
on the way, and a frame is lost so that the reply finds another one waiting, or a
second reply is late too. Three operations are one that is given up, one that meets
what is left of it, and one more. With the conjunct on `clean` taken away
`AnswersItsRequest` fails, and `ConfirmedIsHeld`, `LawIsWhole` and `StartedIsRunning`
fail for operations that were not.

In `threads`, two runs are what a left-over needs to meet the next; one change of
the scan parameters can meet a start, a stop or a run; one packet is one more
than the packet a run begins with; one refused command is a teardown, a start or
a restart that failed, and the run after it. Its properties, but for
`LatchedHolds` and `RunsBegin`, speak of a radio that has refused nothing:
`main.c` drops the errors of `broadcaster_stop` and `observer_stop`.

In `frames`, the ring and the chunks are shorter than a frame, so that a frame meets
every interrupt at every symbol; a second frame is what a damaged first can swallow;
and a checksum reads as the start of a frame, the number most able to mislead a parser
that has lost its place (the theorems are for any number). In `exchange`, numbers
begin at 0 or three before the wrap; three packets heard of four are a loss, a repeat
and a reordering at once, and a window of three lets a packet be lost inside it (1 and
3 heard, 2 not), come late inside it, or lie beyond. In `loops`, a body of 23 misses
two deadlines. In `bridge`, a second start is what late answers of the first can meet.
In `rows`, three batches of two put a cut or a refused write before, inside and after
a batch. In `manifests`, three agents have every shape of reachability that the checks
tell apart, and the pinned, disabled and mixed cases are crossed with them; the ring's
generator is asked for five agents and `k` up to 2, its limit. A relay reads four
agents at most, so that those of the experiments that read four, and one of
`StarDocs`, meet the limit and the other exceeds it. Every document is loaded and
checked; `Fielded` bounds those that are also configured and run, and `MaxCut` the
fleets on which the report of an unreachable reference is compared with every set of
agents. A run of a law is six ticks, past both deadlines, with neighbours that come,
go and change; the prime is 97, and the thresholds of the watchdog are set where the
representatives reach them, as the deadlines and the persistence (3 ticks for the
code's 5) are set to be met in six ticks. In `air`, the packets lie at the edges of
their fields.

Runs that set `CHECK_DEADLOCK FALSE` are of systems that end: a series, a
session, a log, or a bound reached. The board's does not: it can always take another
frame.

Every property has a mutant, a plausible bug in one definition, that TLC finds
under the run's own configuration.

### Fairness

`campaign` assumes weak fairness of the hub's own steps (its event loop runs), of
each agent's handlers (its event loop runs; `gather` of cancelled tasks and the
creation of an endpoint end), and that a call whose request died is noticed: the
peer resets the connection or the client's timeout fires. Nothing is assumed of
the control loops, of boards, or of the faults. `SeriesEnds` needs no strong
fairness: a call stays answerable or dead until the hub deals with it.

`link` assumes weak fairness of the caller's thread, of the reader thread, of
the board's work queue and of its transmitter, each running as long as its
processor does. Nothing is assumed of the board's law and reports. Every request
has a timeout, so no operation waits for the board; `OperationsReturn` holds with any
reply late.

`threads` assumes weak fairness of the dynamics thread, of its timer, and of a
restart of the scanner in progress; and of the network thread strong fairness,
because the dynamics thread and the mutex take the processor from it again and
again, together with `[]<>~DynamicsReady`: a control step takes less than its
period, so there are moments when the lower thread runs. Nothing is assumed of
the host, of the radio or of packets heard. `NetWake` may come without the
semaphore: that is `IDLE_POLL_MS`.

`exchange` assumes that time passes (`Tick`), and nothing of the medium.
`bridge` assumes weak fairness of each publish's task and timer: the event loop
runs what can run, and `wait_for` fires. Nothing is assumed of the controller.

## Proofs

Of `Fleet`, for every set of nodes, any number of runs, events and faults. The
first four rows hold for both values of `LateClear` and `LateCalls`; the others
under `~LateClear /\ ~LateCalls`, that is, while a call the hub has
given up is executed during its own run or never:

| Theorem | States |
|---|---|
| `TypeCorrect` | `Spec => []TypeOK` |
| `BarrierHolds` | `Spec => []Barrier` |
| `FleetImplementsRunBarrier` | `Spec => ImplementsRunBarrier` |
| `AgentStepType`, `AgentStepRun` | what one step of an agent preserves and may change, whoever drives it |
| `ClearedIsIdleHolds`, `AckedIsAppliedHolds` | what an agent has answered to the pre-run stop, and to its configuration, is so |
| `StartsFromResetHolds`, `StaysInRunHolds` | no step begins a run with a stepped controller, or takes an agent out of its run |
| `HubKnowsConfigurationHolds` | the hub's record of a node follows events and roll-backs |
| `CollectedIsWholeHolds`, `CollectedOneArmHolds` | what is collected is one whole log, sampled under one arm |

Of `BoardThreads`, for any number of runs, packets, changes of parameters and
refused commands:

| Theorem | States |
|---|---|
| `TypeCorrect` | `Spec => []TypeOK` |
| `RunsFromLatched` | `~Unstopped /\ ~Hasty /\ Spec => []LatchedHolds` |
| `RunsHearTheirOwn`, `StoppedIsSilent`, `RunsAdvertiseTheirOwn` | the same for `HeardInRun`, `SilentAtRest`, `OnAirInRun` |
| `ThreadsImplementBoardRun` | `~Unstopped /\ ~Hasty /\ Spec => ImplementsBoardRun` |

Of `BoardLink`, for any assignments, values refused, depth of the queue, operations,
lost frames, late replies and radio errors (`BoardLinkProofs`):

| Theorem | States |
|---|---|
| `TypeCorrect` | `Spec => []TypeOK` |
| `RepliesAnswer`, `ConfiguredIsHeld` | `Spec => []AnswersItsRequest`, `Spec => []ConfirmedIsHeld` |
| `LawOfOneAssignment`, `StartedRuns` | `Spec => []LawIsWhole`, `Spec => []StartedIsRunning` |

Of the serial driver, for any frames, losses, ring, chunks, queue and number a
checksum reads as (`BoardUartProofs`):

| Theorem | States |
|---|---|
| `LinkKeepsItsPromises` | `Spec => []UartInv` |
| `OnlySentFrames` | `Spec => []DeliveredWereSent` |
| `WholeFramesArrive` | `Spec => []WholeFrameArrives` |

Of the loops, for any agents, periods, step durations, jitter and delay
(`AgentLoopsProofs`):

| Theorem | States |
|---|---|
| `NothingSlips` | `Spec => []LoopsInv` |
| `PhaseIsKept` | `Spec => []DeadlinesKeepPhase` |
| `ExchangeIsPaced` | `Spec => []ExchangeKeepsPace` |

Of a log, for any formats, cells of a row, rows of a batch, length of a run and writes
refused; of the packets on the air, for any byte size, packets, neighbours and
advertising data of strangers; and of a session of the hub, for any documents, initial
conditions, periods, limits on neighbours and parameters left on the boards
(`FormatsProofs`):

| Theorem | States |
|---|---|
| `LogKept` | `LogSpec => []LogInv` |
| `EarlierRowsSpared` | `LogSpec => []RefusalSparesEarlierRows` |
| `PacketsReadAlike` | `AirSpec => []AirInv` |
| `ManifestsReachTheBoards` | `Spec => []BoardHoldsTheManifest` |

Of the other links, for any neighbours, window, modulus, publishes and restarts.
`Short` is `MaxSent[p] + Window <= SeqModulus` for every declared neighbour: no
neighbour sends a whole round of numbers while the table that hears it lives:

| Theorem | Module | States |
|---|---|---|
| `ExchangeAccounted` | `StateExchangeProofs` | `Spec => []ExchangeInv` |
| `LossIsNeverUnderstated` | `StateExchangeProofs` | `Spec => []LossNeverUnderstated` |
| `DeliveryHolds` | `StateExchangeProofs` | `Short` implies `Spec => []DeliveryIsHonest` |
| `BridgeAccounted` | `TransportsProofs` | `Spec => []BridgeInv` |
| `SilentWhenStopped` | `TransportsProofs` | `Spec => []StoppedIsSilent` |

The assumptions on constants are the named `ASSUME`s, which TLC evaluates in every
run: a finite non-empty set of nodes, calls named after run, step and event, the
manifest's tables well typed, no reply that is `None`, and one arm for the repeats of
an unpaired series (`run_repeated` takes one manifest); documents of the types of
`models.py` whose controller is a registered one and whose event sets the enable
switch (`IsDocument`), and boards with the firmware's parameters, whatever they hold;
finitely many agents and step durations; a payload buffer of two symbols at least,
which the commands that are sent need; and `AirTraffic`, above.

### The fleet

`TypeOK` is inductive because it says what a request and an event in flight
carry: a `configure` has a configuration, a `start` a run name, an event an
assignment to roll back to. `Barrier` is not inductive: it says nothing of a
`start` that is on its way. `BarrierInv` adds that every such start is for a run
already triggered, and that the hub never triggers ahead of itself; with it, an
agent that takes a run name takes a triggered one however late the request is
executed, and a new run clears `configured` only for a run not yet triggered.
`FleetProofs` proves it action by action, the agents' actions through
`AgentStepRun`. The refinement maps the hub's run to `current`, `configured` to
`acked`, `triggered` to `open` and `runName` to `active`; its proof uses
`BarrierInv` where an agent begins.

What happens inside a run is one inductive invariant more, `RunInv`. Its base says
what can still be executed: `Made` lists, for each phase, the requests that may be
in flight to a node; `Distinct` that no call, start or stop is there twice;
`Awaited` ties the call in progress to its request and its reply. Two starts or
two stops would suspend two handlers in one agent, and the second would forget the
loops of the first: `TaskInv` says that this does not happen, so that whoever stops
an agent stops all that runs in it. On this base, phase by phase: a cleared node is
idle (`ClearInv`); a node that acknowledged its configuration has nothing else in
flight that could change it (`ConfiguredInv`); what the hub notes after an event is
what the node holds, unless the call is still out (`KnownInv`); a node that joined
the run is in it until the stop (`JoinedInv`), its log open and, once the stop is
answered, finalised; and every row of that log was sampled under a configuration of
the arm, with no event but those that name the node (`CollectInv`). `Made` is where
`~LateClear /\ ~LateCalls` is needed: with either, a stop or a configuration of an
earlier run is executed in this one, and `ClearedIsIdle` and `StaysInRun` fail.

### The board

The theorems about a board rest on one inductive invariant, `IInv`. Its
heart is `Scheduling`: once the network thread has stopped the timers, nothing
wakes the dynamics thread and it is in no step. That is true because of the
priorities alone: the network thread gets to stop the timers only when the
dynamics thread is blocked, no mutex being held, hence waiting with its semaphore
taken. So a trigger of a board at rest meets no step that would overwrite what it
latches (`LatchInv`). `Phases` says where the network thread can be with what
flags, in particular that it is waiting when a trigger comes; `Obeyed` follows the
radio's flags through a run and shows that the teardown finds the scanner on, so
that it forgets the run, because no stop is applied while the scanner is being
restarted; `Heard` and `OnAir` are then immediate. With `Unstopped` each of the
first two breaks. The refinement needs `Fresh` besides: the numbers counted are of the
last run even after its stop, and a packet about to be advertised is the last one
counted, since no trigger comes while the network thread has one in hand. Most steps
change neither the stage, nor the count, nor the air (`Unseen`); the eight that do are
mapped one by one.

### The serial link

The theorems of `BoardLink` rest on one inductive invariant too. `Underway` is a clean
operation that has sent its first request. While it is, `Single`: its request, or its
reply, is in one place only, on the wire to the board, in the board's queue, on the wire
back, in the reader's hands or in the slot, and no other is anywhere. So whatever the
board takes is the frame the relay has come to (`InOrder`), and what accepts a request
tells of the board as it still is (`Vouching`). `Pushed` carries a configuration that
is clean: the board holds every frame before the one in progress, and is under the
scalar law from its `network` frame to its `iface` frame, so a block is never replaced
under the law that uses it. `Strays` is about what is on the wire from requests given
up: a parameter frame there means that nothing is confirmed, and as long as every
configuration was clean there is one at most, of the configuration that was given up at
it, so that the board, when it takes it late, does what it would have done in time; a
stop there means that no run is believed on. That is why `ConfirmedIsHeld` and
`StartedIsRunning` hold whatever comes late, once they were established.

`UartInv` needs `Watched`: an open frame has a work item queued, which arms the
idle timer when it ends, or the timer itself, and a chunk is held only inside the
work item. Hence a link at rest is outside a frame. It also needs the shape of the
parser, that every `Step` keeps and that bounds the payload buffer.

That only sent frames are delivered does not follow from where the parser is: it may
have lost its place, and read a payload as a header and a checksum as a length. It
follows from the checksums. `Following` traces them: those of the delivered frames,
then those still in the chunk, the ring and on the wire, are at increasing places in
what was sent (`Traced`). A symbol lost or consumed removes one, a frame sent adds one
at the end, and a delivery moves one from the second part to the first, because a
frame is accepted only when the symbol read is the checksum of what was parsed
(`Parsed` says what that is). `Accounts` relates the checksums of the first part to
what was handed over: the frame each is the sum of, but for those of a set `cut`,
which have lost their payload. A delivery torn by a reset adds to `cut`, and it is a
fault, so that `cut` never has more members than there were faults.
`WholeFrameArrives` needs the opposite: that the parser has not lost its place.
`Whole` says that a frame sent to a quiet board, with no loss and no reset since, is
`Underway`: what is left of it is its last symbols, and the parser is where the
symbols before them take it (`After`), including the numbers a payload shares with a
header.

### The loops

`OnePlace` says that each loop is in one place, ready or asleep. On the virtual clock
a loop sleeps until its deadline and a packet as long as its delay (`Punctual`), and
the driver advances only when nothing is ready, to the earliest sleeper, so that
nothing runs late. On the wall clock (`Tardy`) a sleeper is behind its deadline by the
least sleep and one step at most, and what waits to run by one step more if the other
loop runs before it; there are only two.
`DeadlinesKeepPhase` holds since a late loop skips whole periods. `ExchangeKeepsPace`
needs `Spaced`: how far the publish loop is from its deadline, in control steps, is
how many steps are missing to a whole period. Where the two loops are due at one
instant either may run first, and that is the one step by which a packet may be early;
the deadlines themselves do not move, so that it never becomes two.

The installed provers cannot instantiate the library's induction theorems, which
take an operator. `WFMin`, that a set of numbers has a least one, takes a set, and
gives induction for one (`SetInduction`); from it come functions defined step by
step, the least of finitely many numbers, and the order of sequences that the
loops and the frames are about.

### The run log

The inductive invariant speaks of the file and not of what is read back: without a
refused write its cells are the first cells of the rows appended, in order, at least
those of the rows handed over and at most those of all (`FileOK`); with refused writes,
the cells of the rows before the first are still its first ones, until the power goes.
Each action writes part of a batch, all of it, or cuts the file, and the lemmas
`...Keeps` say what each leaves of that. `Reading` is the rest: a file that begins with
the cells of `n` rows is read as a list that begins with those rows, whatever comes
after, and one that is such cells only is read as whole rows, plus a cut line in a csv
file. A record is a slice (`Records`); a line is found by a scan, and what the scan has
read and begun after `i` cells is an induction on `i` (`ReadSteps`, `StateIsRead`).

### The packets on the air

The invariant, `AirIInv`, keeps the types of the counters, that what each device of the
fleet advertises reads on both sides as what it said and is in `sent` (`Saying`), that
each datagram is a packet's own encoding (`Broadcasts`), and that the queued snapshot,
as well as what the observer and the agent hold, is one packet of each neighbour
(`Holding`); without the queue `HeldIsOnePacket` is not inductive. The work is in what
the operators compute:

- Two, four and six bytes written are the number read, up to their width (`Digits`,
  `GetPut`), and a signed number comes back if it was in range (`SignedBack`).
- `Carries(v, offset, bytes)` says where a field lies. `PyFrames` and `CEncodes` lay a
  packet out by either encoder, `Read1`, `Read2` and `FrameRead` read that layout with
  either decoder, and `PacketValue` and `LegacyValue` the same behind the company. A
  board cuts the time to six bytes, so that what it sends is `Cut(p)`; a Pi refuses a
  time it cannot send, as it refuses any other argument out of range (`Holds`).
- The walk stays where no element begins (`WalkStays`). One element is found alone
  (`OneElement`), and the manufacturer element behind a name is the first of its type
  (`BehindTheName`).
- A Pi takes all a board takes (`BoardImpliesPi` in `AirInv`): if the first manufacturer
  element is of the fleet's company it is also the first of that company (`OursFirst`),
  and of its value `decode_any` takes what `air_wire_decode_any` takes (`ValueImplies`).
- A reception by a board has one outcome (`BoardResult`, `BoardCounts`), a batch of
  reports is the disjoint sum of its four verdicts (`FourKinds`).

### The session of the hub

`BoardHoldsTheManifest` relates a board to a document through everything between them,
and is not inductive: it says nothing of the assignment a board is configured with.
`FieldIInv` does, one station of the way after the other. `Stages` says that the manifest
is the loaded document, and that no relay has answered before the fleet is built;
`Built` that every assignment is the one of the manifest under the arm in force, with
the period of the command line if no arm was chosen after it and the switch as an event
left it; `Accepted` that a relay told ok has a board that holds its
assignment, rounded for the wire; `Shapes` that a board has the firmware's parameters.
An arm or a period replaces assignments only while no board has answered (`ArmKeeps`,
`PeriodKeeps`), an event an assignment together with what its board holds (`EventKeeps`).
`AssignmentSays` puts `Built` and `Accepted` together.

- A payload is positional. What the host packs in its order of fields is what the board
  loads in its own, because both orders are the same and no name stands twice
  (`PackedIsLoaded`, `...Names`).
- An assignment is four frames, or seven, applied one after the other up to the first
  refused (`ConfiguredSteps`). `AppliedAs` and the `...Taken` lemmas say what each frame
  replaces and leaves; `BoardConfigured` follows them to the last. It needs the board to
  accept all, which is what ok means, and nothing of what the board held before: the
  frames overwrite all that the law reads, and the law itself.
- Loading, arms, the period of the command line and the switch of an event keep the
  types of what they change (`LoadedTyped`, `ArmTyped`, `RepublishedKeeps`,
  `SwitchedKeeps`), so that a block is never taken for none.

### The neighbour table and the bridge

`ExchangeInv` is inductive: the type of the table says that a last sequence
number is one, or none, so that the gap to a new one is a number of packets; what
a packet adds to `expected` is then what it adds to `received` and `lost`
(`CountedOnce`), in each of the monitor's three verdicts.

`HonestInv` takes the numbers for places on a circle: a packet that a neighbour
sent as its `v`-th carries `Num(p, v)`, whatever was sent since (`AirNumbers`). The
distance of two numbers on the circle is the distance of their packets when that is
less than a round (`Ahead`, `GapIs`, `Verdicts`), so that the monitor follows the
newest packet while what it hears stays within its window (`Followed`), and what it
calls lost is the places passed over, less those heard late. `LossIsNeverUnderstated`
needs nothing else. For the other two parts a packet must not be met again a round
later, as it would be taken for a duplicate or a new one: with `Short`, while the
monitor counts nothing out of order and no restart, its record is of the newest
packet (`UpToDate`), and the rows were written with packets in the order they were
sent (`RowsInOrder`). The least value of a column then starts a series whose numbers
grow with the packets (`SeriesFacts`, `SameDistance`), and sending each number seen
to a packet that carried it is an injection into those delivered. `Short` is what 16
bits give: at the 0.125 s of most manifests a round lasts more than two hours, at the
shortest period of any, 0.04 s, 43 minutes. Beyond it a packet that
is a whole round late is heard as in order, and rows spread over several rounds count
a number once.

`BridgeInv` needs three facts about a publish. A member works and a future waits
only inside the publish that made them, and a member that waits has sent its
command (`Flights`), so an answer counted as sent belongs to a command the
controller acknowledged. What the running agent has on is on (`Up`), and until a
stop catches a publish none is under way in a stopped agent (`Uncrossed`), so no
member finds its medium closed and no publish is partial but by a stop.

### Only model-checked

`AdmittedCanRun` of `Manifests`, which needs the graphs of `Topology`, the bytes of
reports and the equality of two programs for the same law; `GeneratedAreSound` of
`Campaign`, which is about given documents; and `SeriesEnds`, `OperationsReturn`,
`RunsBegin`, `StopSilences`,
`SilentDropped` and `PublishesEnd`, liveness being outside TLAPS's reach.

## Observations

Where the code and what is said of it part, or where its behaviour may surprise.
The first has a run (`relayrows`); the others were met while modelling and are
in the models, except where the text says otherwise.

**Logs of microgrid relays.** A STATE report has one value per neighbour;
`_record_report` (`agent/service.py:534`) hands them to `RunLog.append`, which
takes two per neighbour under a microgrid law. The width of the row matches, and
the values move: `neighbor 2` is found in `neighbor 1`'s `_Q` column. Such a run
also cannot be loaded by `load_node`: its columns `<id>_P` and `<id>_Q` are
neither among the scaled columns nor digits nor passed through, so
`normalize_run` (`analysis/units.py:129-149`) raises `UnknownColumn`. A Pi's run
is labelled engineering while its neighbour columns are raw scaled integers
(known to `tools/capture_analysis.py:97-108`; `analysis/load.py:34` says "in
engineering units"). A disabled Pi agent logs its virtual state as its state and
zeros as the rest (`agent/agent.py:236-245`); a disabled board reports its state.

**Control plane.** A stop whose log cannot be finalised, on a full disk, is answered
with an error and leaves `run_name` set (`service.py:608`, `:624`): a relay then refuses
every start ("already running", `:420`) until another stop succeeds, and a local agent,
whose loops have ended, answers the next stop that it was not running, with a log that
is never finalised. `_clear_stale` records neither. `ClearedIsIdle` therefore says of such
an agent that nothing of its own runs, and not that it is in no run; the barrier is what
keeps the others from starting. A second repeat starts under the events of the first:
`_apply_event` writes them into `assignments` and `run_repeated`
(`runner.py:535-544`) does not set them back, although `runner.py:508` says "N
runs of the SAME configuration". A relay that drops samples is reported ok:
`record_errors` is returned by `status` only, although `service.py:543-544`
promises the run summary. A `configure` abandoned by a killed hub is executed in
the next hub's run (requests carry no run). A pre-run `stop` whose call timed out
can end the run that was started after it (`runner.py:334`). `--publish-period`
changes the assignments, and `--arm` after it rebuilds them from the manifest
(`hub/__main__.py:108-110`, `runner.py:434`): the override is lost, although
`:136-138` says it travels with the data. A control loop that raised is swallowed
by `gather(return_exceptions=True)`.

**A run from a stepped controller.** `runner.py:452` says "Every arm is reconfigured
before it starts, which is a full reset". Four faults on one node undo it: a hub is
killed in its run and the agent goes on; the next run's pre-run stop is given up and
lost, so that its configuration is a live update, which keeps the integrators; its
start is given up while in flight; its stop ends the loops; and then the start is
executed, with a controller that was stepped and not rebuilt. The node has been
reported failed by then. `StartsFromReset` therefore speaks of the phases in which
the run is on, where `StartsFromResetHolds` shows that it cannot happen.

**Serial link.** The gate of `SerialLink` is a flag that the next request opens,
so that a reply later than its timeout answers the next request
(`serial/link.py:280`). `:11-13` says that without the gate a late reply "satisfies the
*next* request with the *previous* answer"; with it, that still happens when the next
request is out by the time the reply comes, and each answer of the operation is then that
of the frame before. If a frame of that operation is lost besides, the relay reports a
configuration the board does not hold, and a microgrid law may run over blocks of two.
The properties of `BoardLink` except operations that met such a reply, and speak of what
the others established. A bus error while the work item compares a checksum may deliver a
command without its payload (`uart_link.c:167`, `proto.c:164-165`): handlers that check
the length refuse it, once per error. On the board, a `uart_tx` that
fails does not submit the work item again, and queued replies wait for the next
one (`uart_link.c:93-96`); a receiver that cannot be enabled again leaves the
link deaf until a reset (`:164`, not modelled). Boards of an older firmware leave
`board_stats` empty.

**Boards.** A trigger of a running board, which a relay process relaunched
during a run may send, is overwritten by the control step in progress, and the
run begins with what the one before heard (`agent.c:252`, `observer.c:164`): with
`Unstopped = TRUE`, `LatchedHolds` and `HeardInRun` fail. A live update of a
relay under a microgrid law resets the board's integrators (`agent.c:197`,
although `runner.py:232-235` says they are left alone, and `models.py:400` that an event
is applied "without touching its integrators"); on a Pi the same update
has no effect until the next reset (`microgrid.py:102-111`). A parameter block
that a range check refuses has been written by then (`agent.c:139`; `agent.h:275`
says "a rejected frame must never be partially applied"). The RSSI of a report
is that of the previous advertisement, because the observer queues the snapshot
before it writes it (`observer.c:121`, `:157`). Parameters of the scanner that
come between `observer_init`'s read and its start are stored and acknowledged but
not applied to that run (`observer.c:206`).

**Control laws.** The saturation branch of the watchdog "arms only past T_c"
(`microgrid_task.c:238-240`). Under the adaptive law a relay sends `T_c = 0`
(`agent/relay.py`, `microgrid_frames`), so a board's arms at the first tick, where
a Pi's waits for `T_C_DEFAULT`, 40 s (`controllers/microgrid.py:42`). What a board's
watchdog latched is in no report (`report.c`), and `status` looks at the controller
of a Pi only (`service.py:333`). A negative `adapt_band`, which nothing refuses, is no
band on a board (`microgrid_task.c:178`) and one that is never met on a Pi
(`interface_lc.py:163`), which then never adapts.

**Loops in a simulation.** The two loops of an agent are due at the same instant
whenever it publishes, and float deadlines decide which runs first: the packets of
`docs/CLOCK_MODEL.md:284` leave after 4, 10, 14 and 19 control steps where 5, 10, 15 and
20 make a period. `ExchangeKeepsPace` says that this is the worst: a packet leaves after
its whole periods of steps or one step short, and the error does not add up.

**Manifests.** A controller's name and its microgrid interface may disagree, which
nothing in the hub checks: a Pi then refuses, a board runs the interface's law, and
its samples are dropped by the log. A microgrid name without a block makes a Pi refuse
and a board run the scalar law. An event on `microgrid` can change the reference,
which `models.py:418` calls constant; events replace whole blocks unvalidated. `--arm
DZ` with a dead zone of 0 is the arm AA. Positive values below half a step of the
wire's grid, and values beyond 32 bits on it, pass the check (`validate.py:320-328`
warns of one case) and are refused at configure, by the encoder and before any frame
is sent: `AdmittedIsAccepted` says that nothing else is, and that no board refuses a
frame. The reference's reachability is judged on the full graph, disabled agents
included (`validate.py:139-142`). A live change of neighbours does not reach the
running neighbour table, nor the degree of the microgrid block. `max_neighbor_age_s`
is never set by `assignment_for`.

**The experiments' manifests.** "Every edge in every manifest must cross hosts"
(`make_manifests.py:706`), but in the clustered graphs a cut-point reads the agents of
its own host (1 and 11 on that of 21, 10 and 20 on that of 30): `LinksCrossHosts`
excepts them, and `BAND_ORDER`'s "no link is intra-host" (`:463`) is of the generated
graphs. `n18-50hz` and `n18-50hz-scan100` are the same manifest under two names, both
scanning all the time and with no range of advertising intervals
(`radio_dithered(0.1)` gives none), although `:1116` says they differ in
`scan_window_ms` and both keep 100-120 ms. `n9-jitter` is "identical in every other
field" to `n9-50hz` (`:959`) and scans 100 ms of 100 where that one scans 20 of 20:
`Paired` compares the first pair but for the window and the second but for the radio.
The manifests at 40 Hz are built at a duty of 90 % (`:1287`) and replaced by ones at
95 % (`:1349`). `CEILING_FLOOR`, which the text of `radio_dithered` explains its
window with, is read nowhere. `n6-fast` is described with a sine at 11 Hz (`:780`) and
has one of 2 Hz. A manifest that the checks refuse is written all the same.

**Packets.** A board stops at the first manufacturer element of an
advertisement, Python looks for one of its company. C tells formats apart by
length, Python by the first byte; a v0 is eight bytes exactly in C and six at
least in Python, and over UDP a payload with a company prefix is not read as v0.
A scalar board uses the P of a microgrid packet, and a microgrid receiver takes
a scalar one with Q = 0, although `decode_any` says that neither should mistake
the other's for its own. The idle packet of a BLE start is a v1 under every law.
A v0 carries no number, so that the link monitor takes all but the first for
duplicates. An older packet that comes late replaces a newer value; the monitor
counts it and the table does not look (`neighbors.py:70`). `link_delivery` is a
floor, as it says, while packets come in order.

**Transports.** A late completion settles whichever future is registered under
its opcode, the next publish's; the counters stay right, since it is counted
once. The `finally` of `_command` unregisters whichever it finds. A publish under
way across a stop is counted against the members of the moment: `published`
although both were stopped. A member that fails in its own `start` is not
stopped (`multi.py:94-109`; `ble.py:169`): `StoppedIsSilent` excepts it (`half`).
`HciSocket.command` applies its timeout to each receive, not to the command.

**Logs.** A write refused part of the way is repeated whole by the next flush:
the rows before it are read back, those after it may be cut up or doubled. A csv
line cut by a crash may be read as a shorter row.

## Not modelled

- `status`, `list_runs` and the watchdog poll: they read and change nothing.
- What is numerical in the control laws: convergence, bounds, rounding, numbers that
  are not finite. `set_params` in the middle of a run, which a live update of a Pi
  calls, and the options no manifest sets (`adapt_after`, the `residual` trigger).
- Time across nodes: offsets, the trigger's spread, epochs.
- In the serial driver: the reports the network thread sends on its own, the increment
  of `tx_dropped` as a read and a write, and a reset inside `proto_parser_timeout`, which
  changes a counter only.
- In the bridge: an endpoint that fails after its socket was bound, and a second `start`
  of one agent while the first awaits that endpoint.
- The byte formats of HCI commands and events, socket and ioctl calls.
- JSON framing of the control protocol, the YAML reader.
- Plotting, metrics, the other tools, scripts, deployment: sequential and offline.

## Plan

A proof of `AdmittedCanRun`: the order of fields in reports, as `PackedIsLoaded` has it
for parameters, and the steps of `BoardLaw` and `PiLaw`, an induction on ticks. The graphs
of `Topology` are folds and fixed points, about which lemmas would come first.
