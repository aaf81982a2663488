----------------------------- MODULE BoardThreads -----------------------------
(***************************************************************************)
(* The nRF board's threads (firmware/nordic/src/main.c): the dynamics      *)
(* thread, the network thread, the system work queue that applies the      *)
(* host's frames (control.c, agent.c), and the Bluetooth receive thread    *)
(* (observer.c), around the one `struct agent`.                            *)
(*                                                                         *)
(* One processor, fixed priorities.  The work queue and the receive thread *)
(* are cooperative and interrupt the two loops anywhere; the dynamics      *)
(* thread (priority 5) interrupts the network thread (7), unless that one  *)
(* holds coordination_mutex.  The work queue takes no mutex.               *)
(*                                                                         *)
(* A value is abstracted to the run it belongs to: 0 before the first.     *)
(***************************************************************************)
EXTENDS Naturals

CONSTANTS
  MaxRuns,    \* bound on triggers
  MaxRadio,   \* bound on RADIO frames
  MaxSeq,     \* bound on the packets published in a run
  MaxFaults,  \* bound on commands the radio refuses
  Unstopped,  \* a trigger may reach a board that is running
  Hasty       \* the host may go on before the network thread saw a stop

ASSUME BoardThreadsAssumption ==
  /\ MaxRuns \in Nat \ {0} /\ MaxRadio \in Nat /\ MaxSeq \in Nat \ {0}
  /\ MaxFaults \in Nat /\ Unstopped \in BOOLEAN /\ Hasty \in BOOLEAN

VARIABLES
  run,         \* the last run triggered
  running,     \* params.running
  first,       \* params.first_time_running
  enabled,     \* params.enabled
  law,         \* the run whose initial conditions the integrators descend from
  seq,         \* vars.tx_seq, and the run that reset it
  absorbed,    \* neighbour values the law reads: the oldest, 0 for none
  mutex,       \* the thread holding coordination_mutex
  dynPc, taken, x,       \* the dynamics thread; its snapshot, and the state it read
  netPc, wasRunning, packet, \* the network thread; its packet
  scanOf,      \* the parameters it starts the scanner with
  dynTimer, netTimer, dynSem, netSem,
  info, queue, \* neighbor_info, custom_observer_msg_queue: the oldest heard in it
  advertising, onAir,    \* broadcaster.c's flag, and the packet advertised
  scanning, scanner,     \* observer.c's flag, and the controller's scanner
  radioCfg, scanCfg,     \* scan parameters stored, and in force
  restart,     \* the work queue restarts the scanner: "no", "stop", "start"
  faults

agent     == <<run, running, first, enabled, law, seq, absorbed>>
dynamics  == <<dynPc, taken, x>>
network   == <<netPc, wasRunning, packet, scanOf>>
timing    == <<dynTimer, netTimer, dynSem, netSem>>
observer  == <<info, queue, scanning, scanner, radioCfg, scanCfg, restart>>
broadcast == <<advertising, onAir>>
vars == <<agent, mutex, dynamics, network, timing, observer, broadcast, faults>>

Packets == [run : 0 .. MaxRuns, n : 0 .. MaxSeq]

Fault == faults < MaxFaults /\ faults' = faults + 1

(* A command to the radio succeeds and does `done`, or is refused.         *)
Try(done, kept) ==
  \/ done /\ UNCHANGED faults
  \/ Fault /\ UNCHANGED kept

-----------------------------------------------------------------------------
(* The dynamics thread                                                     *)

DynWake ==
  /\ dynPc = "wait" /\ dynSem = 1
  /\ dynSem' = 0
  /\ taken' = queue /\ queue' = 0
  /\ dynPc' = "polled"
  /\ UNCHANGED <<agent, mutex, x, network, dynTimer, netTimer, netSem, info,
                 scanning, scanner, radioCfg, scanCfg, restart, broadcast, faults>>

(* Under the mutex: absorb_neighbors, and the state as the step reads it.  *)
DynRead ==
  /\ dynPc = "polled" /\ mutex = "free"
  /\ IF running /\ enabled
     THEN /\ absorbed' = IF taken # 0 THEN taken ELSE absorbed
          /\ x' = law
          /\ dynPc' = "step" /\ mutex' = "dynamics"
     ELSE dynPc' = "wait" /\ UNCHANGED <<absorbed, x, mutex>>
  /\ UNCHANGED <<run, running, first, enabled, law, seq, taken, network, timing,
                 observer, broadcast, faults>>

(* discrete_step writes what it computed from it.                          *)
DynWrite ==
  /\ dynPc = "step"
  /\ law' = x
  /\ dynPc' = "wait" /\ mutex' = "free"
  /\ UNCHANGED <<run, running, first, enabled, seq, absorbed, taken, x, network,
                 timing, observer, broadcast, faults>>

Dynamics == DynWake \/ DynRead \/ DynWrite

DynamicsReady ==
  \/ dynPc = "wait" /\ dynSem = 1
  \/ dynPc = "polled" /\ mutex = "free"
  \/ dynPc = "step"

-----------------------------------------------------------------------------
(* The network thread, which runs when the dynamics thread is blocked.     *)
(* A step ends where it waits, or lets go of the mutex.                    *)

NetAt(pc) == netPc = pc /\ ~DynamicsReady

(* The semaphore, or the idle poll.                                        *)
NetWake ==
  /\ NetAt("wait") /\ mutex = "free"
  /\ netSem' = 0
  /\ netPc' = IF ~running THEN (IF wasRunning THEN "stopTimers" ELSE "wait")
              ELSE IF first THEN "begin" ELSE "report"
  /\ UNCHANGED <<agent, mutex, dynamics, wasRunning, packet, scanOf, dynTimer,
                 netTimer, dynSem, observer, broadcast, faults>>

(* Mutant of NetBegin: it advertises the packet it had in hand.            *)
NetBeginStale ==
  /\ NetAt("begin") /\ mutex = "free"
  /\ first' = FALSE
  /\ netPc' = "advertise"
  /\ UNCHANGED <<run, running, enabled, law, seq, absorbed, mutex, dynamics, packet,
                 wasRunning, scanOf, timing, observer, broadcast, faults>>

NetBegin ==
  /\ NetAt("begin") /\ mutex = "free"
  /\ first' = FALSE
  /\ packet' = seq
  /\ netPc' = "advertise"
  /\ UNCHANGED <<run, running, enabled, law, seq, absorbed, mutex, dynamics,
                 wasRunning, scanOf, timing, observer, broadcast, faults>>

(* broadcaster_init.                                                       *)
NetAdvertise ==
  /\ NetAt("advertise")
  /\ IF advertising THEN UNCHANGED <<broadcast, faults>>
     ELSE Try(advertising' = TRUE /\ onAir' = packet, broadcast)
  /\ netPc' = "observe"
  /\ UNCHANGED <<agent, mutex, dynamics, wasRunning, packet, scanOf, timing,
                 observer>>

(* observer_init, up to its command.                                       *)
NetObserve ==
  /\ NetAt("observe")
  /\ netPc' = IF scanning THEN "timers" ELSE "scan"
  /\ scanOf' = radioCfg
  /\ UNCHANGED <<agent, mutex, dynamics, wasRunning, packet, timing, observer,
                 broadcast, faults>>

(* The controller starts one scanner.                                      *)
StartScanner(cfg) ==
  IF scanner THEN UNCHANGED <<scanning, scanner, scanCfg>>
  ELSE scanner' = TRUE /\ scanning' = TRUE /\ scanCfg' = cfg

NetScan ==
  /\ NetAt("scan")
  /\ Try(StartScanner(scanOf), <<scanning, scanner, scanCfg>>)
  /\ netPc' = "timers"
  /\ UNCHANGED <<agent, mutex, dynamics, wasRunning, packet, scanOf, timing,
                 info, queue, radioCfg, restart, broadcast>>

(* Mutant of NetTimers: the run is not remembered for its teardown.         *)
NetTimersForgetful ==
  /\ NetAt("timers")
  /\ dynTimer' = TRUE /\ netTimer' = TRUE
  /\ netPc' = "report"
  /\ UNCHANGED <<agent, mutex, dynamics, wasRunning, packet, scanOf, dynSem, netSem,
                 observer, broadcast, faults>>

NetTimers ==
  /\ NetAt("timers")
  /\ dynTimer' = TRUE /\ netTimer' = TRUE
  /\ wasRunning' = TRUE
  /\ netPc' = "report"
  /\ UNCHANGED <<agent, mutex, dynamics, packet, scanOf, dynSem, netSem,
                 observer, broadcast, faults>>

(* The snapshot is reported; on some ticks a packet is due.                *)
NetReport ==
  /\ NetAt("report") /\ mutex = "free"
  /\ netPc' \in {"wait"} \cup (IF seq.n < MaxSeq THEN {"publish"} ELSE {})
  /\ UNCHANGED <<agent, mutex, dynamics, wasRunning, packet, scanOf, timing,
                 observer, broadcast, faults>>

(* tx_seq++ is a read and a write.                                         *)
NetCount ==
  /\ NetAt("publish") /\ mutex = "free"
  /\ IF running /\ enabled
     THEN /\ packet' = [seq EXCEPT !.n = @ + 1]
          /\ netPc' = "stamp" /\ mutex' = "network"
     ELSE netPc' = "wait" /\ UNCHANGED <<packet, mutex>>
  /\ UNCHANGED <<agent, dynamics, wasRunning, scanOf, timing, observer,
                 broadcast, faults>>

NetStamp ==
  /\ NetAt("stamp")
  /\ seq' = packet
  /\ netPc' = "update" /\ mutex' = "free"
  /\ UNCHANGED <<run, running, first, enabled, law, absorbed, dynamics,
                 wasRunning, packet, scanOf, timing, observer, broadcast, faults>>

(* broadcaster_update, outside the mutex.                                  *)
NetUpdate ==
  /\ NetAt("update")
  /\ IF advertising THEN Try(onAir' = packet, onAir)
     ELSE UNCHANGED <<onAir, faults>>
  /\ netPc' = "wait"
  /\ UNCHANGED <<agent, mutex, dynamics, wasRunning, packet, scanOf, timing,
                 observer, advertising>>

NetStopTimers ==
  /\ NetAt("stopTimers")
  /\ dynTimer' = FALSE /\ netTimer' = FALSE
  /\ netPc' = "stopAdv"
  /\ UNCHANGED <<agent, mutex, dynamics, wasRunning, packet, scanOf, dynSem,
                 netSem, observer, broadcast, faults>>

(* Mutant of NetStopAdvertising: the teardown forgets the transmitter.     *)
NetStopNothing ==
  /\ NetAt("stopAdv")
  /\ netPc' = "stopScan"
  /\ UNCHANGED <<agent, mutex, dynamics, wasRunning, packet, scanOf, timing,
                 observer, broadcast, faults>>

(* broadcaster_stop: nobody looks at its error.                            *)
NetStopAdvertising ==
  /\ NetAt("stopAdv")
  /\ IF advertising THEN Try(advertising' = FALSE, advertising)
     ELSE UNCHANGED <<advertising, faults>>
  /\ netPc' = "stopScan"
  /\ UNCHANGED <<agent, mutex, dynamics, wasRunning, packet, scanOf, timing,
                 observer, onAir>>

(* observer_stop, up to its command: a scanner already off is an error.    *)
NetStopScan ==
  /\ NetAt("stopScan")
  /\ IF scanning /\ scanner
     THEN \/ scanner' = FALSE /\ netPc' = "forget" /\ UNCHANGED <<wasRunning, faults>>
          \/ Fault /\ netPc' = "wait" /\ wasRunning' = FALSE /\ UNCHANGED scanner
     ELSE netPc' = "wait" /\ wasRunning' = FALSE /\ UNCHANGED <<scanner, faults>>
  /\ UNCHANGED <<agent, mutex, dynamics, packet, scanOf, timing, info, queue,
                 scanning, radioCfg, scanCfg, restart, broadcast>>

(* Mutant of NetForget: `heard` survives the run.                          *)
NetForgetQueueOnly ==
  /\ NetAt("forget")
  /\ scanning' = FALSE
  /\ queue' = 0
  /\ netPc' = "wait" /\ wasRunning' = FALSE
  /\ UNCHANGED <<agent, mutex, dynamics, packet, scanOf, timing, scanner, info,
                 radioCfg, scanCfg, restart, broadcast, faults>>

(* observer_stop: forget the run.                                          *)
NetForget ==
  /\ NetAt("forget")
  /\ scanning' = FALSE
  /\ queue' = 0 /\ info' = 0
  /\ netPc' = "wait" /\ wasRunning' = FALSE
  /\ UNCHANGED <<agent, mutex, dynamics, packet, scanOf, timing, scanner,
                 radioCfg, scanCfg, restart, broadcast, faults>>

Network ==
  \/ NetWake \/ NetBegin \/ NetAdvertise \/ NetObserve \/ NetScan \/ NetTimers
  \/ NetReport \/ NetCount \/ NetStamp \/ NetUpdate
  \/ NetStopTimers \/ NetStopAdvertising \/ NetStopScan \/ NetForget

-----------------------------------------------------------------------------
(* Interrupts and the receive thread                                       *)

DynTick ==
  /\ dynTimer /\ dynSem' = 1
  /\ UNCHANGED <<agent, mutex, dynamics, network, dynTimer, netTimer, netSem,
                 observer, broadcast, faults>>

NetTick ==
  /\ netTimer /\ netSem' = 1
  /\ UNCHANGED <<agent, mutex, dynamics, network, dynTimer, netTimer, dynSem,
                 observer, broadcast, faults>>

(* An advertisement of a neighbour, the only one heard or not: the newest  *)
(* snapshot is the queue.                                                  *)
Hear ==
  /\ scanner
  /\ info' \in {run} \cup ({info} \ {0})
  /\ queue' = info'
  /\ UNCHANGED <<agent, mutex, dynamics, network, timing, scanning, scanner,
                 radioCfg, scanCfg, restart, broadcast, faults>>

-----------------------------------------------------------------------------
(* The work queue: one frame at a time                                     *)

(* The network thread has seen that the board is stopped.                  *)
Settled == ~running /\ ~wasRunning /\ netPc = "wait"

HostMay == restart = "no" /\ (running \/ Hasty \/ Settled)

(* NETWORK, with the node taking part or not.                              *)
ApplyNetwork ==
  /\ HostMay
  /\ enabled' \in BOOLEAN
  /\ UNCHANGED <<run, running, first, law, seq, absorbed, mutex, dynamics,
                 network, timing, observer, broadcast, faults>>

(* Mutant of ApplyTrigger: tx_seq goes on counting.                        *)
ApplyTriggerKeepsSeq ==
  /\ HostMay /\ (running => Unstopped) /\ run < MaxRuns
  /\ run' = run + 1
  /\ running' = TRUE /\ first' = TRUE
  /\ law' = run' /\ absorbed' = 0
  /\ netSem' = 1
  /\ UNCHANGED <<enabled, seq, mutex, dynamics, network, dynTimer, netTimer,
                 dynSem, observer, broadcast, faults>>

(* Mutant of ApplyTrigger: not announced as a first time.                  *)
ApplyTriggerNotFirst ==
  /\ HostMay /\ (running => Unstopped) /\ run < MaxRuns
  /\ run' = run + 1
  /\ running' = TRUE
  /\ law' = run' /\ seq' = [run |-> run', n |-> 0] /\ absorbed' = 0
  /\ netSem' = 1
  /\ UNCHANGED <<first, enabled, mutex, dynamics, network, dynTimer, netTimer,
                 dynSem, observer, broadcast, faults>>

(* CONTROL with the trigger: latch, answer, wake the network thread.       *)
ApplyTrigger ==
  /\ HostMay /\ (running => Unstopped) /\ run < MaxRuns
  /\ run' = run + 1
  /\ running' = TRUE /\ first' = TRUE
  /\ law' = run' /\ seq' = [run |-> run', n |-> 0] /\ absorbed' = 0
  /\ netSem' = 1
  /\ UNCHANGED <<enabled, mutex, dynamics, network, dynTimer, netTimer, dynSem,
                 observer, broadcast, faults>>

(* CONTROL without it.                                                     *)
ApplyStop ==
  /\ HostMay
  /\ running' = FALSE /\ first' = FALSE
  /\ netSem' = 1
  /\ UNCHANGED <<run, enabled, law, seq, absorbed, mutex, dynamics, network,
                 dynTimer, netTimer, dynSem, observer, broadcast, faults>>

(* RADIO: stored; a scanner that is on is stopped, a command to wait for.  *)
ApplyRadio ==
  /\ HostMay /\ radioCfg < MaxRadio
  /\ radioCfg' = radioCfg + 1
  /\ IF scanning /\ scanner
     THEN Try(scanner' = FALSE /\ restart' = "stop", <<scanner, restart>>)
     ELSE UNCHANGED <<scanner, restart, faults>>
  /\ UNCHANGED <<agent, mutex, dynamics, network, timing, info, queue, scanning,
                 scanCfg, broadcast>>

(* The command returned; the flag is down while the next one is waited for. *)
RestartClear ==
  /\ restart = "stop" /\ restart' = "start"
  /\ scanning' = FALSE
  /\ UNCHANGED <<agent, mutex, dynamics, network, timing, info, queue, scanner,
                 radioCfg, scanCfg, broadcast, faults>>

RestartScan ==
  /\ restart = "start" /\ restart' = "no"
  /\ Try(StartScanner(radioCfg), <<scanning, scanner, scanCfg>>)
  /\ UNCHANGED <<agent, mutex, dynamics, network, timing, info, queue, radioCfg,
                 broadcast>>

-----------------------------------------------------------------------------
Init ==
  /\ run = 0 /\ running = FALSE /\ first = FALSE /\ enabled = FALSE
  /\ law = 0 /\ seq = [run |-> 0, n |-> 0] /\ absorbed = 0
  /\ mutex = "free"
  /\ dynPc = "wait" /\ taken = 0 /\ x = 0
  /\ netPc = "wait" /\ wasRunning = FALSE /\ packet = seq /\ scanOf = 0
  /\ dynTimer = FALSE /\ netTimer = FALSE /\ dynSem = 0 /\ netSem = 0
  /\ info = 0 /\ queue = 0
  /\ advertising = FALSE /\ onAir = seq
  /\ scanning = FALSE /\ scanner = FALSE /\ radioCfg = 0 /\ scanCfg = 0
  /\ restart = "no" /\ faults = 0

Interrupts == DynTick \/ NetTick \/ Hear
Frames ==
  \/ ApplyNetwork \/ ApplyTrigger \/ ApplyStop
  \/ ApplyRadio \/ RestartClear \/ RestartScan

Next == Dynamics \/ Network \/ Interrupts \/ Frames

Spec == Init /\ [][Next]_vars

(* Every thread that may run runs, in the end; timers tick; a control step *)
(* takes less than its period, so the network thread gets the processor    *)
(* again and again.                                                        *)
Fairness ==
  /\ WF_vars(Dynamics) /\ WF_vars(DynTick) /\ WF_vars(RestartClear \/ RestartScan)
  /\ SF_vars(Network)
  /\ []<>~DynamicsReady

FairSpec == Spec /\ Fairness

-----------------------------------------------------------------------------
\* The values of every variable; the mutex is held where the code holds it.
TypeOK ==
  /\ run \in 0 .. MaxRuns /\ law \in 0 .. MaxRuns /\ absorbed \in 0 .. MaxRuns
  /\ taken \in 0 .. MaxRuns /\ x \in 0 .. MaxRuns /\ info \in 0 .. MaxRuns
  /\ queue \in 0 .. MaxRuns
  /\ running \in BOOLEAN /\ first \in BOOLEAN /\ enabled \in BOOLEAN
  /\ wasRunning \in BOOLEAN /\ dynTimer \in BOOLEAN /\ netTimer \in BOOLEAN
  /\ advertising \in BOOLEAN /\ scanning \in BOOLEAN /\ scanner \in BOOLEAN
  /\ seq \in Packets /\ packet \in Packets /\ onAir \in Packets
  /\ netPc = "publish" => seq.n < MaxSeq
  /\ dynPc \in {"wait", "polled", "step"} /\ (mutex = "dynamics" <=> dynPc = "step")
  /\ netPc \in {"wait", "begin", "advertise", "observe", "scan", "timers", "report",
               "publish", "stamp", "update", "stopTimers", "stopAdv", "stopScan",
               "forget"}
  /\ mutex \in {"free", "dynamics", "network"} /\ (mutex = "network" <=> netPc = "stamp")
  /\ dynSem \in 0 .. 1 /\ netSem \in 0 .. 1
  /\ radioCfg \in 0 .. MaxRadio /\ scanCfg \in 0 .. MaxRadio /\ scanOf \in 0 .. MaxRadio
  /\ restart \in {"no", "stop", "start"} /\ faults \in 0 .. MaxFaults
  /\ first => running

\* A run integrates, and counts its packets, from what its own trigger latched
\* (BleRelay.start: "Latches initial conditions on the nRF").
LatchedHolds == running => law = run /\ seq.run = run

\* What the law reads of its neighbours was heard in the run it is in, while the
\* radio does as it is told: a refused stop of the scanner carries it over
\* (observer.c: "`heard` is per-run, and carrying it into the next one would
\* report a neighbour as observed on the strength of the previous run").
HeardInRun == running /\ faults = 0 => absorbed \in {0, run}

\* A board at rest, its radio obedient, neither sends, nor listens, nor ticks,
\* and remembers nothing of the run (main.c, network_fetching_thread).
SilentAtRest ==
  Settled /\ faults = 0
    => ~advertising /\ ~scanner /\ ~scanning /\ ~dynTimer /\ info = 0 /\ queue = 0

\* What a host and the neighbours see of the threads: where the run is, and the
\* packet the transmitter repeats.
Stage == IF running THEN "run" ELSE IF Settled THEN "rest" ELSE "stopping"
Air == IF advertising THEN {onAir} ELSE {}

Abstract == INSTANCE BoardRun
  WITH stage <- Stage, counted <- seq.n, air <- Air, refused <- (faults > 0)

\* The packet on the air is, from the trigger to the end of the teardown, the last
\* one that run counted, and no packet is left on the air of a board at rest
\* whose radio obeyed (main.c, network_fetching_thread, on_air_packet).
ImplementsBoardRun == Abstract!Spec

\* A triggered run begins, whatever the network thread was doing.
RunsBegin == [](running => <>(~running \/ dynTimer))

\* A stopped board falls silent.
StopSilences ==
  [](~running => <>(running \/ faults > 0 \/ ~(advertising \/ scanner \/ dynTimer)))
=============================================================================
