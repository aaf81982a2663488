-------------------------- MODULE BoardThreadsProofs --------------------------
(***************************************************************************)
(* The types of BoardThreads, and that a run keeps what its trigger        *)
(* latched when the host stops a board before it triggers it and waits for *)
(* the stop.  The argument is about scheduling: a network thread that gets *)
(* to the end of a teardown leaves no control step half done, because the  *)
(* dynamics thread goes first.                                             *)
(***************************************************************************)
EXTENDS BoardThreads, TLAPS

(* The variables that are flags.                                           *)
Flags ==
  /\ running \in BOOLEAN /\ first \in BOOLEAN /\ enabled \in BOOLEAN
  /\ wasRunning \in BOOLEAN /\ dynTimer \in BOOLEAN /\ netTimer \in BOOLEAN
  /\ advertising \in BOOLEAN /\ scanning \in BOOLEAN /\ scanner \in BOOLEAN

(* Every step leaves a flag as it is, or raises or lowers it.              *)
LEMMA FlagsStep == Flags /\ [Next]_vars => Flags'
<1> SUFFICES ASSUME Flags, [Next]_vars PROVE Flags'
  OBVIOUS
<1>1. CASE UNCHANGED vars
  BY <1>1, Zenon DEF Flags, vars, agent, dynamics, network, timing, observer, broadcast
<1>2. CASE Next
  <2>1. CASE DynWake
    BY <2>1, Zenon DEF DynWake, Flags, agent, dynamics, network, timing, observer, broadcast
  <2>2. CASE DynRead
    BY <2>2, Zenon DEF DynRead, Flags, agent, dynamics, network, timing, observer, broadcast
  <2>3. CASE DynWrite
    BY <2>3, Zenon DEF DynWrite, Flags, agent, dynamics, network, timing, observer, broadcast
  <2>4. CASE NetWake
    BY <2>4, Zenon DEF NetWake, Flags, agent, dynamics, network, timing, observer, broadcast
  <2>5. CASE NetBegin
    BY <2>5, Zenon DEF NetBegin, Flags, agent, dynamics, network, timing, observer, broadcast
  <2>6. CASE NetAdvertise
    BY <2>6, Zenon DEF NetAdvertise, Try, Fault, Flags, agent, dynamics, network, timing, observer, broadcast
  <2>7. CASE NetObserve
    BY <2>7, Zenon DEF NetObserve, Flags, agent, dynamics, network, timing, observer, broadcast
  <2>8. CASE NetScan
    BY <2>8, Zenon DEF NetScan, Try, Fault, StartScanner, Flags, agent, dynamics, network, timing, observer, broadcast
  <2>9. CASE NetTimers
    BY <2>9, Zenon DEF NetTimers, Flags, agent, dynamics, network, timing, observer, broadcast
  <2>10. CASE NetReport
    BY <2>10, Zenon DEF NetReport, Flags, agent, dynamics, network, timing, observer, broadcast
  <2>11. CASE NetCount
    BY <2>11, Zenon DEF NetCount, Flags, agent, dynamics, network, timing, observer, broadcast
  <2>12. CASE NetStamp
    BY <2>12, Zenon DEF NetStamp, Flags, agent, dynamics, network, timing, observer, broadcast
  <2>13. CASE NetUpdate
    BY <2>13, Zenon DEF NetUpdate, Try, Fault, Flags, agent, dynamics, network, timing, observer, broadcast
  <2>14. CASE NetStopTimers
    BY <2>14, Zenon DEF NetStopTimers, Flags, agent, dynamics, network, timing, observer, broadcast
  <2>15. CASE NetStopAdvertising
    BY <2>15, Zenon DEF NetStopAdvertising, Try, Fault, Flags, agent, dynamics, network, timing, observer, broadcast
  <2>16. CASE NetStopScan
    BY <2>16, Zenon DEF NetStopScan, Fault, Flags, agent, dynamics, network, timing, observer, broadcast
  <2>17. CASE NetForget
    BY <2>17, Zenon DEF NetForget, Flags, agent, dynamics, network, timing, observer, broadcast
  <2>18. CASE DynTick
    BY <2>18, Zenon DEF DynTick, Flags, agent, dynamics, network, timing, observer, broadcast
  <2>19. CASE NetTick
    BY <2>19, Zenon DEF NetTick, Flags, agent, dynamics, network, timing, observer, broadcast
  <2>20. CASE Hear
    BY <2>20, Zenon DEF Hear, Flags, agent, dynamics, network, timing, observer, broadcast
  <2>21. CASE ApplyNetwork
    BY <2>21, Zenon DEF ApplyNetwork, Flags, agent, dynamics, network, timing, observer, broadcast
  <2>22. CASE ApplyTrigger
    BY <2>22, Zenon DEF ApplyTrigger, Flags, agent, dynamics, network, timing, observer, broadcast
  <2>23. CASE ApplyStop
    BY <2>23, Zenon DEF ApplyStop, Flags, agent, dynamics, network, timing, observer, broadcast
  <2>24. CASE ApplyRadio
    BY <2>24, Zenon DEF ApplyRadio, Try, Fault, Flags, agent, dynamics, network, timing, observer, broadcast
  <2>25. CASE RestartClear
    BY <2>25, Zenon DEF RestartClear, Flags, agent, dynamics, network, timing, observer, broadcast
  <2>26. CASE RestartScan
    BY <2>26, Zenon DEF RestartScan, Try, Fault, StartScanner, Flags, agent, dynamics, network, timing, observer, broadcast
  <2>27. QED
    BY <2>1, <2>2, <2>3, <2>4, <2>5, <2>6, <2>7, <2>8, <2>9, <2>10, <2>11, <2>12, <2>13, <2>14, <2>15, <2>16, <2>17, <2>18, <2>19, <2>20, <2>21, <2>22, <2>23, <2>24, <2>25, <2>26, <1>2 DEF Next, Dynamics, Network, Interrupts, Frames
<1>3. QED
  BY <1>1, <1>2

(* TypeOK is inductive.                                                    *)
LEMMA TypeStep == TypeOK /\ [Next]_vars => TypeOK'
<1> SUFFICES ASSUME TypeOK, [Next]_vars PROVE TypeOK'
  OBVIOUS
<1> USE BoardThreadsAssumption
<1>0. Flags'
  BY FlagsStep DEF TypeOK, Flags
<1>1. CASE UNCHANGED vars
  BY <1>1 DEF TypeOK, vars, agent, dynamics, network, timing, observer, broadcast
<1>2. CASE Next
  <2>1. CASE DynWake
    BY <2>1 DEF DynWake, TypeOK, Packets, agent, dynamics, network, timing, observer, broadcast
  <2>2. CASE DynRead
    BY <2>2 DEF DynRead, TypeOK, Packets, agent, dynamics, network, timing, observer, broadcast
  <2>3. CASE DynWrite
    BY <2>3 DEF DynWrite, TypeOK, Packets, agent, dynamics, network, timing, observer, broadcast
  <2>4. CASE NetWake
    BY <2>4 DEF NetWake, NetAt, TypeOK, Packets, agent, dynamics, network, timing, observer, broadcast
  <2>5. CASE NetBegin
    BY <1>0, <2>5 DEF Flags, NetBegin, NetAt, TypeOK, Packets, agent, dynamics, network, timing, observer, broadcast
  <2>6. CASE NetAdvertise
    BY <1>0, <2>6 DEF Flags, NetAdvertise, NetAt, Try, Fault, TypeOK, Packets, agent, dynamics, network, timing, observer, broadcast
  <2>7. CASE NetObserve
    BY <2>7 DEF NetObserve, NetAt, TypeOK, Packets, agent, dynamics, network, timing, observer, broadcast
  <2>8. CASE NetScan
    BY <1>0, <2>8 DEF Flags, NetScan, NetAt, Try, Fault, StartScanner, TypeOK, Packets, agent, dynamics, network, timing, observer, broadcast
  <2>9. CASE NetTimers
    BY <2>9 DEF NetTimers, NetAt, TypeOK, Packets, agent, dynamics, network, timing, observer, broadcast
  <2>10. CASE NetReport
    BY <2>10 DEF NetReport, NetAt, TypeOK, Packets, agent, dynamics, network, timing, observer, broadcast
  <2>11. CASE NetCount
    BY <2>11 DEF NetCount, NetAt, TypeOK, Packets, agent, dynamics, network, timing, observer, broadcast
  <2>12. CASE NetStamp
    BY <2>12 DEF NetStamp, NetAt, TypeOK, Packets, agent, dynamics, network, timing, observer, broadcast
  <2>13. CASE NetUpdate
    BY <2>13 DEF NetUpdate, NetAt, Try, Fault, TypeOK, Packets, agent, dynamics, network, timing, observer, broadcast
  <2>14. CASE NetStopTimers
    BY <2>14, ZenonT(40) DEF NetStopTimers, NetAt, TypeOK, Packets, agent, dynamics, network, timing, observer, broadcast
  <2>15. CASE NetStopAdvertising
    BY <1>0, <2>15 DEF Flags, NetStopAdvertising, NetAt, Try, Fault, TypeOK, Packets, agent, dynamics, network, timing, observer, broadcast
  <2>16. CASE NetStopScan
    BY <1>0, <2>16 DEF Flags, NetStopScan, NetAt, Fault, TypeOK, Packets, agent, dynamics, network, timing, observer, broadcast
  <2>17. CASE NetForget
    BY <1>0, <2>17 DEF Flags, NetForget, NetAt, TypeOK, Packets, agent, dynamics, network, timing, observer, broadcast
  <2>18. CASE DynTick
    BY <2>18 DEF DynTick, TypeOK, Packets, agent, dynamics, network, timing, observer, broadcast
  <2>19. CASE NetTick
    BY <2>19 DEF NetTick, TypeOK, Packets, agent, dynamics, network, timing, observer, broadcast
  <2>20. CASE Hear
    BY <2>20 DEF Hear, TypeOK, Packets, agent, dynamics, network, timing, observer, broadcast
  <2>21. CASE ApplyNetwork
    BY <2>21 DEF ApplyNetwork, HostMay, TypeOK, Packets, agent, dynamics, network, timing, observer, broadcast
  <2>22. CASE ApplyTrigger
    BY <2>22 DEF ApplyTrigger, HostMay, Settled, TypeOK, Packets, agent, dynamics, network, timing, observer, broadcast
  <2>23. CASE ApplyStop
    BY <1>0, <2>23 DEF Flags, ApplyStop, HostMay, TypeOK, Packets, agent, dynamics, network, timing, observer, broadcast
  <2>24. CASE ApplyRadio
    BY <1>0, <2>24 DEF Flags, ApplyRadio, Try, Fault, HostMay, TypeOK, Packets, agent, dynamics, network, timing, observer, broadcast
  <2>25. CASE RestartClear
    BY <1>0, <2>25 DEF Flags, RestartClear, TypeOK, Packets, agent, dynamics, network, timing, observer, broadcast
  <2>26. CASE RestartScan
    BY <1>0, <2>26 DEF Flags, RestartScan, Try, Fault, StartScanner, TypeOK, Packets, agent, dynamics, network, timing, observer, broadcast
  <2>27. QED
    BY <2>1, <2>2, <2>3, <2>4, <2>5, <2>6, <2>7, <2>8, <2>9, <2>10, <2>11, <2>12, <2>13, <2>14, <2>15, <2>16, <2>17, <2>18, <2>19, <2>20, <2>21, <2>22, <2>23, <2>24, <2>25, <2>26, <1>2 DEF Next, Dynamics, Network, Interrupts, Frames
<1>3. QED
  BY <1>1, <1>2

(* The board starts within TypeOK.                                         *)
LEMMA InitType == Init => TypeOK
<1> SUFFICES ASSUME Init PROVE TypeOK
  OBVIOUS
<1>1. Flags
  BY Zenon DEF Init, Flags
<1>2. QED
  BY <1>1, BoardThreadsAssumption DEF Init, Flags, TypeOK, Packets

(* Every behaviour of the board, whatever its host and its radio do, stays *)
(* within TypeOK.                                                          *)
THEOREM TypeCorrect == Spec => []TypeOK
<1>1. Init => TypeOK
  BY InitType
<1>2. QED
  BY <1>1, TypeStep, PTL DEF Spec

-----------------------------------------------------------------------------
\* The network thread is past its timers' stop, or has started none.
TornDown == ~wasRunning \/ netPc \in {"stopAdv", "stopScan", "forget"}

\* Then nothing wakes the dynamics thread, and it is not in a step.
Scheduling == TornDown => ~dynTimer /\ dynSem = 0 /\ dynPc = "wait"

(* What the two loops do to each other: the teardown stops the timer when  *)
(* the dynamics thread is blocked, which it is, no mutex being held, only  *)
(* between two ticks.                                                      *)
LEMMA SchedulingStep == TypeOK /\ Scheduling /\ [Next]_vars => Scheduling'
<1> SUFFICES ASSUME TypeOK, Scheduling, [Next]_vars PROVE Scheduling'
  OBVIOUS
<1>1. CASE UNCHANGED vars
  BY <1>1 DEF Scheduling, TornDown, vars, dynamics, network, timing
<1>2. CASE Next
  <2>1. CASE DynWake
    BY <2>1 DEF DynWake, TypeOK, Scheduling, TornDown, agent, dynamics, network, timing, observer, broadcast
  <2>2. CASE DynRead
    BY <2>2 DEF DynRead, TypeOK, Scheduling, TornDown, agent, dynamics, network, timing, observer, broadcast
  <2>3. CASE DynWrite
    BY <2>3 DEF DynWrite, TypeOK, Scheduling, TornDown, agent, dynamics, network, timing, observer, broadcast
  <2>4. CASE NetWake
    BY <2>4 DEF NetWake, NetAt, DynamicsReady, TypeOK, Scheduling, TornDown, agent, dynamics, network, timing, observer, broadcast
  <2>5. CASE NetBegin
    BY <2>5 DEF NetBegin, NetAt, DynamicsReady, TypeOK, Scheduling, TornDown, agent, dynamics, network, timing, observer, broadcast
  <2>6. CASE NetAdvertise
    BY <2>6 DEF NetAdvertise, NetAt, DynamicsReady, Try, Fault, TypeOK, Scheduling, TornDown, agent, dynamics, network, timing, observer, broadcast
  <2>7. CASE NetObserve
    BY <2>7 DEF NetObserve, NetAt, DynamicsReady, TypeOK, Scheduling, TornDown, agent, dynamics, network, timing, observer, broadcast
  <2>8. CASE NetScan
    BY <2>8 DEF NetScan, NetAt, DynamicsReady, Try, Fault, StartScanner, TypeOK, Scheduling, TornDown, agent, dynamics, network, timing, observer, broadcast
  <2>9. CASE NetTimers
    BY <2>9 DEF NetTimers, NetAt, DynamicsReady, TypeOK, Scheduling, TornDown, agent, dynamics, network, timing, observer, broadcast
  <2>10. CASE NetReport
    BY <2>10 DEF NetReport, NetAt, DynamicsReady, TypeOK, Scheduling, TornDown, agent, dynamics, network, timing, observer, broadcast
  <2>11. CASE NetCount
    BY <2>11 DEF NetCount, NetAt, DynamicsReady, TypeOK, Scheduling, TornDown, agent, dynamics, network, timing, observer, broadcast
  <2>12. CASE NetStamp
    BY <2>12 DEF NetStamp, NetAt, DynamicsReady, TypeOK, Scheduling, TornDown, agent, dynamics, network, timing, observer, broadcast
  <2>13. CASE NetUpdate
    BY <2>13 DEF NetUpdate, NetAt, DynamicsReady, Try, Fault, TypeOK, Scheduling, TornDown, agent, dynamics, network, timing, observer, broadcast
  <2>14. CASE NetStopTimers
    BY <2>14 DEF NetStopTimers, NetAt, DynamicsReady, TypeOK, Scheduling, TornDown, agent, dynamics, network, timing, observer, broadcast
  <2>15. CASE NetStopAdvertising
    BY <2>15 DEF NetStopAdvertising, NetAt, DynamicsReady, Try, Fault, TypeOK, Scheduling, TornDown, agent, dynamics, network, timing, observer, broadcast
  <2>16. CASE NetStopScan
    BY <2>16 DEF NetStopScan, NetAt, DynamicsReady, Fault, TypeOK, Scheduling, TornDown, agent, dynamics, network, timing, observer, broadcast
  <2>17. CASE NetForget
    BY <2>17 DEF NetForget, NetAt, DynamicsReady, TypeOK, Scheduling, TornDown, agent, dynamics, network, timing, observer, broadcast
  <2>18. CASE DynTick
    BY <2>18 DEF DynTick, TypeOK, Scheduling, TornDown, agent, dynamics, network, timing, observer, broadcast
  <2>19. CASE NetTick
    BY <2>19 DEF NetTick, TypeOK, Scheduling, TornDown, agent, dynamics, network, timing, observer, broadcast
  <2>20. CASE Hear
    BY <2>20 DEF Hear, TypeOK, Scheduling, TornDown, agent, dynamics, network, timing, observer, broadcast
  <2>21. CASE ApplyNetwork
    BY <2>21 DEF ApplyNetwork, HostMay, TypeOK, Scheduling, TornDown, agent, dynamics, network, timing, observer, broadcast
  <2>22. CASE ApplyTrigger
    BY <2>22 DEF ApplyTrigger, HostMay, Settled, TypeOK, Scheduling, TornDown, agent, dynamics, network, timing, observer, broadcast
  <2>23. CASE ApplyStop
    BY <2>23 DEF ApplyStop, HostMay, TypeOK, Scheduling, TornDown, agent, dynamics, network, timing, observer, broadcast
  <2>24. CASE ApplyRadio
    BY <2>24 DEF ApplyRadio, Try, Fault, HostMay, TypeOK, Scheduling, TornDown, agent, dynamics, network, timing, observer, broadcast
  <2>25. CASE RestartClear
    BY <2>25 DEF RestartClear, TypeOK, Scheduling, TornDown, agent, dynamics, network, timing, observer, broadcast
  <2>26. CASE RestartScan
    BY <2>26 DEF RestartScan, Try, Fault, StartScanner, TypeOK, Scheduling, TornDown, agent, dynamics, network, timing, observer, broadcast
  <2>27. QED
    BY <2>1, <2>2, <2>3, <2>4, <2>5, <2>6, <2>7, <2>8, <2>9, <2>10, <2>11, <2>12, <2>13, <2>14, <2>15, <2>16, <2>17, <2>18, <2>19, <2>20, <2>21, <2>22, <2>23, <2>24, <2>25, <2>26, <1>2 DEF Next, Dynamics, Network, Interrupts, Frames
<1>3. QED
  BY <1>1, <1>2

\* What a step in progress will write, and what has been latched, belong to the
\* run the board is in.
LatchInv ==
  /\ LatchedHolds
  /\ dynPc = "step" => x = law
  /\ netPc = "stamp" => packet.run = seq.run

(* The trigger of a board at rest meets no step in progress.               *)
LEMMA LatchStep ==
  ASSUME ~Unstopped, ~Hasty, TypeOK, Scheduling, LatchInv, [Next]_vars
  PROVE  LatchInv'
<1>1. CASE UNCHANGED vars
  BY <1>1 DEF LatchInv, LatchedHolds, vars, agent, dynamics, network
<1>2. CASE Next
  <2>1. CASE DynWake
    BY <2>1 DEF DynWake, TypeOK, Packets, Scheduling, TornDown, LatchInv, LatchedHolds, agent, dynamics, network, timing, observer, broadcast
  <2>2. CASE DynRead
    BY <2>2 DEF DynRead, TypeOK, Packets, Scheduling, TornDown, LatchInv, LatchedHolds, agent, dynamics, network, timing, observer, broadcast
  <2>3. CASE DynWrite
    BY <2>3 DEF DynWrite, TypeOK, Packets, Scheduling, TornDown, LatchInv, LatchedHolds, agent, dynamics, network, timing, observer, broadcast
  <2>4. CASE NetWake
    BY <2>4 DEF NetWake, NetAt, TypeOK, Packets, Scheduling, TornDown, LatchInv, LatchedHolds, agent, dynamics, network, timing, observer, broadcast
  <2>5. CASE NetBegin
    BY <2>5 DEF NetBegin, NetAt, TypeOK, Packets, Scheduling, TornDown, LatchInv, LatchedHolds, agent, dynamics, network, timing, observer, broadcast
  <2>6. CASE NetAdvertise
    BY <2>6 DEF NetAdvertise, NetAt, Try, Fault, TypeOK, Packets, Scheduling, TornDown, LatchInv, LatchedHolds, agent, dynamics, network, timing, observer, broadcast
  <2>7. CASE NetObserve
    BY <2>7 DEF NetObserve, NetAt, TypeOK, Packets, Scheduling, TornDown, LatchInv, LatchedHolds, agent, dynamics, network, timing, observer, broadcast
  <2>8. CASE NetScan
    BY <2>8 DEF NetScan, NetAt, Try, Fault, StartScanner, TypeOK, Packets, Scheduling, TornDown, LatchInv, LatchedHolds, agent, dynamics, network, timing, observer, broadcast
  <2>9. CASE NetTimers
    BY <2>9 DEF NetTimers, NetAt, TypeOK, Packets, Scheduling, TornDown, LatchInv, LatchedHolds, agent, dynamics, network, timing, observer, broadcast
  <2>10. CASE NetReport
    BY <2>10 DEF NetReport, NetAt, TypeOK, Packets, Scheduling, TornDown, LatchInv, LatchedHolds, agent, dynamics, network, timing, observer, broadcast
  <2>11. CASE NetCount
    BY <2>11 DEF NetCount, NetAt, TypeOK, Packets, Scheduling, TornDown, LatchInv, LatchedHolds, agent, dynamics, network, timing, observer, broadcast
  <2>12. CASE NetStamp
    BY <2>12 DEF NetStamp, NetAt, TypeOK, Packets, Scheduling, TornDown, LatchInv, LatchedHolds, agent, dynamics, network, timing, observer, broadcast
  <2>13. CASE NetUpdate
    BY <2>13 DEF NetUpdate, NetAt, Try, Fault, TypeOK, Packets, Scheduling, TornDown, LatchInv, LatchedHolds, agent, dynamics, network, timing, observer, broadcast
  <2>14. CASE NetStopTimers
    BY <2>14 DEF NetStopTimers, NetAt, TypeOK, Packets, Scheduling, TornDown, LatchInv, LatchedHolds, agent, dynamics, network, timing, observer, broadcast
  <2>15. CASE NetStopAdvertising
    BY <2>15 DEF NetStopAdvertising, NetAt, Try, Fault, TypeOK, Packets, Scheduling, TornDown, LatchInv, LatchedHolds, agent, dynamics, network, timing, observer, broadcast
  <2>16. CASE NetStopScan
    BY <2>16 DEF NetStopScan, NetAt, Fault, TypeOK, Packets, Scheduling, TornDown, LatchInv, LatchedHolds, agent, dynamics, network, timing, observer, broadcast
  <2>17. CASE NetForget
    BY <2>17 DEF NetForget, NetAt, TypeOK, Packets, Scheduling, TornDown, LatchInv, LatchedHolds, agent, dynamics, network, timing, observer, broadcast
  <2>18. CASE DynTick
    BY <2>18 DEF DynTick, TypeOK, Packets, Scheduling, TornDown, LatchInv, LatchedHolds, agent, dynamics, network, timing, observer, broadcast
  <2>19. CASE NetTick
    BY <2>19 DEF NetTick, TypeOK, Packets, Scheduling, TornDown, LatchInv, LatchedHolds, agent, dynamics, network, timing, observer, broadcast
  <2>20. CASE Hear
    BY <2>20 DEF Hear, TypeOK, Packets, Scheduling, TornDown, LatchInv, LatchedHolds, agent, dynamics, network, timing, observer, broadcast
  <2>21. CASE ApplyNetwork
    BY <2>21 DEF ApplyNetwork, HostMay, TypeOK, Packets, Scheduling, TornDown, LatchInv, LatchedHolds, agent, dynamics, network, timing, observer, broadcast
  <2>22. CASE ApplyTrigger
    BY <2>22 DEF ApplyTrigger, HostMay, Settled, TypeOK, Packets, Scheduling, TornDown, LatchInv, LatchedHolds, agent, dynamics, network, timing, observer, broadcast
  <2>23. CASE ApplyStop
    BY <2>23 DEF ApplyStop, HostMay, TypeOK, Packets, Scheduling, TornDown, LatchInv, LatchedHolds, agent, dynamics, network, timing, observer, broadcast
  <2>24. CASE ApplyRadio
    BY <2>24 DEF ApplyRadio, Try, Fault, HostMay, TypeOK, Packets, Scheduling, TornDown, LatchInv, LatchedHolds, agent, dynamics, network, timing, observer, broadcast
  <2>25. CASE RestartClear
    BY <2>25 DEF RestartClear, TypeOK, Packets, Scheduling, TornDown, LatchInv, LatchedHolds, agent, dynamics, network, timing, observer, broadcast
  <2>26. CASE RestartScan
    BY <2>26 DEF RestartScan, Try, Fault, StartScanner, TypeOK, Packets, Scheduling, TornDown, LatchInv, LatchedHolds, agent, dynamics, network, timing, observer, broadcast
  <2>27. QED
    BY <2>1, <2>2, <2>3, <2>4, <2>5, <2>6, <2>7, <2>8, <2>9, <2>10, <2>11, <2>12, <2>13, <2>14, <2>15, <2>16, <2>17, <2>18, <2>19, <2>20, <2>21, <2>22, <2>23, <2>24, <2>25, <2>26, <1>2 DEF Next, Dynamics, Network, Interrupts, Frames
<1>3. QED
  BY <1>1, <1>2

-----------------------------------------------------------------------------
\* Where the network thread is in a run, and in its teardown.
Phases ==
  /\ running => netPc \notin {"stopTimers", "stopAdv", "stopScan", "forget"}
  /\ first => ~wasRunning /\ netPc \in {"wait", "begin"}
  /\ netPc \in {"begin", "advertise", "observe", "scan", "timers"} => ~wasRunning
  /\ netPc \in {"report", "publish", "stamp", "update",
                "stopTimers", "stopAdv", "stopScan", "forget"} => wasRunning
  /\ running => \/ first \/ wasRunning
                \/ netPc \in {"advertise", "observe", "scan", "timers"}

(* A trigger of a board at rest finds the network thread waiting.          *)
LEMMA PhasesStep ==
  ASSUME ~Unstopped, ~Hasty, TypeOK, Phases, [Next]_vars
  PROVE  Phases'
<1> USE DEF TypeOK, Phases
<1>1. CASE UNCHANGED vars
  BY <1>1 DEF vars, agent, dynamics, network, timing, observer, broadcast
<1>2. CASE Dynamics
  BY <1>2 DEF Dynamics, DynWake, DynRead, DynWrite, agent, dynamics, network, timing, observer, broadcast
<1>3. CASE Interrupts
  BY <1>3 DEF Interrupts, DynTick, NetTick, Hear, agent, dynamics, network, timing, observer, broadcast
<1>4. CASE Network
  <2>1. CASE NetWake
    BY <2>1 DEF NetWake, NetAt, agent, dynamics, network, timing, observer, broadcast
  <2>2. CASE NetBegin
    BY <2>2 DEF NetBegin, NetAt, agent, dynamics, network, timing, observer, broadcast
  <2>3. CASE NetAdvertise
    BY <2>3 DEF NetAdvertise, NetAt, Try, Fault, agent, dynamics, network, timing, observer, broadcast
  <2>4. CASE NetObserve
    BY <2>4 DEF NetObserve, NetAt, agent, dynamics, network, timing, observer, broadcast
  <2>5. CASE NetScan
    BY <2>5 DEF NetScan, NetAt, Try, Fault, StartScanner, agent, dynamics, network, timing, observer, broadcast
  <2>6. CASE NetTimers
    BY <2>6 DEF NetTimers, NetAt, agent, dynamics, network, timing, observer, broadcast
  <2>7. CASE NetReport
    BY <2>7 DEF NetReport, NetAt, agent, dynamics, network, timing, observer, broadcast
  <2>8. CASE NetCount
    BY <2>8 DEF NetCount, NetAt, agent, dynamics, network, timing, observer, broadcast
  <2>9. CASE NetStamp
    BY <2>9 DEF NetStamp, NetAt, agent, dynamics, network, timing, observer, broadcast
  <2>10. CASE NetUpdate
    BY <2>10 DEF NetUpdate, NetAt, Try, Fault, agent, dynamics, network, timing, observer, broadcast
  <2>11. CASE NetStopTimers
    BY <2>11 DEF NetStopTimers, NetAt, agent, dynamics, network, timing, observer, broadcast
  <2>12. CASE NetStopAdvertising
    BY <2>12 DEF NetStopAdvertising, NetAt, Try, Fault, agent, dynamics, network, timing, observer, broadcast
  <2>13. CASE NetStopScan
    BY <2>13 DEF NetStopScan, NetAt, Fault, agent, dynamics, network, timing, observer, broadcast
  <2>14. CASE NetForget
    BY <2>14 DEF NetForget, NetAt, agent, dynamics, network, timing, observer, broadcast
  <2>15. QED
    BY <1>4, <2>1, <2>2, <2>3, <2>4, <2>5, <2>6, <2>7, <2>8, <2>9, <2>10, <2>11, <2>12, <2>13, <2>14 DEF Network
<1>5. CASE Frames
  <2>1. CASE ApplyNetwork
    BY <2>1 DEF ApplyNetwork, agent, dynamics, network, timing, observer, broadcast
  <2>2. CASE ApplyTrigger
    BY <2>2 DEF ApplyTrigger, HostMay, Settled, agent, dynamics, network, timing, observer, broadcast
  <2>3. CASE ApplyStop
    BY <2>3 DEF ApplyStop, HostMay, agent, dynamics, network, timing, observer, broadcast
  <2>4. CASE ApplyRadio
    BY <2>4 DEF ApplyRadio, HostMay, Settled, Try, Fault, agent, dynamics, network, timing, observer, broadcast
  <2>5. CASE RestartClear
    BY <2>5 DEF RestartClear, agent, dynamics, network, timing, observer, broadcast
  <2>6. CASE RestartScan
    BY <2>6 DEF RestartScan, Try, Fault, StartScanner, agent, dynamics, network, timing, observer, broadcast
  <2>7. QED
    BY <1>5, <2>1, <2>2, <2>3, <2>4, <2>5, <2>6 DEF Frames
<1>6. QED
  BY <1>1, <1>2, <1>3, <1>4, <1>5 DEF Next

\* What the radio is told to do it does; info and queue are empty until then.
Obeyed ==
  faults = 0 =>
    /\ ~wasRunning /\ netPc \in {"wait", "begin", "advertise"} => ~advertising
    /\ netPc \in {"stopScan", "forget"} => ~advertising
    /\ ~wasRunning /\ netPc \in {"wait", "begin", "advertise", "observe", "scan"}
         => ~scanner /\ ~scanning /\ info = 0 /\ queue = 0
    /\ restart = "no" /\ (netPc = "timers" \/ (wasRunning /\ netPc # "forget"))
         => scanner /\ scanning
    /\ netPc = "forget" => ~scanner
    /\ restart # "no" => ~scanner /\ running /\ (wasRunning \/ netPc = "timers")
    /\ restart = "start" => ~scanning

(* No stop comes while the scanner is being restarted, so the teardown      *)
(* finds it on, and forgets the run.                                       *)
LEMMA ObeyedStep ==
  ASSUME ~Unstopped, ~Hasty, TypeOK, Phases, Obeyed, [Next]_vars
  PROVE  Obeyed'
<1> USE DEF TypeOK, Phases, Obeyed
<1>1. CASE UNCHANGED vars
  BY <1>1 DEF vars, agent, dynamics, network, timing, observer, broadcast
<1>2. CASE Dynamics
  BY <1>2 DEF Dynamics, DynWake, DynRead, DynWrite, agent, dynamics, network, timing, observer, broadcast
<1>3. CASE Interrupts
  BY <1>3 DEF Interrupts, DynTick, NetTick, Hear, agent, dynamics, network, timing, observer, broadcast
<1>4. CASE Network
  <2>1. CASE NetWake
    BY <2>1 DEF NetWake, NetAt, agent, dynamics, network, timing, observer, broadcast
  <2>2. CASE NetBegin
    BY <2>2 DEF NetBegin, NetAt, agent, dynamics, network, timing, observer, broadcast
  <2>3. CASE NetAdvertise
    BY <2>3 DEF NetAdvertise, NetAt, Try, Fault, agent, dynamics, network, timing, observer, broadcast
  <2>4. CASE NetObserve
    BY <2>4 DEF NetObserve, NetAt, agent, dynamics, network, timing, observer, broadcast
  <2>5. CASE NetScan
    BY <2>5 DEF NetScan, NetAt, Try, Fault, StartScanner, agent, dynamics, network, timing, observer, broadcast
  <2>6. CASE NetTimers
    BY <2>6 DEF NetTimers, NetAt, agent, dynamics, network, timing, observer, broadcast
  <2>7. CASE NetReport
    BY <2>7 DEF NetReport, NetAt, agent, dynamics, network, timing, observer, broadcast
  <2>8. CASE NetCount
    BY <2>8 DEF NetCount, NetAt, agent, dynamics, network, timing, observer, broadcast
  <2>9. CASE NetStamp
    BY <2>9 DEF NetStamp, NetAt, agent, dynamics, network, timing, observer, broadcast
  <2>10. CASE NetUpdate
    BY <2>10 DEF NetUpdate, NetAt, Try, Fault, agent, dynamics, network, timing, observer, broadcast
  <2>11. CASE NetStopTimers
    BY <2>11 DEF NetStopTimers, NetAt, agent, dynamics, network, timing, observer, broadcast
  <2>12. CASE NetStopAdvertising
    BY <2>12 DEF NetStopAdvertising, NetAt, Try, Fault, agent, dynamics, network, timing, observer, broadcast
  <2>13. CASE NetStopScan
    <3>1. CASE Fault
      BY <2>13, <3>1 DEF NetStopScan, NetAt, Fault, agent, dynamics, network, timing, observer, broadcast
    <3>2. CASE ~Fault
      <4>1. faults = 0 => scanner /\ scanning /\ ~advertising /\ restart = "no"
        BY <2>13 DEF NetStopScan, NetAt
      <4>2. faults' = faults
        BY <2>13, <3>2, Zenon DEF NetStopScan
      <4>3. restart' = restart /\ advertising' = advertising
        BY <2>13, Zenon DEF NetStopScan, agent, dynamics, network, timing, observer, broadcast
      <4>4. faults = 0 => netPc' = "forget" /\ ~scanner'
        BY <2>13, <3>2, <4>1 DEF NetStopScan
      <4>5. faults = 0 => ~advertising'
        BY <4>1, <4>3
      <4>6. QED
        BY <4>1, <4>2, <4>3, <4>4, <4>5
    <3>3. QED
      BY <3>1, <3>2
  <2>14. CASE NetForget
    BY <2>14 DEF NetForget, NetAt, agent, dynamics, network, timing, observer, broadcast
  <2>15. QED
    BY <1>4, <2>1, <2>2, <2>3, <2>4, <2>5, <2>6, <2>7, <2>8, <2>9, <2>10, <2>11, <2>12, <2>13, <2>14 DEF Network
<1>5. CASE Frames
  <2>1. CASE ApplyNetwork
    BY <2>1 DEF ApplyNetwork, agent, dynamics, network, timing, observer, broadcast
  <2>2. CASE ApplyTrigger
    BY <2>2 DEF ApplyTrigger, HostMay, Settled, agent, dynamics, network, timing, observer, broadcast
  <2>3. CASE ApplyStop
    BY <2>3 DEF ApplyStop, HostMay, agent, dynamics, network, timing, observer, broadcast
  <2>4. CASE ApplyRadio
    BY <2>4 DEF ApplyRadio, HostMay, Settled, Try, Fault, agent, dynamics, network, timing, observer, broadcast
  <2>5. CASE RestartClear
    BY <2>5 DEF RestartClear, agent, dynamics, network, timing, observer, broadcast
  <2>6. CASE RestartScan
    BY <2>6 DEF RestartScan, Try, Fault, StartScanner, agent, dynamics, network, timing, observer, broadcast
  <2>7. QED
    BY <1>5, <2>1, <2>2, <2>3, <2>4, <2>5, <2>6 DEF Frames
<1>6. QED
  BY <1>1, <1>2, <1>3, <1>4, <1>5 DEF Next

\* Whatever may still reach the law was heard in this run.
Heard ==
  faults = 0 =>
    /\ info \in {0, run} /\ queue \in {0, run} /\ absorbed \in {0, run}
    /\ dynPc # "wait" => taken \in {0, run}

(* A trigger of a board at rest finds nothing heard.                       *)
LEMMA HeardStep ==
  ASSUME ~Unstopped, ~Hasty, TypeOK, Scheduling, Obeyed, Heard, [Next]_vars
  PROVE  Heard'
<1> USE DEF TypeOK, Scheduling, TornDown, Obeyed, Heard
<1>1. CASE UNCHANGED vars
  BY <1>1 DEF vars, agent, dynamics, network, timing, observer, broadcast
<1>2. CASE Dynamics
  BY <1>2 DEF Dynamics, DynWake, DynRead, DynWrite, agent, dynamics, network, timing, observer, broadcast
<1>3. CASE Interrupts
  BY <1>3 DEF Interrupts, DynTick, NetTick, Hear, agent, dynamics, network, timing, observer, broadcast
<1>4. CASE Network
  <2>1. CASE NetWake
    BY <2>1 DEF NetWake, NetAt, agent, dynamics, network, timing, observer, broadcast
  <2>2. CASE NetBegin
    BY <2>2 DEF NetBegin, NetAt, agent, dynamics, network, timing, observer, broadcast
  <2>3. CASE NetAdvertise
    BY <2>3 DEF NetAdvertise, NetAt, Try, Fault, agent, dynamics, network, timing, observer, broadcast
  <2>4. CASE NetObserve
    BY <2>4 DEF NetObserve, NetAt, agent, dynamics, network, timing, observer, broadcast
  <2>5. CASE NetScan
    BY <2>5 DEF NetScan, NetAt, Try, Fault, StartScanner, agent, dynamics, network, timing, observer, broadcast
  <2>6. CASE NetTimers
    BY <2>6 DEF NetTimers, NetAt, agent, dynamics, network, timing, observer, broadcast
  <2>7. CASE NetReport
    BY <2>7 DEF NetReport, NetAt, agent, dynamics, network, timing, observer, broadcast
  <2>8. CASE NetCount
    BY <2>8 DEF NetCount, NetAt, agent, dynamics, network, timing, observer, broadcast
  <2>9. CASE NetStamp
    BY <2>9 DEF NetStamp, NetAt, agent, dynamics, network, timing, observer, broadcast
  <2>10. CASE NetUpdate
    BY <2>10 DEF NetUpdate, NetAt, Try, Fault, agent, dynamics, network, timing, observer, broadcast
  <2>11. CASE NetStopTimers
    BY <2>11 DEF NetStopTimers, NetAt, agent, dynamics, network, timing, observer, broadcast
  <2>12. CASE NetStopAdvertising
    BY <2>12 DEF NetStopAdvertising, NetAt, Try, Fault, agent, dynamics, network, timing, observer, broadcast
  <2>13. CASE NetStopScan
    BY <2>13 DEF NetStopScan, NetAt, Fault, agent, dynamics, network, timing, observer, broadcast
  <2>14. CASE NetForget
    BY <2>14 DEF NetForget, NetAt, agent, dynamics, network, timing, observer, broadcast
  <2>15. QED
    BY <1>4, <2>1, <2>2, <2>3, <2>4, <2>5, <2>6, <2>7, <2>8, <2>9, <2>10, <2>11, <2>12, <2>13, <2>14 DEF Network
<1>5. CASE Frames
  <2>1. CASE ApplyNetwork
    BY <2>1 DEF ApplyNetwork, agent, dynamics, network, timing, observer, broadcast
  <2>2. CASE ApplyTrigger
    BY <2>2 DEF ApplyTrigger, HostMay, Settled, agent, dynamics, network, timing, observer, broadcast
  <2>3. CASE ApplyStop
    BY <2>3 DEF ApplyStop, HostMay, agent, dynamics, network, timing, observer, broadcast
  <2>4. CASE ApplyRadio
    BY <2>4 DEF ApplyRadio, HostMay, Settled, Try, Fault, agent, dynamics, network, timing, observer, broadcast
  <2>5. CASE RestartClear
    BY <2>5 DEF RestartClear, agent, dynamics, network, timing, observer, broadcast
  <2>6. CASE RestartScan
    BY <2>6 DEF RestartScan, Try, Fault, StartScanner, agent, dynamics, network, timing, observer, broadcast
  <2>7. QED
    BY <1>5, <2>1, <2>2, <2>3, <2>4, <2>5, <2>6 DEF Frames
<1>6. QED
  BY <1>1, <1>2, <1>3, <1>4, <1>5 DEF Next

\* In a run that has begun, the packet on the air is of that run.
OnAirInRun ==
  running /\ ~first /\ faults = 0 /\ advertising /\ netPc # "advertise"
    => onAir.run = run

\* The packet in hand, and the one on the air, are of the run.
OnAir ==
  /\ running /\ netPc \in {"advertise", "stamp", "update"} => packet.run = run
  /\ OnAirInRun

(* A run finds the transmitter off, so its first packet is advertised.     *)
LEMMA OnAirStep ==
  ASSUME ~Unstopped, ~Hasty, TypeOK, Phases, Obeyed, LatchInv, OnAir, [Next]_vars
  PROVE  OnAir'
<1> USE DEF TypeOK, Packets, Phases, Obeyed, LatchInv, LatchedHolds, OnAir, OnAirInRun
<1>1. CASE UNCHANGED vars
  BY <1>1 DEF vars, agent, dynamics, network, timing, observer, broadcast
<1>2. CASE Dynamics
  BY <1>2 DEF Dynamics, DynWake, DynRead, DynWrite, agent, dynamics, network, timing, observer, broadcast
<1>3. CASE Interrupts
  BY <1>3 DEF Interrupts, DynTick, NetTick, Hear, agent, dynamics, network, timing, observer, broadcast
<1>4. CASE Network
  <2>1. CASE NetWake
    BY <2>1 DEF NetWake, NetAt, agent, dynamics, network, timing, observer, broadcast
  <2>2. CASE NetBegin
    BY <2>2 DEF NetBegin, NetAt, agent, dynamics, network, timing, observer, broadcast
  <2>3. CASE NetAdvertise
    BY <2>3 DEF NetAdvertise, NetAt, Try, Fault, agent, dynamics, network, timing, observer, broadcast
  <2>4. CASE NetObserve
    BY <2>4 DEF NetObserve, NetAt, agent, dynamics, network, timing, observer, broadcast
  <2>5. CASE NetScan
    BY <2>5 DEF NetScan, NetAt, Try, Fault, StartScanner, agent, dynamics, network, timing, observer, broadcast
  <2>6. CASE NetTimers
    BY <2>6 DEF NetTimers, NetAt, agent, dynamics, network, timing, observer, broadcast
  <2>7. CASE NetReport
    BY <2>7 DEF NetReport, NetAt, agent, dynamics, network, timing, observer, broadcast
  <2>8. CASE NetCount
    BY <2>8 DEF NetCount, NetAt, agent, dynamics, network, timing, observer, broadcast
  <2>9. CASE NetStamp
    BY <2>9 DEF NetStamp, NetAt, agent, dynamics, network, timing, observer, broadcast
  <2>10. CASE NetUpdate
    BY <2>10 DEF NetUpdate, NetAt, Try, Fault, agent, dynamics, network, timing, observer, broadcast
  <2>11. CASE NetStopTimers
    BY <2>11 DEF NetStopTimers, NetAt, agent, dynamics, network, timing, observer, broadcast
  <2>12. CASE NetStopAdvertising
    BY <2>12 DEF NetStopAdvertising, NetAt, Try, Fault, agent, dynamics, network, timing, observer, broadcast
  <2>13. CASE NetStopScan
    BY <2>13 DEF NetStopScan, NetAt, Fault, agent, dynamics, network, timing, observer, broadcast
  <2>14. CASE NetForget
    BY <2>14 DEF NetForget, NetAt, agent, dynamics, network, timing, observer, broadcast
  <2>15. QED
    BY <1>4, <2>1, <2>2, <2>3, <2>4, <2>5, <2>6, <2>7, <2>8, <2>9, <2>10, <2>11, <2>12, <2>13, <2>14 DEF Network
<1>5. CASE Frames
  <2>1. CASE ApplyNetwork
    BY <2>1 DEF ApplyNetwork, agent, dynamics, network, timing, observer, broadcast
  <2>2. CASE ApplyTrigger
    BY <2>2 DEF ApplyTrigger, HostMay, Settled, agent, dynamics, network, timing, observer, broadcast
  <2>3. CASE ApplyStop
    BY <2>3 DEF ApplyStop, HostMay, agent, dynamics, network, timing, observer, broadcast
  <2>4. CASE ApplyRadio
    BY <2>4 DEF ApplyRadio, HostMay, Settled, Try, Fault, agent, dynamics, network, timing, observer, broadcast
  <2>5. CASE RestartClear
    BY <2>5 DEF RestartClear, agent, dynamics, network, timing, observer, broadcast
  <2>6. CASE RestartScan
    BY <2>6 DEF RestartScan, Try, Fault, StartScanner, agent, dynamics, network, timing, observer, broadcast
  <2>7. QED
    BY <1>5, <2>1, <2>2, <2>3, <2>4, <2>5, <2>6 DEF Frames
<1>6. QED
  BY <1>1, <1>2, <1>3, <1>4, <1>5 DEF Next

\* The numbers counted are of the last run, started or not, stopped or not, and
\* the packet in hand is the last one counted.
Fresh ==
  /\ seq.run = run
  /\ netPc \in {"advertise", "update"} => packet = seq
  /\ netPc = "stamp" => packet = [seq EXCEPT !.n = @ + 1]

(* A trigger of a board at rest finds no packet in hand.                   *)
LEMMA FreshStep ==
  ASSUME ~Unstopped, ~Hasty, TypeOK, Phases, Fresh, [Next]_vars
  PROVE  Fresh'
<1> USE DEF TypeOK, Packets, Phases, Fresh
<1>1. CASE UNCHANGED vars
  BY <1>1 DEF vars, agent, dynamics, network, timing, observer, broadcast
<1>2. CASE Dynamics
  BY <1>2 DEF Dynamics, DynWake, DynRead, DynWrite, agent, dynamics, network, timing, observer, broadcast
<1>3. CASE Interrupts
  BY <1>3 DEF Interrupts, DynTick, NetTick, Hear, agent, dynamics, network, timing, observer, broadcast
<1>4. CASE Network
  <2>1. CASE NetWake
    BY <2>1 DEF NetWake, NetAt, agent, dynamics, network, timing, observer, broadcast
  <2>2. CASE NetBegin
    BY <2>2 DEF NetBegin, NetAt, agent, dynamics, network, timing, observer, broadcast
  <2>3. CASE NetAdvertise
    BY <2>3 DEF NetAdvertise, NetAt, Try, Fault, agent, dynamics, network, timing, observer, broadcast
  <2>4. CASE NetObserve
    BY <2>4 DEF NetObserve, NetAt, agent, dynamics, network, timing, observer, broadcast
  <2>5. CASE NetScan
    BY <2>5 DEF NetScan, NetAt, Try, Fault, StartScanner, agent, dynamics, network, timing, observer, broadcast
  <2>6. CASE NetTimers
    BY <2>6 DEF NetTimers, NetAt, agent, dynamics, network, timing, observer, broadcast
  <2>7. CASE NetReport
    BY <2>7 DEF NetReport, NetAt, agent, dynamics, network, timing, observer, broadcast
  <2>8. CASE NetCount
    BY <2>8 DEF NetCount, NetAt, agent, dynamics, network, timing, observer, broadcast
  <2>9. CASE NetStamp
    BY <2>9 DEF NetStamp, NetAt, agent, dynamics, network, timing, observer, broadcast
  <2>10. CASE NetUpdate
    BY <2>10 DEF NetUpdate, NetAt, Try, Fault, agent, dynamics, network, timing, observer, broadcast
  <2>11. CASE NetStopTimers
    BY <2>11 DEF NetStopTimers, NetAt, agent, dynamics, network, timing, observer, broadcast
  <2>12. CASE NetStopAdvertising
    BY <2>12 DEF NetStopAdvertising, NetAt, Try, Fault, agent, dynamics, network, timing, observer, broadcast
  <2>13. CASE NetStopScan
    BY <2>13 DEF NetStopScan, NetAt, Fault, agent, dynamics, network, timing, observer, broadcast
  <2>14. CASE NetForget
    BY <2>14 DEF NetForget, NetAt, agent, dynamics, network, timing, observer, broadcast
  <2>15. QED
    BY <1>4, <2>1, <2>2, <2>3, <2>4, <2>5, <2>6, <2>7, <2>8, <2>9, <2>10, <2>11, <2>12, <2>13, <2>14 DEF Network
<1>5. CASE Frames
  <2>1. CASE ApplyNetwork
    BY <2>1 DEF ApplyNetwork, agent, dynamics, network, timing, observer, broadcast
  <2>2. CASE ApplyTrigger
    BY <2>2 DEF ApplyTrigger, HostMay, Settled, agent, dynamics, network, timing, observer, broadcast
  <2>3. CASE ApplyStop
    BY <2>3 DEF ApplyStop, HostMay, Settled, agent, dynamics, network, timing, observer, broadcast
  <2>4. CASE ApplyRadio
    BY <2>4 DEF ApplyRadio, HostMay, Settled, Try, Fault, agent, dynamics, network, timing, observer, broadcast
  <2>5. CASE RestartClear
    BY <2>5 DEF RestartClear, agent, dynamics, network, timing, observer, broadcast
  <2>6. CASE RestartScan
    BY <2>6 DEF RestartScan, Try, Fault, StartScanner, agent, dynamics, network, timing, observer, broadcast
  <2>7. QED
    BY <1>5, <2>1, <2>2, <2>3, <2>4, <2>5, <2>6 DEF Frames
<1>6. QED
  BY <1>1, <1>2, <1>3, <1>4, <1>5 DEF Next

-----------------------------------------------------------------------------
\* The inductive invariant of the whole.
IInv ==
  TypeOK /\ Scheduling /\ LatchInv /\ Phases /\ Obeyed /\ Heard /\ OnAir /\ Fresh

(* A host that stops a board before it triggers it, and waits for the stop, *)
(* keeps IInv.                                                             *)
LEMMA Inductive == ~Unstopped /\ ~Hasty /\ Spec => []IInv
<1>1. Init => IInv
  BY InitType DEF IInv, Init, Scheduling, LatchInv, LatchedHolds, Phases, Obeyed,
                  Heard, OnAir, OnAirInRun, Fresh
<1>2. ~Unstopped /\ ~Hasty /\ IInv /\ [Next]_vars => IInv'
  BY TypeStep, SchedulingStep, LatchStep, PhasesStep, ObeyedStep, HeardStep, OnAirStep, FreshStep
     DEF IInv
<1>3. CASE ~Unstopped /\ ~Hasty
  BY <1>1, <1>2, <1>3, PTL DEF Spec
<1>4. QED
  BY <1>3

(* A run integrates and counts from what its own trigger latched, for any  *)
(* number of runs and radio failures, when no trigger reaches a running    *)
(* board and the host waits for a stop.                                    *)
THEOREM RunsFromLatched == ~Unstopped /\ ~Hasty /\ Spec => []LatchedHolds
<1>1. IInv => LatchedHolds
  BY DEF IInv, LatchInv
<1>2. QED
  BY <1>1, Inductive, PTL

(* The law reads nothing of the run before, with the same host and a radio *)
(* that does as it is told.                                                *)
THEOREM RunsHearTheirOwn == ~Unstopped /\ ~Hasty /\ Spec => []HeardInRun
<1>1. IInv => HeardInRun
  BY DEF IInv, Heard, HeardInRun
<1>2. QED
  BY <1>1, Inductive, PTL

(* The board is silent once the network thread has seen its stop.          *)
THEOREM StoppedIsSilent == ~Unstopped /\ ~Hasty /\ Spec => []SilentAtRest
<1>1. IInv => SilentAtRest
  BY DEF IInv, TypeOK, Scheduling, TornDown, Obeyed, SilentAtRest, Settled
<1>2. QED
  BY <1>1, Inductive, PTL

(* A run never advertises the packet of another.                           *)
THEOREM RunsAdvertiseTheirOwn == ~Unstopped /\ ~Hasty /\ Spec => []OnAirInRun
<1>1. IInv => OnAirInRun
  BY DEF IInv, OnAir
<1>2. QED
  BY <1>1, Inductive, PTL

-----------------------------------------------------------------------------
(* The threads implement BoardRun.                                         *)

(* A step that changes neither the stage, nor the count, nor the air, is a *)
(* refusal or nothing.                                                     *)
LEMMA Unseen ==
  ASSUME TypeOK, TypeOK', Stage' = Stage, run' = run, seq' = seq, Air' = Air,
         faults' = faults \/ Fault
  PROVE  [Abstract!Next]_(Abstract!vars)
<1>1. CASE faults' = faults
  BY <1>1 DEF Abstract!vars
<1>2. CASE Fault
  <2>1. faults' > 0
    BY <1>2 DEF Fault, TypeOK
  <2>2. Abstract!Refuse
    BY <2>1 DEF Abstract!Refuse
  <2> QED BY <2>2 DEF Abstract!Next
<1> QED BY <1>1, <1>2

(* What each step that is seen outside is of the run.                      *)
LEMMA StepRefines ==
  ASSUME ~Unstopped, ~Hasty, IInv, [Next]_vars
  PROVE  [Abstract!Next]_(Abstract!vars)
<1> USE DEF IInv
<1>0. TypeOK'
  BY TypeStep
<1> DEFINE Same == Stage' = Stage /\ run' = run /\ seq' = seq /\ Air' = Air
                   /\ (faults' = faults \/ Fault)
<1>s. Same => [Abstract!Next]_(Abstract!vars)
  BY <1>0, Unseen
<1>1. CASE UNCHANGED vars
  <2>1. Same
    BY <1>1 DEF vars, Stage, Settled, Air, agent, dynamics, network, timing, observer, broadcast
  <2> QED BY <1>s, <2>1
<1>2. CASE Dynamics
  <2>1. Same
    BY <1>2 DEF Dynamics, DynWake, DynRead, DynWrite, Stage, Settled, Air, agent, dynamics, network, timing, observer, broadcast
  <2> QED BY <1>s, <2>1
<1>3. CASE Interrupts
  <2>1. Same
    BY <1>3 DEF Interrupts, DynTick, NetTick, Hear, Stage, Settled, Air, agent, dynamics, network, timing, observer, broadcast
  <2> QED BY <1>s, <2>1
<1>4. CASE Network
  <2>1. CASE NetWake
    <3>1. Same
      BY <2>1 DEF NetWake, NetAt, TypeOK, Phases, Stage, Settled, Air, agent, dynamics, network, timing, observer, broadcast
    <3> QED BY <1>s, <3>1
  <2>2. CASE NetBegin
    <3>1. Same
      BY <2>2 DEF NetBegin, NetAt, TypeOK, Phases, Stage, Settled, Air, agent, dynamics, network, timing, observer, broadcast
    <3> QED BY <1>s, <3>1
  <2>3. CASE NetObserve
    <3>1. Same
      BY <2>3 DEF NetObserve, NetAt, TypeOK, Phases, Stage, Settled, Air, agent, dynamics, network, timing, observer, broadcast
    <3> QED BY <1>s, <3>1
  <2>4. CASE NetScan
    <3>1. Same
      BY <2>4 DEF NetScan, NetAt, Try, Fault, StartScanner, TypeOK, Phases, Stage, Settled, Air, agent, dynamics, network, timing, observer, broadcast
    <3> QED BY <1>s, <3>1
  <2>5. CASE NetTimers
    <3>1. Same
      BY <2>5 DEF NetTimers, NetAt, TypeOK, Phases, Stage, Settled, Air, agent, dynamics, network, timing, observer, broadcast
    <3> QED BY <1>s, <3>1
  <2>6. CASE NetReport
    <3>1. Same
      BY <2>6 DEF NetReport, NetAt, TypeOK, Phases, Stage, Settled, Air, agent, dynamics, network, timing, observer, broadcast
    <3> QED BY <1>s, <3>1
  <2>7. CASE NetCount
    <3>1. Same
      BY <2>7 DEF NetCount, NetAt, TypeOK, Phases, Stage, Settled, Air, agent, dynamics, network, timing, observer, broadcast
    <3> QED BY <1>s, <3>1
  <2>8. CASE NetStopTimers
    <3>1. Same
      BY <2>8 DEF NetStopTimers, NetAt, TypeOK, Phases, Stage, Settled, Air, agent, dynamics, network, timing, observer, broadcast
    <3> QED BY <1>s, <3>1
  <2>9. CASE NetAdvertise
    <3>1. Stage' = Stage /\ run' = run /\ seq' = seq /\ Stage # "rest" /\ packet = seq
      BY <2>9 DEF NetAdvertise, NetAt, Stage, Settled, Fresh, agent, dynamics, network, timing, observer, broadcast
    <3>2. \/ Air' = Air /\ (faults' = faults \/ Fault)
          \/ Air' = {packet} /\ faults' = faults
      BY <2>9 DEF NetAdvertise, Try, Air, TypeOK, broadcast
    <3>3. CASE Air' = {packet} /\ faults' = faults
      <4>1. Abstract!Send
        BY <3>1, <3>3 DEF Abstract!Send, Abstract!Last, TypeOK, Packets, Fresh
      <4> QED BY <4>1 DEF Abstract!Next
    <3> QED BY <1>s, <3>1, <3>2, <3>3
  <2>10. CASE NetStamp
    <3>1. /\ Stage' = Stage /\ run' = run /\ Air' = Air /\ faults' = faults /\ Stage # "rest"
          /\ seq'.n = seq.n + 1
      BY <2>10 DEF NetStamp, NetAt, Stage, Settled, Air, Fresh, TypeOK, Packets, agent, dynamics, network, timing, observer, broadcast
    <3>2. Abstract!Count
      BY <3>1 DEF Abstract!Count
    <3> QED BY <3>2 DEF Abstract!Next
  <2>11. CASE NetUpdate
    <3>1. Stage' = Stage /\ run' = run /\ seq' = seq /\ Stage # "rest" /\ packet = seq
      BY <2>11 DEF NetUpdate, NetAt, Stage, Settled, Fresh, Phases, agent, dynamics, network, timing, observer, broadcast
    <3>2. \/ Air' = Air /\ (faults' = faults \/ Fault)
          \/ Air' = {packet} /\ faults' = faults
      BY <2>11 DEF NetUpdate, Try, Air, TypeOK, broadcast
    <3>3. CASE Air' = {packet} /\ faults' = faults
      <4>1. Abstract!Send
        BY <3>1, <3>3 DEF Abstract!Send, Abstract!Last, TypeOK, Packets, Fresh
      <4> QED BY <4>1 DEF Abstract!Next
    <3> QED BY <1>s, <3>1, <3>2, <3>3
  <2>12. CASE NetStopAdvertising
    <3>1. Stage' = Stage /\ run' = run /\ seq' = seq /\ Stage = "stopping"
      BY <2>12 DEF NetStopAdvertising, NetAt, Stage, Settled, Phases, agent, dynamics, network, timing, observer, broadcast
    <3>2. \/ Air' = Air /\ (faults' = faults \/ Fault)
          \/ Air' = {} /\ faults' = faults
      BY <2>12 DEF NetStopAdvertising, Try, Air, TypeOK, broadcast
    <3>3. CASE Air' = {} /\ faults' = faults
      <4>1. Abstract!Silence
        BY <3>1, <3>3 DEF Abstract!Silence
      <4> QED BY <4>1 DEF Abstract!Next
    <3> QED BY <1>s, <3>1, <3>2, <3>3
  <2>13. CASE NetStopScan
    <3>1. /\ Stage = "stopping" /\ run' = run /\ seq' = seq /\ Air' = Air
          /\ faults' = faults \/ Fault
      BY <2>13 DEF NetStopScan, NetAt, Stage, Settled, Phases, Air, agent, dynamics, network, timing, observer, broadcast
    <3>2. Stage' \in {"stopping", "rest"} /\ (Air = {} \/ faults' > 0)
      BY <2>13, <3>1 DEF NetStopScan, NetAt, Stage, Settled, Phases, Air, Obeyed, Fault, TypeOK, agent, dynamics, network, timing, observer, broadcast
    <3>3. CASE Stage' = "rest"
      <4>1. (faults' > 0) = (faults > 0) \/ (faults' > 0) = TRUE
        BY <3>1 DEF Fault, TypeOK
      <4>2. (faults' > 0) \in {(faults > 0), TRUE}
        BY <4>1, Zenon
      <4>3. Abstract!Rest
        BY <3>1, <3>2, <3>3, <4>2, Zenon DEF Abstract!Rest
      <4> QED BY <4>3 DEF Abstract!Next
    <3> QED BY <1>s, <3>1, <3>2, <3>3
  <2>14. CASE NetForget
    <3>1. /\ Stage = "stopping" /\ Stage' = "rest" /\ run' = run /\ seq' = seq /\ Air' = Air
          /\ faults' = faults
      BY <2>14 DEF NetForget, NetAt, Stage, Settled, Phases, Air, agent, dynamics, network, timing, observer, broadcast
    <3>2. Air = {} \/ faults' > 0
      BY <2>14, <3>1 DEF NetForget, NetAt, Air, Obeyed, TypeOK
    <3>3. Abstract!Rest
      BY <3>1, <3>2 DEF Abstract!Rest
    <3> QED BY <3>3 DEF Abstract!Next
  <2>15. QED
    BY <1>4, <2>1, <2>2, <2>3, <2>4, <2>5, <2>6, <2>7, <2>8, <2>9, <2>10, <2>11, <2>12, <2>13, <2>14 DEF Network
<1>5. CASE Frames
  <2>1. CASE ApplyNetwork
    <3>1. Same
      BY <2>1 DEF ApplyNetwork, Stage, Settled, Air, agent, dynamics, network, timing, observer, broadcast
    <3> QED BY <1>s, <3>1
  <2>2. CASE ApplyTrigger
    <3>1. /\ Stage = "rest" /\ Stage' = "run" /\ run' = run + 1 /\ seq'.n = 0
          /\ Air' = Air /\ faults' = faults
      BY <2>2 DEF ApplyTrigger, HostMay, Stage, Settled, Air, TypeOK, agent, dynamics, network, timing, observer, broadcast
    <3>2. Abstract!Trigger
      BY <3>1 DEF Abstract!Trigger
    <3> QED BY <3>2 DEF Abstract!Next
  <2>3. CASE ApplyStop
    <3>1. run' = run /\ seq' = seq /\ Air' = Air /\ faults' = faults
      BY <2>3 DEF ApplyStop, Air, agent, dynamics, network, timing, observer, broadcast
    <3>2. CASE running
      <4>1. Stage = "run" /\ Stage' \in {"rest", "stopping"}
        BY <2>3, <3>2 DEF ApplyStop, Stage, Settled, TypeOK
      <4>2. Stage' = "rest" => Air = {} \/ faults > 0
        BY <2>3 DEF ApplyStop, Stage, Settled, Air, Obeyed, TypeOK, agent, dynamics, network, timing, observer, broadcast
      <4>3. Abstract!Stop
        BY <3>1, <4>1, <4>2 DEF Abstract!Stop
      <4> QED BY <4>3 DEF Abstract!Next
    <3>3. CASE ~running
      <4>1. Same
        BY <2>3, <3>1, <3>3 DEF ApplyStop, Stage, Settled, TypeOK, agent, dynamics, network, timing, observer, broadcast
      <4> QED BY <1>s, <4>1
    <3> QED BY <3>2, <3>3
  <2>4. CASE ApplyRadio
    <3>1. Same
      BY <2>4 DEF ApplyRadio, Try, Stage, Settled, Air, agent, dynamics, network, timing, observer, broadcast
    <3> QED BY <1>s, <3>1
  <2>5. CASE RestartClear
    <3>1. Same
      BY <2>5 DEF RestartClear, Stage, Settled, Air, agent, dynamics, network, timing, observer, broadcast
    <3> QED BY <1>s, <3>1
  <2>6. CASE RestartScan
    <3>1. Same
      BY <2>6 DEF RestartScan, Try, StartScanner, Stage, Settled, Air, agent, dynamics, network, timing, observer, broadcast
    <3> QED BY <1>s, <3>1
  <2>7. QED
    BY <1>5, <2>1, <2>2, <2>3, <2>4, <2>5, <2>6 DEF Frames
<1>6. QED
  BY <1>1, <1>2, <1>3, <1>4, <1>5 DEF Next

(* The packet on the air is, from the trigger to the end of the teardown,  *)
(* the last one that run counted, and a board at rest whose radio obeyed   *)
(* has none on the air: for any number of runs, packets and refusals, when *)
(* the host stops a board before it triggers it, and waits for the stop    *)
(* (main.c, network_fetching_thread).                                      *)
THEOREM ThreadsImplementBoardRun == ~Unstopped /\ ~Hasty /\ Spec => ImplementsBoardRun
<1>1. Init => Abstract!Init
  BY DEF Init, Abstract!Init, Stage, Settled, Air
<1>2. ~Unstopped /\ ~Hasty /\ IInv /\ [Next]_vars => [Abstract!Next]_(Abstract!vars)
  BY StepRefines
<1>3. CASE ~Unstopped /\ ~Hasty
  BY <1>1, <1>2, <1>3, Inductive, PTL DEF Spec, ImplementsBoardRun, Abstract!Spec
<1>4. QED
  BY <1>3
=============================================================================
