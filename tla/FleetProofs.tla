---------------------------- MODULE FleetProofs -----------------------------
(***************************************************************************)
(* What holds of a series of runs for any fleet, any number of runs,       *)
(* events and failures, and however late an abandoned call is executed:    *)
(* type correctness, the barrier, and that Fleet implements RunBarrier;    *)
(* and before it, for whoever composes with the agents: every step of an   *)
(* agent preserves AgentTypeOK.  The second half is about what happens     *)
(* within one run.                                                         *)
(***************************************************************************)
EXTENDS Fleet, TLAPS

-----------------------------------------------------------------------------
(* What an action leaves alone keeps its type.                             *)

LEMMA ConfigurationKept ==
  ConfigurationOK /\ UNCHANGED <<identity, pristine>> => ConfigurationOK'
BY DEF ConfigurationOK, identity

LEMMA TasksKept ==
  TasksOK /\ UNCHANGED <<tasks, board, runName>> => TasksOK'
BY DEF TasksOK, tasks

LEMMA LogsKept == LogsOK /\ UNCHANGED logs => LogsOK'
BY DEF LogsOK, logs

-----------------------------------------------------------------------------
(* What the steps of a handler are made of.                                *)

LEMMA RequestType ==
  ASSUME WireOK, NEW n \in Nodes, NEW req \in inbox[n] \cup parked[n]
  PROVE  /\ req \in Request
         /\ req.id \in Ids
         /\ req.cmd = "configure" => req.cfg \in Configs
         /\ req.cmd \in {"start", "meta", "rows"} => req.run \in Runs
BY DEF WireOK, Request

LEMMA TakeType ==
  ASSUME WireOK, NEW n \in Nodes, NEW req, NEW cmd, Take(n, req, cmd)
  PROVE  inbox' \in [Nodes -> SUBSET Request]
BY DEF WireOK, Take

LEMMA ResumeType ==
  ASSUME WireOK, NEW n \in Nodes, NEW req, NEW cmd, Resume(n, req, cmd)
  PROVE  parked' \in [Nodes -> SUBSET Request]
BY DEF WireOK, Resume

LEMMA ParkType ==
  ASSUME WireOK, NEW n \in Nodes, NEW req \in Request, Park(n, req)
  PROVE  parked' \in [Nodes -> SUBSET Request]
BY DEF WireOK, Park

LEMMA RespondType ==
  ASSUME WireOK, NEW n \in Nodes, NEW req, NEW rep \in Reply,
         Respond(n, req, rep)
  PROVE  outbox' \in [Nodes -> Reply \cup {None}]
BY DEF WireOK, Respond

LEMMA ReplyTypes ==
  /\ Good \in Reply /\ Bad \in Reply
  /\ \A s \in BOOLEAN : Stopped(s) \in Reply
  /\ \A s \in SUBSET Setting : Blob(s) \in Reply
BY DEF Good, Bad, Stopped, Blob, Reply

LEMMA FaultType == WireOK /\ Fault => faults' \in 0 .. MaxFaults
BY AgentAssumption DEF WireOK, Fault

LEMMA WireType ==
  ASSUME inbox' \in [Nodes -> SUBSET Request],
         parked' \in [Nodes -> SUBSET Request],
         outbox' \in [Nodes -> Reply \cup {None}],
         faults' \in 0 .. MaxFaults,
         WireOK, UNCHANGED clientVars
  PROVE  WireOK'
BY DEF WireOK, clientVars

LEMMA OpenLogType ==
  ASSUME LogsOK, NEW n \in Nodes, NEW r \in Runs, OpenLog(n, r)
  PROVE  LogsOK'
<1>1. /\ logRun' \in [Nodes -> Runs \cup {None}]
      /\ logOpen' \in [Nodes -> BOOLEAN]
      /\ \A m \in Nodes : logOpen'[m] => logRun'[m] \in Runs
  BY DEF LogsOK, OpenLog
<1>2. /\ made' \in [Nodes -> SUBSET Runs]
      /\ rows' \in [Nodes -> [Runs -> SUBSET Setting]]
  BY DEF LogsOK, OpenLog
<1> QED
  BY <1>1, <1>2 DEF LogsOK, OpenLog

LEMMA AppendType ==
  ASSUME LogsOK, NEW n \in Nodes, logOpen[n], NEW c \in Setting, Append(n, c)
  PROVE  rows' \in [Nodes -> [Runs -> SUBSET Setting]]
BY DEF LogsOK, Append

LEMMA FinalizeType ==
  ASSUME LogsOK, NEW n \in Nodes, Finalize(n)
  PROVE  LogsOK'
<1>1. /\ logOpen' \in [Nodes -> BOOLEAN]
      /\ \A m \in Nodes : logOpen'[m] => logRun'[m] \in Runs
  BY DEF LogsOK, Finalize
<1>2. final' \in [Nodes -> SUBSET Runs]
  BY DEF LogsOK, Finalize
<1> QED
  BY <1>1, <1>2 DEF LogsOK, Finalize

LEMMA FinalizeFailsType ==
  ASSUME LogsOK, NEW n \in Nodes, FinalizeFails(n)
  PROVE  LogsOK'
BY DEF LogsOK, FinalizeFails

-----------------------------------------------------------------------------
(* A handler that only answers.                                            *)

LEMMA AnswerType ==
  ASSUME AgentTypeOK, NEW n \in Nodes, NEW req, NEW cmd, NEW rep \in Reply,
         Take(n, req, cmd), Respond(n, req, rep),
         UNCHANGED <<identity, pristine, tasks, board, runName, logs, parked,
                     clientVars>>,
         Fault \/ UNCHANGED faults
  PROVE  AgentTypeOK'
<1> USE DEF AgentTypeOK
<1>1. ConfigurationOK' /\ TasksOK' /\ LogsOK'
  BY ConfigurationKept, TasksKept, LogsKept
<1>2. WireOK'
  BY TakeType, RespondType, FaultType, WireType DEF WireOK
<1> QED
  BY <1>1, <1>2
-----------------------------------------------------------------------------
(* The handlers.                                                           *)

LEMMA ConfigureType ==
  ASSUME AgentTypeOK, NEW n \in Nodes, NEW req \in inbox[n] \cup parked[n],
         Configure(n, req) \/ ConfigureFails(n, req)
  PROVE  AgentTypeOK'
<1> USE DEF AgentTypeOK
<1>1. req.cfg \in Configs
  BY RequestType DEF Configure, ConfigureFails, Take
<1>2. CASE Configure(n, req)
  <2>1. ConfigurationOK'
    BY <1>1, <1>2 DEF ConfigurationOK, Configure, Setting
  <2>2. TasksOK'
    BY <1>2 DEF ConfigurationOK, TasksOK, Configure
  <2>3. LogsOK'
    BY <1>2, LogsKept DEF Configure
  <2>4. WireOK'
    BY <1>2, TakeType, RespondType, ReplyTypes, WireType DEF Configure, WireOK
  <2> QED
    BY <2>1, <2>2, <2>3, <2>4
<1>3. CASE ConfigureFails(n, req)
  <2>1. ConfigurationOK'
    BY <1>1, <1>3 DEF ConfigurationOK, ConfigureFails, Setting
  <2>2. TasksOK' /\ LogsOK'
    BY <1>3, TasksKept, LogsKept DEF ConfigureFails
  <2>3. WireOK'
    BY <1>3, TakeType, RespondType, ReplyTypes, FaultType, WireType
    DEF ConfigureFails, WireOK
  <2> QED
    BY <2>1, <2>2, <2>3
<1> QED
  BY <1>2, <1>3

LEMMA StartType ==
  ASSUME AgentTypeOK, NEW n \in Nodes, NEW req \in inbox[n] \cup parked[n],
         \/ StartRefused(n, req)   \/ StartRelay(n, req)
         \/ StartRelayFails(n, req)
         \/ StartLocal(n, req)     \/ StartLocalDone(n, req)
         \/ StartLocalFails(n, req)
  PROVE  AgentTypeOK'
<1> USE DEF AgentTypeOK
<1>1. req \in Request /\ req.run \in Runs
  BY RequestType DEF StartRefused, StartRelay, StartRelayFails, StartLocal,
     StartLocalDone, StartLocalFails, Take, Resume
<1>2. CASE StartRefused(n, req)
  BY <1>2, AnswerType, ReplyTypes DEF StartRefused
<1>3. CASE StartRelay(n, req)
  <2>1. ConfigurationOK' /\ TasksOK'
    BY <1>1, <1>3 DEF StartRelay, ConfigurationOK, TasksOK, identity, tasks
  <2>2. LogsOK'
    BY <1>1, <1>3, OpenLogType DEF StartRelay
  <2>3. WireOK'
    BY <1>3, TakeType, RespondType, ReplyTypes, WireType DEF StartRelay, WireOK
  <2> QED
    BY <2>1, <2>2, <2>3
<1>4. CASE StartRelayFails(n, req)
  <2>1. ConfigurationOK' /\ TasksOK'
    BY <1>4 DEF StartRelayFails, ConfigurationOK, TasksOK, identity, tasks
  <2>2. LogsOK'
    BY <1>1, <1>4, OpenLogType DEF StartRelayFails
  <2>3. WireOK'
    BY <1>4, TakeType, RespondType, ReplyTypes, FaultType, WireType
    DEF StartRelayFails, WireOK
  <2> QED
    BY <2>1, <2>2, <2>3
<1>5. CASE StartLocal(n, req)
  <2>1. ConfigurationOK' /\ TasksOK'
    BY <1>5, ConfigurationKept, TasksKept DEF StartLocal
  <2>2. LogsOK'
    BY <1>1, <1>5, OpenLogType DEF StartLocal
  <2>3. WireOK'
    BY <1>1, <1>5, TakeType, ParkType, WireType DEF StartLocal, WireOK
  <2> QED
    BY <2>1, <2>2, <2>3
<1>6. CASE StartLocalDone(n, req)
  <2>1. ConfigurationOK' /\ LogsOK'
    BY <1>6, ConfigurationKept, LogsKept DEF StartLocalDone
  <2>2. TasksOK'
    BY <1>1, <1>6 DEF StartLocalDone, TasksOK
  <2>3. WireOK'
    BY <1>6, ResumeType, RespondType, ReplyTypes, WireType
    DEF StartLocalDone, WireOK
  <2> QED
    BY <2>1, <2>2, <2>3
<1>7. CASE StartLocalFails(n, req)
  <2>1. ConfigurationOK' /\ TasksOK' /\ LogsOK'
    BY <1>7, ConfigurationKept, TasksKept, LogsKept DEF StartLocalFails
  <2>2. WireOK'
    BY <1>7, ResumeType, RespondType, ReplyTypes, FaultType, WireType
    DEF StartLocalFails, WireOK
  <2> QED
    BY <2>1, <2>2
<1> QED
  BY <1>2, <1>3, <1>4, <1>5, <1>6, <1>7

LEMMA StopType ==
  ASSUME AgentTypeOK, NEW n \in Nodes, NEW req \in inbox[n] \cup parked[n],
         \/ StopIdle(n, req)        \/ StopRelay(n, req)
         \/ StopRelayFails(n, req)  \/ StopLocal(n, req)
         \/ StopLocalDone(n, req)   \/ StopLocalFails(n, req)
  PROVE  AgentTypeOK'
<1> USE DEF AgentTypeOK
<1>1. req \in Request
  BY RequestType
<1>2. \A b \in BOOLEAN : Stopped(b /\ HasSamples(n)) \in Reply
  BY ReplyTypes DEF HasSamples
<1>3. Stopped(HasSamples(n)) \in Reply
  BY ReplyTypes DEF HasSamples
<1>4. CASE StopIdle(n, req)
  BY <1>2, <1>4, AnswerType DEF StopIdle
<1>5. CASE StopRelay(n, req)
  <2>1. ConfigurationOK'
    BY <1>5, ConfigurationKept DEF StopRelay
  <2>2. TasksOK'
    BY <1>5 DEF StopRelay, TasksOK, tasks
  <2>3. LogsOK'
    BY <1>5, FinalizeType DEF StopRelay
  <2>4. WireOK'
    BY <1>3, <1>5, TakeType, RespondType, FaultType, WireType
    DEF StopRelay, StopRelayFails, WireOK
  <2> QED
    BY <2>1, <2>2, <2>3, <2>4
<1>6. CASE StopLocal(n, req)
  <2>1. ConfigurationOK' /\ LogsOK'
    BY <1>6, ConfigurationKept, LogsKept DEF StopLocal
  <2>2. TasksOK'
    BY <1>6 DEF StopLocal, TasksOK
  <2>3. WireOK'
    BY <1>1, <1>6, TakeType, ParkType, WireType DEF StopLocal, WireOK
  <2> QED
    BY <2>1, <2>2, <2>3
<1>7. CASE StopLocalDone(n, req)
  <2>1. ConfigurationOK'
    BY <1>7, ConfigurationKept DEF StopLocalDone
  <2>2. TasksOK'
    BY <1>7 DEF StopLocalDone, StopLocalFails, TasksOK
  <2>3. LogsOK'
    BY <1>7, FinalizeType DEF StopLocalDone
  <2>4. WireOK'
    BY <1>3, <1>7, ResumeType, RespondType, WireType DEF StopLocalDone, StopLocalFails, WireOK
  <2> QED
    BY <2>1, <2>2, <2>3, <2>4
<1>8. CASE StopRelayFails(n, req)
  <2>1. ConfigurationOK'
    BY <1>8, ConfigurationKept DEF StopRelayFails
  <2>2. TasksOK'
    BY <1>8 DEF StopRelayFails, TasksOK, tasks
  <2>3. LogsOK'
    BY <1>8, FinalizeFailsType DEF StopRelayFails
  <2>4. WireOK'
    BY <1>8, TakeType, RespondType, ReplyTypes, FaultType, WireType
    DEF StopRelayFails, WireOK
  <2> QED
    BY <2>1, <2>2, <2>3, <2>4
<1>9. CASE StopLocalFails(n, req)
  <2>1. ConfigurationOK'
    BY <1>9, ConfigurationKept DEF StopLocalFails
  <2>2. TasksOK'
    BY <1>9 DEF StopLocalFails, TasksOK
  <2>3. LogsOK'
    BY <1>9, FinalizeFailsType DEF StopLocalFails
  <2>4. WireOK'
    BY <1>9, ResumeType, RespondType, ReplyTypes, FaultType, WireType
    DEF StopLocalFails, WireOK
  <2> QED
    BY <2>1, <2>2, <2>3, <2>4
<1> QED
  BY <1>4, <1>5, <1>6, <1>7, <1>8, <1>9

LEMMA FetchType ==
  ASSUME AgentTypeOK, NEW n \in Nodes, NEW req \in inbox[n] \cup parked[n],
         FetchMeta(n, req) \/ FetchRows(n, req) \/ FetchRefused(n, req)
  PROVE  AgentTypeOK'
<1>1. CASE FetchMeta(n, req)
  BY <1>1, AnswerType, ReplyTypes DEF FetchMeta
<1>2. CASE FetchRows(n, req)
  <2>1. req.run \in Runs
    BY <1>2, RequestType DEF FetchRows, Take, AgentTypeOK
  <2>2. PICK s \in OnDisk(n, req.run) : Respond(n, req, Blob(s))
    BY <1>2 DEF FetchRows
  <2>3. s \in SUBSET Setting
    BY <2>1 DEF OnDisk, AgentTypeOK, LogsOK
  <2> QED
    BY <1>2, <2>2, <2>3, AnswerType, ReplyTypes DEF FetchRows
<1>3. CASE FetchRefused(n, req)
  BY <1>3, AnswerType, ReplyTypes DEF FetchRefused
<1> QED
  BY <1>1, <1>2, <1>3

-----------------------------------------------------------------------------
(* What runs between the commands.                                         *)

LEMMA LawType ==
  ASSUME AgentTypeOK, NEW n \in Nodes,
         \/ ControlStep(n) \/ ControlStepRaises(n) \/ StrayStep(n)
         \/ BoardReport(n)
  PROVE  AgentTypeOK'
<1> USE DEF AgentTypeOK
<1>1. CASE ControlStep(n)
  <2>1. ConfigurationOK' /\ TasksOK'
    BY <1>1 DEF ControlStep, ConfigurationOK, TasksOK, identity, tasks
  <2>2. rows' \in [Nodes -> [Runs -> SUBSET Setting]]
    BY <1>1, AppendType DEF ControlStep, ConfigurationOK
  <2>3. LogsOK'
    BY <1>1, <2>2 DEF ControlStep, LogsOK
  <2>4. WireOK'
    BY <1>1 DEF ControlStep, WireOK, clientVars
  <2> QED
    BY <2>1, <2>3, <2>4
<1>2. CASE ControlStepRaises(n)
  <2>1. ConfigurationOK'
    BY <1>2 DEF ControlStepRaises, ConfigurationOK, identity
  <2>2. TasksOK'
    BY <1>2 DEF ControlStepRaises, TasksOK
  <2>3. LogsOK'
    BY <1>2, LogsKept DEF ControlStepRaises
  <2>4. WireOK'
    BY <1>2, FaultType, WireType DEF ControlStepRaises, WireOK
  <2> QED
    BY <2>1, <2>2, <2>3, <2>4
<1>3. CASE StrayStep(n)
  <2>1. PICK c \in strays[n] :
          IF logOpen[n] THEN Append(n, c) /\ UNCHANGED strays
          ELSE strays' = [strays EXCEPT ![n] = @ \ {c}] /\ UNCHANGED rows
    BY <1>3 DEF StrayStep
  <2>2. c \in Setting
    BY DEF TasksOK
  <2>3. ConfigurationOK' /\ TasksOK'
    BY <1>3, <2>1 DEF StrayStep, ConfigurationOK, TasksOK, identity
  <2>4. rows' \in [Nodes -> [Runs -> SUBSET Setting]]
    BY <2>1, <2>2, AppendType DEF LogsOK
  <2>5. LogsOK'
    BY <1>3, <2>4 DEF StrayStep, LogsOK
  <2>6. WireOK'
    BY <1>3 DEF StrayStep, WireOK, clientVars
  <2> QED
    BY <2>3, <2>5, <2>6
<1>4. CASE BoardReport(n)
  <2>1. ConfigurationOK' /\ TasksOK'
    BY <1>4 DEF BoardReport, ConfigurationOK, TasksOK, identity, tasks
  <2>2. rows' \in [Nodes -> [Runs -> SUBSET Setting]]
    BY <1>4, AppendType DEF BoardReport, ConfigurationOK, LogsOK
  <2>3. LogsOK'
    BY <1>4, <2>2 DEF BoardReport, LogsOK
  <2>4. WireOK'
    BY <1>4, FaultType, WireType DEF BoardReport, WireOK
  <2> QED
    BY <2>1, <2>3, <2>4
<1> QED
  BY <1>1, <1>2, <1>3, <1>4

LEMMA RestartType ==
  ASSUME AgentTypeOK, NEW n \in Nodes, Restart(n)
  PROVE  AgentTypeOK'
<1> USE DEF AgentTypeOK
<1>1. ConfigurationOK' /\ TasksOK'
  BY DEF Restart, ConfigurationOK, TasksOK, Setting
<1>2. rows' \in [Nodes -> [Runs -> SUBSET Setting]]
  <2>1. CASE logOpen[n]
    <3>1. PICK s \in SUBSET rows[n][logRun[n]] :
            rows' = [rows EXCEPT ![n][logRun[n]] = s]
      BY <2>1 DEF Restart
    <3>2. logRun[n] \in Runs /\ s \in SUBSET Setting
      BY <2>1 DEF LogsOK
    <3> QED
      BY <3>1, <3>2 DEF LogsOK
  <2>2. CASE ~logOpen[n]
    BY <2>2 DEF Restart, LogsOK
  <2> QED
    BY <2>1, <2>2
<1>3. LogsOK'
  BY <1>2 DEF Restart, LogsOK
<1>4. WireOK'
  BY FaultType DEF Restart, WireOK
<1> QED
  BY <1>1, <1>3, <1>4

-----------------------------------------------------------------------------
\* Whatever an agent is asked, and whatever fails in it, its state keeps the
\* types its handlers rely on (AgentService).
THEOREM AgentStepType ==
  ASSUME AgentTypeOK, NEW n \in Nodes, AgentNext(n)
  PROVE  AgentTypeOK'
<1>1. CASE Serve(n)
  <2>1. PICK req \in inbox[n] \cup parked[n] : Handle(n, req)
    BY <1>1 DEF Serve
  <2> QED
    BY <2>1, ConfigureType, StartType, StopType, FetchType DEF Handle
<1>2. CASE ControlStep(n) \/ ControlStepRaises(n) \/ StrayStep(n) \/ BoardReport(n)
  BY <1>2, LawType
<1>3. CASE Restart(n)
  BY <1>3, RestartType
<1> QED
  BY <1>1, <1>2, <1>3 DEF AgentNext

\* The agents start well typed.
THEOREM AgentInitType == AgentInit => AgentTypeOK
<1> SUFFICES ASSUME AgentInit PROVE AgentTypeOK
  OBVIOUS
<1>1. ConfigurationOK /\ TasksOK
  BY DEF AgentInit, ConfigurationOK, TasksOK, Setting
<1>2. LogsOK
  BY DEF AgentInit, LogsOK
<1>3. WireOK
  BY AgentAssumption DEF AgentInit, WireOK
<1> QED
  BY <1>1, <1>2, <1>3 DEF AgentTypeOK

-----------------------------------------------------------------------------
\* An agent takes a run's name only from a start request that reached it, and
\* invents no request (AgentService._start, _stop).
THEOREM AgentStepRun ==
  ASSUME AgentTypeOK, NEW n \in Nodes, AgentNext(n)
  PROVE  /\ \A m \in Nodes :
              inbox'[m] \cup parked'[m] \subseteq inbox[m] \cup parked[m]
         /\ \/ runName' = runName
            \/ runName' = [runName EXCEPT ![n] = None]
            \/ \E req \in inbox[n] \cup parked[n] :
                  /\ req.cmd = "start"
                  /\ runName' = [runName EXCEPT ![n] = req.run]
<1> DEFINE Shrinks == \A m \in Nodes :
                 inbox'[m] \cup parked'[m] \subseteq inbox[m] \cup parked[m]
           Named   == \/ runName' = runName
                      \/ runName' = [runName EXCEPT ![n] = None]
                      \/ \E req \in inbox[n] \cup parked[n] :
                            /\ req.cmd = "start"
                            /\ runName' = [runName EXCEPT ![n] = req.run]
<1> USE DEF AgentTypeOK, WireOK
<1>1. ASSUME NEW req \in inbox[n] \cup parked[n],
             \/ Configure(n, req)    \/ ConfigureFails(n, req)
             \/ StartRefused(n, req) \/ StartRelayFails(n, req)
             \/ StartLocalFails(n, req)
             \/ StopIdle(n, req)
             \/ FetchMeta(n, req)    \/ FetchRows(n, req)
             \/ FetchRefused(n, req)
      PROVE  Shrinks /\ Named
  BY <1>1 DEF Configure, ConfigureFails, StartRefused, StartRelayFails,
     StartLocalFails, StopIdle, FetchMeta, FetchRows, FetchRefused, Take, Resume
<1>2. ASSUME NEW req \in inbox[n] \cup parked[n],
             \/ StartRelay(n, req) \/ StartLocal(n, req)
             \/ StartLocalDone(n, req)
      PROVE  Shrinks /\ Named
  BY <1>2 DEF StartRelay, StartLocal, StartLocalDone, Take, Resume, Park
<1>3. ASSUME NEW req \in inbox[n] \cup parked[n],
             \/ StopRelay(n, req) \/ StopRelayFails(n, req)
             \/ StopLocal(n, req) \/ StopLocalDone(n, req)
             \/ StopLocalFails(n, req)
      PROVE  Shrinks /\ Named
  BY <1>3 DEF StopRelay, StopRelayFails, StopLocal, StopLocalDone, StopLocalFails, Take, Resume, Park
<1>4. CASE ControlStep(n) \/ ControlStepRaises(n) \/ StrayStep(n) \/ BoardReport(n)
  BY <1>4 DEF ControlStep, ControlStepRaises, StrayStep, BoardReport
<1>5. CASE Restart(n)
  BY <1>5 DEF Restart
<1> QED
  BY <1>1, <1>2, <1>3, <1>4, <1>5 DEF AgentNext, Serve, Handle

-----------------------------------------------------------------------------
(* Facts about the constants.                                              *)

LEMMA IdIsNotNone == \A r \in Runs, s \in Steps, k \in 0 .. NumEvents :
                       <<r, s, k>> \in Ids /\ <<r, s, k>> # None
BY FleetAssumption, AgentAssumption

LEMMA ManifestType == Manifest \in [Nodes -> Assignments]
BY FleetAssumption DEF Manifest, Assignments

-----------------------------------------------------------------------------
(* Calls.                                                                  *)

LEMMA CallType ==
  ASSUME AgentTypeOK, run' \in Runs, event' \in 0 .. NumEvents,
         assignments' \in [Nodes -> Assignments],
         NEW S \in SUBSET Nodes, NEW step \in Steps, NEW cmd \in Command,
         NEW on \in [Nodes -> {"none", "open", "stale"}],
         Call(S, step, cmd, on)
  PROVE  /\ inbox' \in [Nodes -> SUBSET Request]
         /\ conn' \in [Nodes -> {"none", "open", "stale"}]
         /\ waiting' \in [Nodes -> Ids \cup {None}]
<1> DEFINE id == <<run', step, event'>>
           req(n) == [id |-> id, cmd |-> cmd,
                      run |-> IF cmd \in {"start", "meta", "rows"} THEN run' ELSE None,
                      cfg |-> IF cmd = "configure" THEN assignments'[n] ELSE None]
<1>1. id \in Ids
  BY IdIsNotNone
<1>2. \A n \in Nodes : req(n) \in Request
  BY <1>1, FleetAssumption DEF Request
<1>3. inbox' = [n \in Nodes |-> IF n \in S /\ on[n] # "stale"
                                THEN inbox[n] \cup {req(n)} ELSE inbox[n]]
  BY DEF Call
<1>4. inbox' \in [Nodes -> SUBSET Request]
  <2> HIDE DEF req
  <2> QED
    BY <1>2, <1>3 DEF AgentTypeOK, WireOK
<1>5. /\ conn' \in [Nodes -> {"none", "open", "stale"}]
      /\ waiting' \in [Nodes -> Ids \cup {None}]
  BY <1>1 DEF Call, AgentTypeOK, WireOK
<1> QED
  BY <1>4, <1>5

(* The agents' own state during a step of the hub.                         *)
LEMMA AgentSideKept ==
  ASSUME AgentTypeOK, UNCHANGED agentSide,
         inbox' \in [Nodes -> SUBSET Request],
         conn' \in [Nodes -> {"none", "open", "stale"}],
         waiting' \in [Nodes -> Ids \cup {None}],
         outbox' \in [Nodes -> Reply \cup {None}],
         faults' \in 0 .. MaxFaults
  PROVE  AgentTypeOK'
<1> USE DEF AgentTypeOK
<1>1. ConfigurationOK' /\ TasksOK' /\ LogsOK'
  BY ConfigurationKept, TasksKept, LogsKept DEF agentSide
<1>2. WireOK'
  BY DEF WireOK, agentSide
<1> QED
  BY <1>1, <1>2

LEMMA CallKeepsAgents ==
  ASSUME AgentTypeOK, run' \in Runs, event' \in 0 .. NumEvents,
         assignments' \in [Nodes -> Assignments],
         NEW S \in SUBSET Nodes, NEW step \in Steps, NEW cmd \in Command,
         Call(S, step, cmd, conn), UnchangedAgents
  PROVE  AgentTypeOK'
<1>1. conn \in [Nodes -> {"none", "open", "stale"}]
  BY DEF AgentTypeOK, WireOK
<1>2. /\ inbox' \in [Nodes -> SUBSET Request]
      /\ conn' \in [Nodes -> {"none", "open", "stale"}]
      /\ waiting' \in [Nodes -> Ids \cup {None}]
  BY <1>1, CallType
<1> QED
  BY <1>2, AgentSideKept DEF UnchangedAgents, AgentTypeOK, WireOK

LEMMA NoCallKeepsAgents ==
  ASSUME AgentTypeOK, NoCall, UnchangedAgents
  PROVE  AgentTypeOK'
BY AgentSideKept DEF NoCall, UnchangedAgents, clientVars, AgentTypeOK, WireOK

-----------------------------------------------------------------------------
(* The outcome of a call.                                                  *)

LEMMA AfterType ==
  ASSUME TypeOK, NEW n \in Nodes, NEW rep \in Reply,
         NEW on \in [Nodes -> {"none", "open", "stale"}],
         After(n, rep, on)
  PROVE  /\ inbox' \in [Nodes -> SUBSET Request]
         /\ conn' \in [Nodes -> {"none", "open", "stale"}]
         /\ waiting' \in [Nodes -> Ids \cup {None}]
         /\ outbox' \in [Nodes -> Reply \cup {None}]
         /\ PlanOK'
         /\ OutcomesOK'
<1> USE DEF TypeOK
<1>1. outbox' \in [Nodes -> Reply \cup {None}]
  BY DEF After, AgentTypeOK, WireOK
<1>2. rep.rows \in SUBSET Setting
  BY DEF Reply
<1>3. ASSUME Returned(n, on)
      PROVE  /\ inbox' \in [Nodes -> SUBSET Request]
             /\ conn' \in [Nodes -> {"none", "open", "stale"}]
             /\ waiting' \in [Nodes -> Ids \cup {None}]
             /\ \A m \in Nodes : waiting'[m] # None => waiting[m] # None
  BY <1>3 DEF Returned, AgentTypeOK, WireOK
<1>4. CASE AfterClear(n, rep, on)
  <2>1. PlanOK' /\ OutcomesOK'
    BY <1>3, <1>4 DEF AfterClear, hubVars, plan, outcomes, PlanOK, OutcomesOK
  <2> QED
    BY <1>1, <1>3, <1>4, <2>1 DEF AfterClear
<1>5. CASE AfterConfigure(n, rep, on)
  <2>1. PlanOK'
    BY <1>3, <1>5 DEF AfterConfigure, plan, PlanOK
  <2>2. OutcomesOK'
    BY <1>5 DEF AfterConfigure, Counts, Fails, OutcomesOK
  <2> QED
    BY <1>1, <1>3, <1>5, <2>1, <2>2 DEF AfterConfigure
<1>6. CASE AfterStart(n, rep, on)
  <2>1. PlanOK'
    BY <1>3, <1>6 DEF AfterStart, plan, PlanOK
  <2>2. OutcomesOK'
    BY <1>6 DEF AfterStart, Counts, Fails, OutcomesOK
  <2> QED
    BY <1>1, <1>3, <1>6, <2>1, <2>2 DEF AfterStart
<1>7. CASE AfterEvent(n, rep, on)
  <2>1. before \in Assignments
    BY <1>7 DEF After, AfterEvent, PlanOK
  <2>2. assignments' \in [Nodes -> Assignments]
    BY <1>7, <2>1 DEF AfterEvent, PlanOK
  <2>3. PlanOK'
    BY <1>3, <1>7, <2>2 DEF AfterEvent, PlanOK
  <2>4. OutcomesOK'
    BY <1>7 DEF AfterEvent, Fails, OutcomesOK
  <2> QED
    BY <1>1, <1>3, <1>7, <2>3, <2>4 DEF AfterEvent
<1>8. CASE AfterStop(n, rep, on)
  <2>1. PlanOK'
    BY <1>3, <1>8 DEF AfterStop, plan, PlanOK
  <2>2. OutcomesOK'
    BY <1>8 DEF AfterStop, Fails, OutcomesOK
  <2> QED
    BY <1>1, <1>3, <1>8, <2>1, <2>2 DEF AfterStop
<1>9. CASE AfterMeta(n, rep, on)
  <2>1. /\ run' \in Runs /\ event' \in 0 .. NumEvents
        /\ assignments' \in [Nodes -> Assignments]
    BY <1>9 DEF AfterMeta, plan, PlanOK
  <2>2. /\ inbox' \in [Nodes -> SUBSET Request]
        /\ conn' \in [Nodes -> {"none", "open", "stale"}]
        /\ waiting' \in [Nodes -> Ids \cup {None}]
    BY <1>9, <2>1, CallType DEF AfterMeta, Steps, Command
  <2>3. PlanOK'
    BY <1>9 DEF AfterMeta, plan, PlanOK
  <2>4. OutcomesOK'
    BY <1>9 DEF AfterMeta, Fails, OutcomesOK
  <2> QED
    BY <1>1, <2>2, <2>3, <2>4
<1>10. CASE AfterRows(n, rep, on)
  <2>1. PlanOK'
    BY <1>3, <1>10 DEF AfterRows, plan, PlanOK
  <2>2. OutcomesOK'
    BY <1>2, <1>10 DEF AfterRows, Fails, OutcomesOK
  <2> QED
    BY <1>1, <1>3, <1>10, <2>1, <2>2 DEF AfterRows
<1> QED
  BY <1>4, <1>5, <1>6, <1>7, <1>8, <1>9, <1>10 DEF After

LEMMA CallReturnsType ==
  ASSUME TypeOK, NEW n \in Nodes, HubReceives(n) \/ HubGivesUp(n)
  PROVE  TypeOK'
<1> USE DEF TypeOK
<1>1. conn \in [Nodes -> {"none", "open", "stale"}]
  BY DEF AgentTypeOK, WireOK
<1>2. PICK rep \in Reply, on \in [Nodes -> {"none", "open", "stale"}] :
        After(n, rep, on)
  <2>1. CASE HubReceives(n)
    BY <1>1, <2>1 DEF HubReceives, AgentTypeOK, WireOK
  <2>2. CASE HubGivesUp(n)
    <3>1. [conn EXCEPT ![n] = "none"] \in [Nodes -> {"none", "open", "stale"}]
      BY <1>1
    <3> QED
      BY <2>2, <3>1, ReplyTypes DEF HubGivesUp
  <2> QED
    BY <2>1, <2>2
<1>3. UNCHANGED agentSide /\ faults' \in 0 .. MaxFaults
  BY FaultType DEF HubReceives, HubGivesUp, AgentTypeOK, WireOK
<1>4. PlanOK' /\ OutcomesOK'
  BY <1>2, AfterType
<1>5. AgentTypeOK'
  BY <1>2, <1>3, AfterType, AgentSideKept
<1> QED
  BY <1>4, <1>5

-----------------------------------------------------------------------------
(* The phases.                                                             *)

LEMMA PhaseCallsType ==
  ASSUME TypeOK, NewRun \/ BeginConfigure \/ BeginStart \/ BeginStop
  PROVE  TypeOK'
<1> USE DEF TypeOK
<1>1. CASE NewRun
  <2>1. run' \in Runs /\ event' \in 0 .. NumEvents
    BY <1>1, FleetAssumption DEF NewRun, PlanOK
  <2>2. assignments' \in [Nodes -> Assignments]
    <3>1. ArmOf[run'] \in Arms
      BY <2>1, FleetAssumption
    <3>2. [arm |-> ArmOf[run'], events |-> {}] \in Assignments
      BY <3>1 DEF Assignments
    <3> QED
      BY <1>1, <3>2 DEF NewRun, SetArm, PlanOK
  <2>3. AgentTypeOK'
    BY <1>1, <2>1, <2>2, CallKeepsAgents DEF NewRun, Steps, Command
  <2>4. PlanOK'
    <3>1. run' \in 0 .. NumRuns /\ phase' = "clear" /\ phase' \in Phases
      BY <1>1, <2>1, FleetAssumption DEF NewRun, Phases
    <3> QED
      BY <1>1, <2>1, <2>2, <3>1 DEF NewRun, PlanOK
  <2>5. OutcomesOK'
    BY <1>1 DEF NewRun, OutcomesOK
  <2> QED
    BY <2>3, <2>4, <2>5
<1>2. CASE BeginConfigure
  <2>1. /\ run' \in Runs /\ event' \in 0 .. NumEvents
        /\ assignments' \in [Nodes -> Assignments]
    BY <1>2 DEF BeginConfigure, PlanOK
  <2>2. AgentTypeOK'
    BY <1>2, <2>1, CallKeepsAgents DEF BeginConfigure, Steps, Command
  <2>3. PlanOK' /\ OutcomesOK'
    BY <1>2, <2>1 DEF BeginConfigure, outcomes, PlanOK, OutcomesOK, Phases
  <2> QED
    BY <2>2, <2>3
<1>3. CASE BeginStart
  <2>1. /\ run' \in Runs /\ event' \in 0 .. NumEvents
        /\ assignments' \in [Nodes -> Assignments]
    BY <1>3 DEF BeginStart, PlanOK
  <2>2. AgentTypeOK'
    BY <1>3, <2>1, CallKeepsAgents DEF BeginStart, Steps, Command
  <2>3. PlanOK' /\ OutcomesOK'
    BY <1>3, <2>1 DEF BeginStart, outcomes, PlanOK, OutcomesOK, Phases
  <2> QED
    BY <2>2, <2>3
<1>4. CASE BeginStop
  <2>1. /\ run' \in Runs /\ event' \in 0 .. NumEvents
        /\ assignments' \in [Nodes -> Assignments]
    BY <1>4 DEF BeginStop, PlanOK
  <2>2. AgentTypeOK'
    BY <1>4, <2>1, CallKeepsAgents DEF BeginStop, Steps, Command
  <2>3. PlanOK' /\ OutcomesOK'
    BY <1>4, <2>1 DEF BeginStop, outcomes, PlanOK, OutcomesOK, Phases
  <2> QED
    BY <2>2, <2>3
<1> QED
  BY <1>1, <1>2, <1>3, <1>4

LEMMA NodeCallsType ==
  ASSUME TypeOK, NEW n \in Nodes, ApplyEvent(n) \/ Collect(n)
  PROVE  TypeOK'
<1> USE DEF TypeOK
<1>1. CASE ApplyEvent(n)
  <2>1. run' \in Runs /\ event' \in 0 .. NumEvents /\ event \in 1 .. NumEvents
    BY <1>1, FleetAssumption DEF ApplyEvent, PlanOK
  <2>2. assignments' \in [Nodes -> Assignments]
    BY <1>1, <2>1 DEF ApplyEvent, PlanOK, Assignments
  <2>3. AgentTypeOK'
    BY <1>1, <2>1, <2>2, CallKeepsAgents DEF ApplyEvent, Steps, Command
  <2>4. PlanOK' /\ OutcomesOK'
    BY <1>1, <2>1, <2>2 DEF ApplyEvent, outcomes, PlanOK, OutcomesOK
  <2> QED
    BY <2>3, <2>4
<1>2. CASE Collect(n)
  <2>1. /\ run' \in Runs /\ event' \in 0 .. NumEvents
        /\ assignments' \in [Nodes -> Assignments]
    BY <1>2 DEF Collect, PlanOK
  <2>2. AgentTypeOK'
    BY <1>2, <2>1, CallKeepsAgents DEF Collect, Steps, Command
  <2>3. PlanOK' /\ OutcomesOK'
    BY <1>2, <2>1 DEF Collect, outcomes, PlanOK, OutcomesOK
  <2> QED
    BY <2>2, <2>3
<1> QED
  BY <1>1, <1>2

LEMMA QuietPhasesType ==
  ASSUME TypeOK, Abort \/ BeginEvent \/ BeginFetch \/ Report
  PROVE  TypeOK'
<1> USE DEF TypeOK
<1>1. AgentTypeOK'
  BY NoCallKeepsAgents DEF Abort, BeginEvent, BeginFetch, Report
<1>2. waiting' = waiting /\ \A n \in Nodes : waiting[n] = None
  BY DEF Abort, BeginEvent, BeginFetch, Report, NoCall, clientVars, AllAnswered
<1>3. PlanOK'
  <2>1. CASE Abort \/ BeginFetch \/ Report
    BY <1>2, <2>1 DEF Abort, BeginFetch, Report, PlanOK, Phases
  <2>2. CASE BeginEvent
    <3>1. event' \in 1 .. NumEvents
      BY <2>2, FleetAssumption DEF BeginEvent, PlanOK
    <3>2. todo' \subseteq Nodes
      BY <2>2, <3>1, FleetAssumption DEF BeginEvent
    <3>3. run' \in Runs
      BY <2>2 DEF BeginEvent, PlanOK
    <3> QED
      BY <1>2, <2>2, <3>1, <3>2, <3>3 DEF BeginEvent, PlanOK, Phases
  <2> QED
    BY <2>1, <2>2
<1>4. OutcomesOK'
  BY DEF Abort, BeginEvent, BeginFetch, Report, outcomes, OutcomesOK
<1> QED
  BY <1>1, <1>3, <1>4

LEMMA InterruptType == TypeOK /\ Interrupt => TypeOK'
<1> SUFFICES ASSUME TypeOK, Interrupt PROVE TypeOK'
  OBVIOUS
<1> USE DEF TypeOK
<1>1. AgentTypeOK'
  BY FaultType, AgentSideKept DEF Interrupt, AgentTypeOK, WireOK
<1>2. PlanOK'
  BY ManifestType DEF Interrupt, PlanOK, Phases
<1>3. OutcomesOK'
  BY DEF Interrupt, OutcomesOK
<1> QED
  BY <1>1, <1>2, <1>3

LEMMA LoseStragglerType ==
  ASSUME TypeOK, NEW n \in Nodes, LoseStraggler(n)
  PROVE  TypeOK'
<1> USE DEF TypeOK
<1>1. inbox' \in [Nodes -> SUBSET Request]
  BY DEF LoseStraggler, AgentTypeOK, WireOK
<1>2. AgentTypeOK'
  BY <1>1, AgentSideKept DEF LoseStraggler, clientVars, AgentTypeOK, WireOK
<1>3. PlanOK' /\ OutcomesOK'
  BY DEF LoseStraggler, clientVars, hubVars, plan, outcomes, PlanOK, OutcomesOK
<1> QED
  BY <1>2, <1>3

LEMMA AgentNextType ==
  ASSUME TypeOK, NEW n \in Nodes, AgentNext(n), UNCHANGED hubVars
  PROVE  TypeOK'
<1> USE DEF TypeOK
<1>1. AgentTypeOK'
  BY AgentStepType
<1>2. waiting' = waiting
  BY DEF AgentNext, Serve, Handle, Configure, ConfigureFails, StartRefused,
     StartRelay, StartRelayFails, StartLocal, StartLocalDone, StartLocalFails,
     StopIdle, StopRelay, StopRelayFails, StopLocal, StopLocalDone, StopLocalFails, FetchMeta, FetchRows,
     FetchRefused, ControlStep, ControlStepRaises, StrayStep, BoardReport,
     Restart, clientVars
<1>3. PlanOK' /\ OutcomesOK'
  BY <1>2 DEF hubVars, plan, outcomes, PlanOK, OutcomesOK
<1> QED
  BY <1>1, <1>3

-----------------------------------------------------------------------------
LEMMA TypeOKInit == Init => TypeOK
<1> SUFFICES ASSUME Init PROVE TypeOK
  OBVIOUS
<1>1. AgentTypeOK
  BY AgentInitType DEF Init
<1>2. PlanOK
  BY ManifestType, FleetAssumption DEF Init, PlanOK, Phases
<1>3. OutcomesOK
  BY DEF Init, OutcomesOK
<1> QED
  BY <1>1, <1>2, <1>3 DEF TypeOK

LEMMA TypeOKNext == TypeOK /\ [Next]_vars => TypeOK'
<1> SUFFICES ASSUME TypeOK, [Next]_vars PROVE TypeOK'
  OBVIOUS
<1>1. CASE HubStep
  <2>1. CASE NewRun \/ BeginConfigure \/ BeginStart \/ BeginStop
    BY <2>1, PhaseCallsType
  <2>2. CASE Abort \/ BeginEvent \/ BeginFetch \/ Report
    BY <2>2, QuietPhasesType
  <2>3. CASE \E n \in Nodes : ApplyEvent(n) \/ Collect(n) \/ HubReceives(n)
    BY <2>3, NodeCallsType, CallReturnsType
  <2> QED
    BY <1>1, <2>1, <2>2, <2>3 DEF HubStep
<1>2. CASE Interrupt
  BY <1>2, InterruptType
<1>3. CASE \E n \in Nodes : HubGivesUp(n) \/ LoseStraggler(n)
  BY <1>3, CallReturnsType, LoseStragglerType
<1>4. CASE \E n \in Nodes : AgentNext(n) /\ UNCHANGED hubVars
  BY <1>4, AgentNextType
<1>5. CASE UNCHANGED vars
  BY <1>5 DEF vars, agentVars, hubVars, identity, tasks, logs, plan, outcomes,
     TypeOK, AgentTypeOK, ConfigurationOK, TasksOK, LogsOK, WireOK, PlanOK,
     OutcomesOK
<1> QED
  BY <1>1, <1>2, <1>3, <1>4, <1>5 DEF Next

\* The hub and its agents keep their types through every interleaving of
\* calls, timeouts, restarts and interrupted series (runner.py, service.py).
THEOREM TypeCorrect == Spec => []TypeOK
<1> QED
  BY TypeOKInit, TypeOKNext, PTL DEF Spec

-----------------------------------------------------------------------------
(* The barrier.                                                            *)

(* A call other than a start puts no start on its way.                     *)
LEMMA CallKeepsStarts ==
  ASSUME StartsTriggered, triggered \subseteq triggered', UNCHANGED parked,
         NEW S, NEW step, NEW cmd, NEW on, Call(S, step, cmd, on),
         cmd = "start" => run' \in triggered'
  PROVE  StartsTriggered'
<1> SUFFICES ASSUME NEW n \in Nodes, NEW req \in inbox'[n] \cup parked'[n],
                    req.cmd = "start"
             PROVE  req.run \in triggered'
  BY DEF StartsTriggered
<1>1. CASE req \in inbox[n] \cup parked[n]
  BY <1>1 DEF StartsTriggered
<1>2. CASE req \notin inbox[n] \cup parked[n]
  <2>1. req = [id |-> <<run', step, event'>>, cmd |-> cmd,
               run |-> IF cmd \in {"start", "meta", "rows"} THEN run' ELSE None,
               cfg |-> IF cmd = "configure" THEN assignments'[n] ELSE None]
    BY <1>2 DEF Call
  <2> QED
    BY <2>1
<1> QED
  BY <1>1, <1>2

LEMMA BarrierInit == Init => BarrierInv
BY FleetAssumption
DEF Init, AgentInit, BarrierInv, Barrier, StartsTriggered

LEMMA BarrierNext == TypeOK /\ BarrierInv /\ [Next]_vars => BarrierInv'
<1> SUFFICES ASSUME TypeOK, BarrierInv, [Next]_vars PROVE BarrierInv'
  OBVIOUS
<1>1. run \in Nat /\ configured \subseteq Nodes
  BY FleetAssumption DEF TypeOK, PlanOK, OutcomesOK
<1>2. CASE NewRun
  <2>1. StartsTriggered'
    BY <1>2, CallKeepsStarts DEF NewRun, BarrierInv, UnchangedAgents, agentSide
  <2>2. run' = run + 1 /\ UNCHANGED <<triggered, runName>>
    BY <1>2 DEF NewRun, UnchangedAgents, agentSide
  <2>3. run' \notin triggered' /\ triggered' \subseteq 1 .. run'
    BY <1>1, <2>2 DEF BarrierInv
  <2> QED
    BY <2>1, <2>2, <2>3 DEF BarrierInv, Barrier
<1>3. CASE BeginStart
  <2>1. /\ triggered' = triggered \cup {run} /\ configured' = Nodes
        /\ UNCHANGED <<run, runName>>
    BY <1>3 DEF BeginStart, outcomes, UnchangedAgents, agentSide
  <2>2. StartsTriggered'
    BY <1>3, <2>1, CallKeepsStarts
    DEF BeginStart, BarrierInv, UnchangedAgents, agentSide
  <2>3. run # 0
    BY <1>3, FleetAssumption DEF BeginStart, TypeOK, PlanOK
  <2> QED
    BY <1>1, <2>1, <2>2, <2>3 DEF BarrierInv, Barrier
<1>4. CASE BeginConfigure \/ BeginStop
  <2>1. UNCHANGED <<run, triggered, configured, runName>>
    BY <1>4 DEF BeginConfigure, BeginStop, outcomes, UnchangedAgents, agentSide
  <2>2. StartsTriggered'
    BY <1>4, <2>1, CallKeepsStarts
    DEF BeginConfigure, BeginStop, BarrierInv, UnchangedAgents, agentSide
  <2> QED
    BY <2>1, <2>2 DEF BarrierInv, Barrier
<1>5. CASE \E n \in Nodes : ApplyEvent(n) \/ Collect(n)
  <2>1. UNCHANGED <<run, triggered, configured, runName>>
    BY <1>5 DEF ApplyEvent, Collect, outcomes, UnchangedAgents, agentSide
  <2>2. StartsTriggered'
    BY <1>5, <2>1, CallKeepsStarts
    DEF ApplyEvent, Collect, BarrierInv, UnchangedAgents, agentSide
  <2> QED
    BY <2>1, <2>2 DEF BarrierInv, Barrier
<1>6. CASE Abort \/ BeginEvent \/ BeginFetch \/ Report \/ Interrupt
  BY <1>6 DEF Abort, BeginEvent, BeginFetch, Report, Interrupt, NoCall, outcomes,
     UnchangedAgents, agentSide, BarrierInv, Barrier, StartsTriggered
<1>7. CASE \E n \in Nodes : HubReceives(n) \/ HubGivesUp(n)
  <2>0. PICK n \in Nodes :
          \E rep, on : After(n, rep, on) /\ UNCHANGED <<parked, runName>>
    BY <1>7 DEF HubReceives, HubGivesUp, agentSide
  <2>1. PICK rep, on : After(n, rep, on) /\ UNCHANGED <<parked, runName>>
    BY <2>0
  <2>2. UNCHANGED <<run, triggered>> /\ configured \subseteq configured'
        /\ configured' \subseteq Nodes
    BY <1>1, <2>1 DEF After, AfterClear, AfterConfigure, AfterStart, AfterEvent,
       AfterStop, AfterMeta, AfterRows, Counts, hubVars, plan, outcomes
  <2>3. StartsTriggered'
    <3>1. CASE AfterMeta(n, rep, on)
      BY <2>1, <2>2, <3>1, CallKeepsStarts DEF AfterMeta, BarrierInv
    <3>2. CASE ~AfterMeta(n, rep, on)
      BY <2>1, <2>2, <3>2 DEF After, AfterClear, AfterConfigure, AfterStart,
         AfterEvent, AfterStop, AfterRows, Returned, BarrierInv, StartsTriggered
    <3> QED
      BY <3>1, <3>2
  <2> QED
    BY <2>1, <2>2, <2>3 DEF BarrierInv, Barrier
<1>8. CASE \E n \in Nodes : LoseStraggler(n)
  BY <1>8 DEF LoseStraggler, agentSide, hubVars, plan, outcomes, BarrierInv,
     Barrier, StartsTriggered, TypeOK, AgentTypeOK, WireOK
<1>9. CASE \E n \in Nodes : AgentNext(n) /\ UNCHANGED hubVars
  <2>1. PICK n \in Nodes : AgentNext(n) /\ UNCHANGED hubVars
    BY <1>9
  <2>2. UNCHANGED <<run, triggered, configured>>
    BY <2>1 DEF hubVars, plan, outcomes
  <2>3. AgentTypeOK
    BY DEF TypeOK
  <2>4. StartsTriggered'
    BY <2>1, <2>2, <2>3, AgentStepRun DEF BarrierInv, StartsTriggered
  <2>5. \A m \in Nodes : runName'[m] \in {runName[m], None} \cup triggered
    BY <2>1, <2>3, AgentStepRun
    DEF BarrierInv, StartsTriggered, AgentTypeOK, TasksOK
  <2> QED
    BY <2>2, <2>4, <2>5 DEF BarrierInv, Barrier
<1>10. CASE UNCHANGED vars
  BY <1>10 DEF vars, agentVars, hubVars, plan, outcomes, BarrierInv, Barrier,
     StartsTriggered
<1> QED
  BY <1>2, <1>3, <1>4, <1>5, <1>6, <1>7, <1>8, <1>9, <1>10 DEF Next, HubStep

\* No agent ever runs under a name the hub did not trigger, and no run is
\* triggered before every node has acknowledged its configuration, whatever is
\* lost, late or restarted (run(), runner.py: "configure -- a barrier").
THEOREM BarrierHolds == Spec => [](Barrier)
<1>1. TypeOK /\ BarrierInv /\ [Next]_vars => (TypeOK /\ BarrierInv)'
  BY TypeOKNext, BarrierNext
<1>2. Init => TypeOK /\ BarrierInv
  BY TypeOKInit, BarrierInit
<1>3. BarrierInv => Barrier
  BY DEF BarrierInv
<1> QED
  BY <1>1, <1>2, <1>3, PTL DEF Spec

-----------------------------------------------------------------------------
(* Fleet implements RunBarrier.                                            *)

LEMMA RefinesInit == Init => Abstract!Init
BY DEF Init, AgentInit, Abstract!Init

LEMMA RefinesNext ==
  TypeOK /\ BarrierInv /\ [Next]_vars => [Abstract!Next]_(Abstract!vars)
<1> SUFFICES ASSUME TypeOK, BarrierInv, [Next]_vars
             PROVE  Abstract!Next \/ UNCHANGED Abstract!vars
  OBVIOUS
<1> USE DEF Abstract!vars
<1>1. run \in Nat /\ configured \subseteq Nodes
  BY FleetAssumption DEF TypeOK, PlanOK, OutcomesOK
<1>2. CASE NewRun
  <2>1. Abstract!NewRun
    BY <1>2 DEF NewRun, UnchangedAgents, agentSide, Abstract!NewRun
  <2> QED
    BY <2>1 DEF Abstract!Next
<1>3. CASE BeginStart
  <2>1. Abstract!Open
    BY <1>3 DEF BeginStart, outcomes, UnchangedAgents, agentSide, Abstract!Open
  <2> QED
    BY <2>1 DEF Abstract!Next
<1>4. CASE \/ BeginConfigure \/ Abort \/ BeginEvent \/ BeginStop \/ BeginFetch
           \/ Report \/ Interrupt
           \/ \E n \in Nodes : ApplyEvent(n) \/ Collect(n) \/ LoseStraggler(n)
  BY <1>4 DEF BeginConfigure, Abort, BeginEvent, BeginStop, BeginFetch, Report,
     Interrupt, ApplyEvent, Collect, LoseStraggler, UnchangedAgents, agentSide,
     hubVars, plan, outcomes
<1>5. CASE \E n \in Nodes : HubReceives(n) \/ HubGivesUp(n)
  <2>0. PICK n \in Nodes : \E rep, on : After(n, rep, on) /\ UNCHANGED runName
    BY <1>5 DEF HubReceives, HubGivesUp, agentSide
  <2>1. PICK rep, on : After(n, rep, on) /\ UNCHANGED runName
    BY <2>0
  <2>2. /\ UNCHANGED <<run, triggered>>
        /\ configured' = configured \/ configured' = configured \cup {n}
    BY <2>1 DEF After, AfterClear, AfterConfigure, AfterStart, AfterEvent,
       AfterStop, AfterMeta, AfterRows, Counts, hubVars, plan, outcomes
  <2>3. CASE run \in triggered
    BY <1>1, <2>1, <2>2, <2>3 DEF BarrierInv, Barrier
  <2>4. CASE run \notin triggered /\ configured' = configured \cup {n}
    <3>1. Abstract!Acknowledge(n)
      BY <2>1, <2>2, <2>4 DEF Abstract!Acknowledge
    <3> QED
      BY <3>1 DEF Abstract!Next
  <2> QED
    BY <2>1, <2>2, <2>3, <2>4
<1>6. CASE \E n \in Nodes : AgentNext(n) /\ UNCHANGED hubVars
  <2>1. PICK n \in Nodes : AgentNext(n) /\ UNCHANGED hubVars
    BY <1>6
  <2>2. UNCHANGED <<run, triggered, configured>>
    BY <2>1 DEF hubVars, plan, outcomes
  <2>3. \/ runName' = runName
        \/ runName' = [runName EXCEPT ![n] = None]
        \/ \E r \in triggered : runName' = [runName EXCEPT ![n] = r]
    BY <2>1, AgentStepRun DEF TypeOK, BarrierInv, StartsTriggered
  <2>4. UNCHANGED runName \/ Abstract!End(n) \/ Abstract!Begin(n)
    BY <2>2, <2>3 DEF Abstract!End, Abstract!Begin
  <2> QED
    BY <2>2, <2>4 DEF Abstract!Next
<1>7. CASE UNCHANGED vars
  BY <1>7 DEF vars, agentVars, hubVars, plan, outcomes
<1> QED
  BY <1>2, <1>3, <1>4, <1>5, <1>6, <1>7 DEF Next, HubStep

\* Every behaviour of the hub and its agents is one of the abstract barrier:
\* acknowledgements only add up before the run is opened, and a node joins
\* only an opened run (run(), runner.py; AgentService._start).
THEOREM FleetImplementsRunBarrier == Spec => ImplementsRunBarrier
<1>1. TypeOK /\ BarrierInv /\ [Next]_vars => (TypeOK /\ BarrierInv)'
  BY TypeOKNext, BarrierNext
<1>2. Init => TypeOK /\ BarrierInv
  BY TypeOKInit, BarrierInit
<1> QED
  BY <1>1, <1>2, RefinesInit, RefinesNext, PTL
  DEF Spec, ImplementsRunBarrier, Abstract!Spec

-----------------------------------------------------------------------------
(* What holds of a run of any fleet, when a call the hub has given up is   *)
(* executed during its own run or never (Prompt): what an agent answers to *)
(* the pre-run stop and to its configuration, that no run is left or begun *)
(* from a stepped controller, and that what was collected is one whole log *)
(* sampled under one arm.                                                  *)

Prompt == ~LateClear /\ ~LateCalls

-----------------------------------------------------------------------------
(* The inductive invariant: what is in flight, and what it can still do.   *)

InFlight(n) == inbox[n] \cup parked[n]

CommandOf(step) == IF step \in {"clear", "stop"} THEN "stop"
                   ELSE IF step = "event" THEN "configure" ELSE step

\* A configuration the run may put node n under.
GoodCfg(n, c) ==
  /\ c \in Configs
  /\ c.arm = ArmOf[run]
  /\ \A k \in c.events : n \in EventNodes[k]

\* The calls a request of which may be in flight to n: those of this run, from
\* the phase that has begun; not those that every node has answered.
Made(n, id) ==
  /\ id[1] = run
  /\ id[2] = "clear"     => phase \in {"clear", "done"}
  /\ id[2] = "configure" => phase \in {"configure", "done"}
  /\ id[2] = "start"     => phase \notin {"clear", "configure"}
  /\ id[2] = "event"     => /\ phase \notin {"clear", "configure", "start"}
                            /\ id[3] <= event
                            /\ phase = "event" /\ n \in todo => id[3] # event
  /\ id[2] = "stop"      => phase \in {"stop", "fetch", "done"} /\ id[3] = event
  /\ id[2] \in {"meta", "rows"} => /\ phase \in {"fetch", "done"}
                                   /\ phase = "fetch" => n \notin todo
  /\ id[2] = "rows" /\ phase = "fetch" => waiting[n] # <<run, "meta", event>>
  /\ id[2] \in {"clear", "configure", "start"} => id[3] = 0

Shape(n) ==
  \A q \in InFlight(n) :
     /\ Made(n, q.id)
     /\ q.cmd = CommandOf(q.id[2])
     /\ q.cmd \in {"start", "meta", "rows"} => q.run = run
     /\ q.cmd = "configure" => GoodCfg(n, q.cfg)

\* No two requests of one call, no two starts and no two stops.
Distinct(n) ==
  /\ \A p, q \in InFlight(n) :
       p.id = q.id \/ (p.cmd = q.cmd /\ p.cmd \in {"start", "stop"}) => p = q
  /\ inbox[n] \cap parked[n] = {}

\* The call in progress, its request and its reply.
Awaited(n) ==
  /\ waiting[n] = None => outbox[n] = None
  /\ phase = "done" => waiting[n] = None
  /\ waiting[n] # None =>
       \/ phase # "fetch" /\ waiting[n] = <<run, phase, event>>
       \/ phase = "fetch" /\ \E step \in {"meta", "rows"} :
                                waiting[n] = <<run, step, event>>
  /\ waiting[n] # None /\ phase \in {"event", "fetch"} => n \notin todo
  /\ \A q \in InFlight(n) : q.id = waiting[n] => outbox[n] = None /\ conn[n] = "open"

PlanInv ==
  /\ phase \in {"clear", "configure", "start"} => event = 0
  /\ phase \in {"stop", "fetch"} => event = NumEvents
  /\ phase = "event" => todo \subseteq EventNodes[event]
  /\ phase = "clear" => configured = {}
  /\ phase \in {"clear", "configure"} => started = {}
  /\ started \subseteq configured /\ (started # {} => run \in Runs)
  /\ phase \in {"start", "event", "stop", "fetch"} => configured = Nodes
  /\ \A n \in Nodes :
       /\ \A k \in assignments[n].events : n \in EventNodes[k]
       /\ phase # "done" => assignments[n].arm = ArmOf[run]
       /\ ~Paired => assignments[n].arm = ArmOf[1]
       /\ phase = "event" /\ waiting[n] # None => GoodCfg(n, before)

\* At most one handler is suspended, so that no loop is ever forgotten.
TaskInv(n) ==
  /\ ~orphans[n] /\ strays[n] = {}
  /\ n \in Relays => loops[n] = "none" /\ parked[n] = {}
  /\ \A q \in parked[n] :
       \/ q.cmd = "start" /\ loops[n] = "none"
       \/ q.cmd = "stop"  /\ loops[n] = "cancelled"

FlightInv(n) == Shape(n) /\ Distinct(n) /\ Awaited(n) /\ TaskInv(n)

\* The reply to a call in progress says that it was done.
Acked(n) == outbox[n] # None /\ outbox[n].ok

ClearInv(n) ==
  phase = "clear" /\ outbox[n] # None =>
    loops[n] = "none" /\ (outbox[n].ok => ~Running(n))

Acknowledged(n) == phase = "configure" /\ (n \in configured \/ Acked(n))

ConfiguredInv(n) ==
  /\ phase = "configure" => \A q \in InFlight(n) : q.cfg = assignments[n]
  /\ Acknowledged(n) => InFlight(n) = {}
  /\ Acknowledged(n) \/ phase = "start" =>
       /\ assignment[n] \in {None, assignments[n]}
       /\ assignment[n] # None => built[n] = assignments[n]
  /\ Acknowledged(n) \/ phase \in {"start", "event"} =>
       /\ n \notin Relays /\ ready[n] /\ ~Running(n) => pristine[n]
       /\ parked[n] # {} => ready[n]

KnownInv(n) ==
  n \notin missed /\ (phase \in {"event", "stop", "fetch"} \/ (phase = "done" /\ Ok(n)))
    => /\ \A q \in InFlight(n) :
            q.cmd = "configure" => q.id = waiting[n] /\ q.cfg = assignments[n]
       /\ \/ assignment[n] \in {None, assignments[n]}
          \/ phase = "event" /\ waiting[n] # None /\ ~Acked(n)

\* A node that has joined the run, as far as the hub knows or is about to.
Joined(n) ==
  /\ n \notin failed \cup missed
  /\ phase = "stop" /\ outbox[n] # None => outbox[n].ok
  /\ \/ n \in started /\ phase \in {"start", "event", "stop", "fetch", "done"}
     \/ phase = "start" /\ Acked(n)

(* Its board may hold the torn configuration of an event it has refused.   *)
Refused(n) == phase = "event" /\ outbox[n] # None /\ ~outbox[n].ok

Stopping(n) == phase = "stop" /\ waiting[n] # None /\ outbox[n] = None

\* A suspended start has opened the log of the run, and nothing has been
\* written to it.
Opened(n) ==
  logOpen[n] /\ logRun[n] = run /\ rows[n][run] = {} /\ assignment[n] # None

\* Until it answers the stop, a node that joined runs unless its process died.
InIt(n) ==
  IF phase \in {"start", "event"} \/ Stopping(n)
  THEN /\ conn[n] \in {"open", "stale"}
       /\ conn[n] = "open" => /\ runName[n] = run /\ logRun[n] = run
                              /\ n \notin Relays => loops[n] # "none"
  ELSE run \in final[n] /\ ~logOpen[n]

OneArm(n) ==
  /\ logOpen[n] => logRun[n] = run /\ GoodCfg(n, built[n])
  /\ \A c \in rows[n][run] : GoodCfg(n, c)

JoinedInv(n) ==
  /\ phase = "start" => \A q \in parked[n] : Opened(n)
  /\ Joined(n) => /\ \A q \in InFlight(n) : q.cmd # "start"
                  /\ InIt(n)
                  /\ Refused(n) \/ OneArm(n)

CollectInv(n) ==
  Joined(n) =>
    /\ phase = "fetch" /\ waiting[n] = <<run, "rows", event>> /\ Acked(n)
         => outbox[n].rows = rows[n][run]
    /\ (phase = "fetch" /\ n \notin todo /\ waiting[n] = None) \/ phase = "done"
         => got[n] = rows[n][run]

NodeInv(n) ==
  FlightInv(n) /\ ClearInv(n) /\ ConfiguredInv(n) /\ KnownInv(n)
    /\ JoinedInv(n) /\ CollectInv(n)

RunInv == PlanInv /\ \A n \in Nodes : NodeInv(n)

-----------------------------------------------------------------------------
(* A step of one agent leaves the others alone.                            *)

Same(m) ==
  /\ assignment'[m] = assignment[m] /\ ready'[m] = ready[m]
  /\ built'[m] = built[m]           /\ pristine'[m] = pristine[m]
  /\ loops'[m] = loops[m]           /\ runName'[m] = runName[m]
  /\ orphans'[m] = orphans[m]       /\ strays'[m] = strays[m]
  /\ logRun'[m] = logRun[m]         /\ logOpen'[m] = logOpen[m]
  /\ rows'[m] = rows[m]             /\ final'[m] = final[m]
  /\ inbox'[m] = inbox[m]           /\ parked'[m] = parked[m]
  /\ conn'[m] = conn[m]             /\ waiting'[m] = waiting[m]
  /\ outbox'[m] = outbox[m]

HubSame(m) ==
  /\ UNCHANGED <<run, phase, event>>
  /\ assignments'[m] = assignments[m] /\ got'[m] = got[m]
  /\ (m \in todo') = (m \in todo)
  /\ (m \in configured') = (m \in configured)
  /\ (m \in started') = (m \in started)
  /\ (m \in failed') = (m \in failed) /\ (m \in missed') = (m \in missed)

LEMMA StepIsLocal ==
  ASSUME AgentTypeOK, NEW n \in Nodes, AgentNext(n), NEW m \in Nodes, m # n
  PROVE  Same(m)
<1> USE DEF AgentTypeOK, ConfigurationOK, TasksOK, LogsOK, WireOK, Same
<1>1. ASSUME NEW req \in InFlight(n),
             \/ Configure(n, req)    \/ ConfigureFails(n, req)
      PROVE  Same(m)
  BY <1>1 DEF Configure, ConfigureFails, Take, Respond, tasks, logs, clientVars
<1>2. ASSUME NEW req \in InFlight(n),
             \/ StartRefused(n, req) \/ StopIdle(n, req)
             \/ FetchMeta(n, req)    \/ FetchRows(n, req)
             \/ FetchRefused(n, req)
      PROVE  Same(m)
  BY <1>2 DEF StartRefused, StopIdle, FetchMeta, FetchRows, FetchRefused, Take,
     Respond, identity, tasks, logs, clientVars
<1>3. ASSUME NEW req \in InFlight(n),
             \/ StartRelay(n, req) \/ StartRelayFails(n, req)
             \/ StartLocal(n, req)
      PROVE  Same(m)
  BY <1>3 DEF StartRelay, StartRelayFails, StartLocal, OpenLog, Take, Park,
     Respond, identity, tasks, clientVars
<1>4. ASSUME NEW req \in InFlight(n),
             StartLocalDone(n, req) \/ StartLocalFails(n, req)
      PROVE  Same(m)
  BY <1>4 DEF StartLocalDone, StartLocalFails, Resume, Respond, identity, tasks,
     logs, clientVars
<1>5. ASSUME NEW req \in InFlight(n),
             \/ StopRelay(n, req) \/ StopRelayFails(n, req)
             \/ StopLocal(n, req) \/ StopLocalDone(n, req)
             \/ StopLocalFails(n, req)
      PROVE  Same(m)
  BY <1>5 DEF StopRelay, StopRelayFails, StopLocal, StopLocalDone, StopLocalFails, Take, Park, Resume, Respond,
     Finalize, FinalizeFails, identity, tasks, logs, clientVars
<1>6. CASE ControlStep(n) \/ ControlStepRaises(n) \/ StrayStep(n) \/ BoardReport(n)
  BY <1>6 DEF ControlStep, ControlStepRaises, StrayStep, BoardReport, Append,
     identity, tasks, logs, clientVars
<1>7. CASE Restart(n)
  BY <1>7 DEF Restart
<1> QED
  BY <1>1, <1>2, <1>3, <1>4, <1>5, <1>6, <1>7
  DEF AgentNext, Serve, Handle, InFlight

LEMMA OthersKept ==
  ASSUME NEW m \in Nodes, Same(m), HubSame(m), NodeInv(m)
  PROVE  NodeInv(m)'
<1> USE DEF Same, HubSame, NodeInv
<1>1. FlightInv(m)'
  BY DEF FlightInv, Shape, Distinct, Awaited, TaskInv, Made, InFlight, GoodCfg
<1>2. ClearInv(m)' /\ ConfiguredInv(m)'
  BY DEF ClearInv, ConfiguredInv, Acknowledged, Acked, Running, InFlight
<1>3. KnownInv(m)'
  BY DEF KnownInv, Acked, Ok, InFlight
<1>4. JoinedInv(m)'
  BY DEF JoinedInv, Joined, Refused, Stopping, Acked, InFlight, GoodCfg, Opened,
     InIt, OneArm
<1>5. CollectInv(m)'
  BY DEF CollectInv, Joined, Acked
<1> QED
  BY <1>1, <1>2, <1>3, <1>4, <1>5

-----------------------------------------------------------------------------
(* A step of an agent, at that agent.                                      *)

LEMMA RequestIs ==
  ASSUME TypeOK, NEW n \in Nodes, NEW q \in InFlight(n)
  PROVE  /\ q \in Request /\ q.id \in Ids
         /\ q.id[1] \in Runs /\ q.id[2] \in Steps /\ q.id[3] \in 0 .. NumEvents
         /\ q.id = <<q.id[1], q.id[2], q.id[3]>>
BY FleetAssumption DEF TypeOK, AgentTypeOK, WireOK, Request, InFlight

LEMMA AgentKeepsWaiting ==
  ASSUME NEW n \in Nodes, AgentNext(n)
  PROVE  waiting' = waiting
BY DEF AgentNext, Serve, Handle, Configure, ConfigureFails, StartRefused,
   StartRelay, StartRelayFails, StartLocal, StartLocalDone, StartLocalFails,
   StopIdle, StopRelay, StopRelayFails, StopLocal, StopLocalDone, StopLocalFails, FetchMeta, FetchRows,
   FetchRefused, ControlStep, ControlStepRaises, StrayStep, BoardReport,
   Restart, clientVars

(* What a step does to the requests and to the connection.                 *)
LEMMA AgentStepWire ==
  ASSUME AgentTypeOK, NEW n \in Nodes, AgentNext(n), Distinct(n)
  PROVE  /\ InFlight(n)' \subseteq InFlight(n)
         /\ inbox'[n] \cap parked'[n] = {}
         /\ conn'[n] = conn[n] \/ InFlight(n)' = {}
         /\ \/ outbox'[n] = outbox[n]
            \/ \E req \in InFlight(n) : /\ req.id = waiting[n]
                                        /\ req \notin InFlight(n)'
                                        /\ conn'[n] = conn[n]
<1> USE DEF AgentTypeOK, WireOK, InFlight, Distinct
<1>1. ASSUME NEW req \in InFlight(n),
             \/ Configure(n, req)    \/ ConfigureFails(n, req)
             \/ StartRefused(n, req) \/ StopIdle(n, req)
             \/ FetchMeta(n, req)    \/ FetchRows(n, req)
             \/ FetchRefused(n, req) \/ StartRelay(n, req)
             \/ StartRelayFails(n, req) \/ StopRelay(n, req)
             \/ StopRelayFails(n, req)
      PROVE  /\ InFlight(n)' = InFlight(n) \ {req}
             /\ inbox'[n] \cap parked'[n] = {}
             /\ conn'[n] = conn[n]
             /\ outbox'[n] = outbox[n] \/ req.id = waiting[n]
  BY <1>1 DEF Configure, ConfigureFails, StartRefused, StopIdle, FetchMeta,
     FetchRows, FetchRefused, StartRelay, StartRelayFails, StopRelay, StopRelayFails, Take,
     Respond, clientVars
<1>2. ASSUME NEW req \in InFlight(n), StartLocal(n, req) \/ StopLocal(n, req)
      PROVE  /\ InFlight(n)' = InFlight(n)
             /\ inbox'[n] \cap parked'[n] = {}
             /\ conn'[n] = conn[n] /\ outbox'[n] = outbox[n]
  BY <1>2 DEF StartLocal, StopLocal, Take, Park, clientVars
<1>3. ASSUME NEW req \in InFlight(n),
             \/ StartLocalDone(n, req) \/ StartLocalFails(n, req)
             \/ StopLocalDone(n, req)  \/ StopLocalFails(n, req)
      PROVE  /\ InFlight(n)' = InFlight(n) \ {req}
             /\ inbox'[n] \cap parked'[n] = {}
             /\ conn'[n] = conn[n]
             /\ outbox'[n] = outbox[n] \/ req.id = waiting[n]
  BY <1>3 DEF StartLocalDone, StartLocalFails, StopLocalDone, StopLocalFails, Resume, Respond,
     clientVars
<1>4. CASE ControlStep(n) \/ ControlStepRaises(n) \/ StrayStep(n) \/ BoardReport(n)
  BY <1>4 DEF ControlStep, ControlStepRaises, StrayStep, BoardReport, clientVars
<1>5. CASE Restart(n)
  BY <1>5 DEF Restart
<1> QED
  BY <1>1, <1>2, <1>3, <1>4, <1>5 DEF AgentNext, Serve, Handle

LEMMA AgentStepFlight ==
  ASSUME TypeOK, NEW n \in Nodes, AgentNext(n), UNCHANGED hubVars, FlightInv(n)
  PROVE  Shape(n)' /\ Distinct(n)' /\ Awaited(n)'
<1>1. AgentTypeOK /\ Shape(n) /\ Distinct(n) /\ Awaited(n)
  BY DEF TypeOK, FlightInv
<1>2. waiting' = waiting /\ UNCHANGED hubVars
  BY AgentKeepsWaiting
<1>3. /\ InFlight(n)' \subseteq InFlight(n)
      /\ inbox'[n] \cap parked'[n] = {}
      /\ conn'[n] = conn[n] \/ InFlight(n)' = {}
      /\ \/ outbox'[n] = outbox[n]
         \/ \E req \in InFlight(n) : /\ req.id = waiting[n]
                                     /\ req \notin InFlight(n)'
                                     /\ conn'[n] = conn[n]
  BY <1>1, AgentStepWire
<1>4. Shape(n)'
  BY <1>1, <1>2, <1>3 DEF Shape, Made, GoodCfg, hubVars, plan
<1>5. Distinct(n)'
  BY <1>1, <1>3 DEF Distinct
<1>6. Awaited(n)'
  <2>1. \A q \in InFlight(n)' : q.id = waiting[n] => outbox'[n] = outbox[n]
    BY <1>1, <1>3 DEF Distinct
  <2>2. waiting[n] = None => outbox'[n] = outbox[n]
    BY <1>1, <1>3, RequestIs, AgentAssumption
  <2> QED
    BY <1>1, <1>2, <1>3, <2>1, <2>2 DEF Awaited, hubVars, plan
<1> QED
  BY <1>4, <1>5, <1>6

LEMMA AgentStepTasks ==
  ASSUME AgentTypeOK, NEW n \in Nodes, AgentNext(n), Distinct(n), TaskInv(n)
  PROVE  TaskInv(n)'
<1> USE DEF AgentTypeOK, TasksOK, WireOK, TaskInv
<1>1. ASSUME NEW req \in InFlight(n),
             \/ Configure(n, req)    \/ ConfigureFails(n, req)
             \/ StartRefused(n, req) \/ StopIdle(n, req)
             \/ FetchMeta(n, req)    \/ FetchRows(n, req)
             \/ FetchRefused(n, req) \/ StartRelay(n, req)
             \/ StartRelayFails(n, req) \/ StopRelay(n, req)
             \/ StopRelayFails(n, req)
             \/ StartLocalFails(n, req)
      PROVE  TaskInv(n)'
  BY <1>1 DEF Configure, ConfigureFails, StartRefused, StopIdle, FetchMeta,
     FetchRows, FetchRefused, StartRelay, StartRelayFails, StopRelay, StopRelayFails, Take,
     StartLocalFails, Resume, tasks
<1>2. ASSUME NEW req \in InFlight(n), StartLocal(n, req) \/ StopLocal(n, req)
      PROVE  TaskInv(n)'
  BY <1>2 DEF StartLocal, StopLocal, Take, Park, MayStart, Running, tasks,
     InFlight, Distinct
<1>3. ASSUME NEW req \in InFlight(n),
             \/ StartLocalDone(n, req) \/ StopLocalDone(n, req)
             \/ StopLocalFails(n, req)
      PROVE  TaskInv(n)'
  BY <1>3 DEF StartLocalDone, StopLocalDone, StopLocalFails, Resume, InFlight,
     Distinct
<1>4. CASE ControlStep(n) \/ ControlStepRaises(n) \/ StrayStep(n) \/ BoardReport(n)
  BY <1>4 DEF ControlStep, ControlStepRaises, StrayStep, BoardReport, tasks
<1>5. CASE Restart(n)
  BY <1>5 DEF Restart
<1> QED
  BY <1>1, <1>2, <1>3, <1>4, <1>5 DEF AgentNext, Serve, Handle, InFlight

(* What may be in flight, by phase.                                        *)
LEMMA CommandsByPhase ==
  ASSUME TypeOK, NEW n \in Nodes, Shape(n), NEW q \in InFlight(n)
  PROVE  /\ phase = "clear"     => q.cmd = "stop" /\ q.id = <<run, "clear", 0>>
         /\ phase = "configure" => q.cmd = "configure" /\ q.id = <<run, "configure", 0>>
         /\ phase = "start"     => q.cmd = "start" /\ q.id = <<run, "start", 0>>
         /\ phase = "event"     => q.cmd \in {"start", "configure"}
         /\ q.cmd = "start"     => q.id[2] = "start"
<1>1. /\ q.id \in Ids /\ q.id = <<q.id[1], q.id[2], q.id[3]>>
      /\ q.id[2] \in Steps /\ Made(n, q.id) /\ q.cmd = CommandOf(q.id[2])
  BY RequestIs DEF Shape
<1>2. /\ phase = "clear"     => q.id[2] = "clear"
      /\ phase = "configure" => q.id[2] = "configure"
      /\ phase = "start"     => q.id[2] = "start"
      /\ phase = "event"     => q.id[2] \in {"start", "event"}
  BY <1>1 DEF Made, Steps
<1>3. /\ q.id[1] = run
      /\ q.id[2] \in {"clear", "configure", "start"} => q.id[3] = 0
  BY <1>1 DEF Made
<1> QED
  BY <1>1, <1>2, <1>3 DEF CommandOf, Steps

LEMMA AgentStepClear ==
  ASSUME TypeOK, PlanInv, NEW n \in Nodes, AgentNext(n), UNCHANGED hubVars,
         FlightInv(n), ClearInv(n)
  PROVE  ClearInv(n)'
<1> DEFINE Idle == loops[n] = "none" /\ (outbox[n].ok => ~Running(n))
<1> SUFFICES ASSUME phase = "clear", outbox'[n] # None
             PROVE  Idle'
  BY DEF ClearInv, hubVars, plan
<1> USE DEF TypeOK, AgentTypeOK, TasksOK, WireOK, Running
<1>1. \A q \in InFlight(n) :
         q.cmd = "stop" /\ (waiting[n] # None => q.id = waiting[n])
  BY CommandsByPhase DEF FlightInv, Awaited, PlanInv
<1>2. outbox[n] # None => InFlight(n) = {} /\ Idle
  BY <1>1 DEF FlightInv, Awaited, ClearInv
<1>3. ASSUME NEW req \in InFlight(n), StopIdle(n, req)
      PROVE  Idle'
  BY <1>3 DEF StopIdle, tasks
<1>4. ASSUME NEW req \in InFlight(n), StopRelay(n, req)
      PROVE  Idle'
  BY <1>4 DEF StopRelay, StopRelayFails, tasks, FlightInv, TaskInv
<1>5. ASSUME NEW req \in InFlight(n), StopLocal(n, req)
      PROVE  FALSE
  BY <1>2, <1>5 DEF StopLocal
<1>6. ASSUME NEW req \in InFlight(n), StopLocalDone(n, req) \/ StopLocalFails(n, req)
      PROVE  Idle'
  BY <1>6 DEF StopLocalDone, StopLocalFails, Resume, FlightInv, TaskInv
<1>7. CASE ControlStep(n) \/ ControlStepRaises(n) \/ StrayStep(n) \/ BoardReport(n)
  BY <1>2, <1>7 DEF ControlStep, ControlStepRaises, StrayStep, BoardReport, tasks,
     FlightInv, TaskInv
<1>8. CASE Restart(n)
  BY <1>8 DEF Restart
<1>9. ASSUME NEW req \in InFlight(n),
             \/ Configure(n, req)      \/ ConfigureFails(n, req)
             \/ StartRefused(n, req)   \/ StartRelay(n, req)
             \/ StartRelayFails(n, req) \/ StartLocal(n, req)
             \/ StartLocalDone(n, req) \/ StartLocalFails(n, req)
             \/ FetchMeta(n, req)      \/ FetchRows(n, req)
             \/ FetchRefused(n, req)
      PROVE  FALSE
  BY <1>1, <1>9 DEF Configure, ConfigureFails, StartRefused, StartRelay,
     StartRelayFails, StartLocal, StartLocalDone, StartLocalFails, FetchMeta,
     FetchRows, FetchRefused, Take, Resume
<1>10. ASSUME NEW req \in InFlight(n), StopRelayFails(n, req)
       PROVE  Idle'
  <2>1. loops'[n] = "none"
    BY <1>10 DEF StopRelayFails, tasks, FlightInv, TaskInv
  <2>2. outbox[n] = None
    BY <1>2, <1>10
  <2>3. outbox'[n] = Bad
    BY <1>10, <2>2 DEF StopRelayFails, Respond
  <2>4. ~outbox'[n].ok
    BY <2>3 DEF Bad
  <2> QED
    BY <2>1, <2>4
<1> QED
  BY <1>3, <1>4, <1>5, <1>6, <1>7, <1>8, <1>9, <1>10
  DEF AgentNext, Serve, Handle, InFlight

LEMMA AgentStepConfigured ==
  ASSUME TypeOK, PlanInv, NEW n \in Nodes, AgentNext(n), UNCHANGED hubVars,
         FlightInv(n), ConfiguredInv(n)
  PROVE  ConfiguredInv(n)'
<1> USE DEF TypeOK, AgentTypeOK, ConfigurationOK, TasksOK, WireOK
<1>1. /\ UNCHANGED <<phase, configured, assignments>>
      /\ InFlight(n)' \subseteq InFlight(n)
      /\ \/ outbox'[n] = outbox[n]
         \/ \E req \in InFlight(n) : req \notin InFlight(n)'
  BY AgentStepWire DEF hubVars, plan, outcomes, FlightInv
<1>2. phase = "configure" => \A p, q \in InFlight(n) : p = q /\ q.cfg = assignments[n]
  BY CommandsByPhase DEF FlightInv, Distinct, ConfiguredInv
<1>3. /\ phase = "configure" => \A q \in InFlight(n)' : q.cfg = assignments'[n]
      /\ Acknowledged(n)' => InFlight(n)' = {}
  BY <1>1, <1>2 DEF ConfiguredInv, Acknowledged, Acked
<1> DEFINE Held == Acknowledged(n) \/ phase = "start" =>
                     /\ assignment[n] \in {None, assignments[n]}
                     /\ assignment[n] # None => built[n] = assignments[n]
           Fresh == Acknowledged(n) \/ phase \in {"start", "event"} =>
                      /\ n \notin Relays /\ ready[n] /\ ~Running(n) => pristine[n]
                      /\ parked[n] # {} => ready[n]
<1>4. Held /\ Fresh
  BY DEF ConfiguredInv
<1>5. ASSUME NEW req \in InFlight(n), Configure(n, req)
      PROVE  Held' /\ Fresh'
  <2>1. req.cmd = "configure"
    BY <1>5 DEF Configure, Take
  <2>2. phase # "start" /\ (phase = "configure" => req.cfg = assignments[n])
    BY <1>2, <2>1, CommandsByPhase DEF FlightInv
  <2>3. Held'
    BY <1>1, <1>5, <2>2 DEF Configure, Acknowledged
  <2>4. Fresh'
    BY <1>1, <1>5 DEF Configure, Rebuilds, Running, FlightInv, TaskInv
  <2> QED
    BY <2>3, <2>4
<1>6. ASSUME NEW req \in InFlight(n), ConfigureFails(n, req)
      PROVE  Held' /\ Fresh'
  <2>1. req.cmd = "configure"
    BY <1>6 DEF ConfigureFails, Take
  <2>2. phase # "start" /\ ~Acknowledged(n)
    BY <2>1, CommandsByPhase DEF FlightInv, ConfiguredInv
  <2>3. ~Acknowledged(n)'
    BY <1>1, <1>6, <2>2 DEF ConfigureFails, Respond, Bad, Acknowledged, Acked
  <2> QED
    BY <1>1, <1>4, <1>6, <2>2, <2>3 DEF ConfigureFails, tasks, Running
<1>7. ASSUME NEW req \in InFlight(n),
             \/ StartRefused(n, req) \/ StopIdle(n, req)
             \/ FetchMeta(n, req)    \/ FetchRows(n, req)
             \/ FetchRefused(n, req) \/ StartLocalFails(n, req)
      PROVE  Held' /\ Fresh'
  <2>1. phase # "configure"
    BY <1>7, CommandsByPhase DEF StartRefused, StopIdle, FetchMeta, FetchRows,
       FetchRefused, StartLocalFails, Take, Resume, FlightInv
  <2>2. UNCHANGED <<identity, pristine, tasks, runName>> /\ parked'[n] \subseteq parked[n]
    BY <1>7 DEF StartRefused, StopIdle, FetchMeta, FetchRows, FetchRefused,
       StartLocalFails, Resume
  <2> QED
    BY <1>1, <1>4, <2>1, <2>2 DEF identity, tasks, Running, Acknowledged
<1>8. ASSUME NEW req \in InFlight(n), StartLocal(n, req)
       PROVE  Held' /\ Fresh'
  <2>1. phase # "configure"
    BY <1>8, CommandsByPhase DEF StartLocal, Take, FlightInv
  <2>2. UNCHANGED <<identity, pristine, tasks, runName>> /\ ready[n]
    BY <1>8 DEF StartLocal, MayStart
  <2> QED
    BY <1>1, <1>4, <2>1, <2>2 DEF identity, tasks, Running, Acknowledged
<1>9. ASSUME NEW req \in InFlight(n),
             \/ StartRelay(n, req) \/ StartRelayFails(n, req)
             \/ StartLocalDone(n, req)
      PROVE  Held' /\ Fresh'
  <2>1. phase # "configure"
    BY <1>9, CommandsByPhase DEF StartRelay, StartRelayFails, StartLocalDone, Take,
       Resume, FlightInv
  <2>2. UNCHANGED identity /\ parked'[n] \subseteq parked[n]
    BY <1>9 DEF StartRelay, StartRelayFails, StartLocalDone, Resume
  <2>3. n \in Relays \/ Running(n)'
    BY <1>9 DEF StartRelay, StartRelayFails, StartLocalDone, Running
  <2> QED
    BY <1>1, <1>4, <2>1, <2>2, <2>3 DEF identity, Acknowledged
<1>10. ASSUME NEW req \in InFlight(n),
             \/ StopRelay(n, req) \/ StopRelayFails(n, req)
             \/ StopLocal(n, req) \/ StopLocalDone(n, req)
             \/ StopLocalFails(n, req)
      PROVE  Held' /\ Fresh'
  <2>1. phase \notin {"configure", "start", "event"}
    BY <1>10, CommandsByPhase DEF StopRelay, StopRelayFails, StopLocal, StopLocalDone, StopLocalFails, Take, Resume,
       FlightInv
  <2> QED
    BY <1>1, <2>1 DEF Acknowledged
<1>11. ASSUME \/ ControlStep(n) \/ ControlStepRaises(n)
              \/ StrayStep(n)   \/ BoardReport(n)
       PROVE  Held' /\ Fresh'
  BY <1>1, <1>4, <1>11 DEF ControlStep, ControlStepRaises, StrayStep, BoardReport,
     identity, tasks, Running, Acknowledged, Acked, FlightInv, TaskInv
<1>12. ASSUME Restart(n) PROVE Held' /\ Fresh'
  BY <1>1, <1>12 DEF Restart, Acknowledged, Acked
<1>13. Held' /\ Fresh'
  BY <1>5, <1>6, <1>7, <1>8, <1>9, <1>10, <1>11, <1>12
  DEF AgentNext, Serve, Handle, InFlight
<1> QED
  BY <1>1, <1>3, <1>13 DEF ConfiguredInv

LEMMA AgentStepKnown ==
  ASSUME TypeOK, PlanInv, NEW n \in Nodes, AgentNext(n), UNCHANGED hubVars,
         FlightInv(n), KnownInv(n)
  PROVE  KnownInv(n)'
<1> USE DEF TypeOK, AgentTypeOK, ConfigurationOK, WireOK
<1>1. /\ UNCHANGED <<run, phase, event, missed, assignments, configured, started,
                     failed, waiting>>
      /\ InFlight(n)' \subseteq InFlight(n)
  BY AgentStepWire, AgentKeepsWaiting DEF hubVars, plan, outcomes, FlightInv
<1> DEFINE Bound == n \notin missed /\ (\/ phase \in {"event", "stop", "fetch"}
                                        \/ phase = "done" /\ Ok(n))
           Pends == phase = "event" /\ waiting[n] # None /\ ~Acked(n)
<1> SUFFICES ASSUME Bound
             PROVE  assignment'[n] \in {None, assignments[n]} \/ Pends'
  BY <1>1 DEF KnownInv, Ok
<1>2. /\ \A q \in InFlight(n) : q.cmd = "configure" =>
              q.id = waiting[n] /\ q.cfg = assignments[n]
      /\ assignment[n] \in {None, assignments[n]} \/ Pends
  BY DEF KnownInv
<1>3. \A q \in InFlight(n) : q.id = waiting[n] =>
         (q.cmd = "configure" <=> phase = "event")
  BY RequestIs, AgentAssumption
  DEF FlightInv, Awaited, Shape, Made, CommandOf
<1>4. ASSUME NEW req \in InFlight(n), Configure(n, req)
      PROVE  assignment'[n] = assignments[n]
  BY <1>2, <1>4 DEF Configure, Take
<1>5. ASSUME NEW req \in InFlight(n), ConfigureFails(n, req)
      PROVE  Pends'
  <2>1. req.id = waiting[n] /\ phase = "event"
    BY <1>2, <1>3, <1>5 DEF ConfigureFails, Take
  <2>2. outbox'[n] = Bad /\ waiting[n] # None
    BY <1>5, <2>1, RequestIs, AgentAssumption DEF ConfigureFails, Respond
  <2> QED
    BY <1>1, <2>1, <2>2 DEF Acked, Bad
<1>6. ASSUME NEW req \in InFlight(n),
             \/ StartRefused(n, req) \/ StopIdle(n, req)
             \/ FetchMeta(n, req)    \/ FetchRows(n, req)
             \/ FetchRefused(n, req) \/ StartRelay(n, req)
             \/ StartRelayFails(n, req) \/ StartLocal(n, req)
             \/ StopRelay(n, req)    \/ StopLocal(n, req)
             \/ StopRelayFails(n, req)
      PROVE  assignment'[n] = assignment[n] /\ (Pends => Pends')
  BY <1>1, <1>3, <1>6 DEF StartRefused, StopIdle, FetchMeta, FetchRows, FetchRefused,
     StartRelay, StartRelayFails, StartLocal, StopRelay, StopRelayFails, StopLocal, Take, Respond,
     identity, Acked
<1>7. ASSUME NEW req \in InFlight(n),
             \/ StartLocalDone(n, req) \/ StartLocalFails(n, req)
             \/ StopLocalDone(n, req)  \/ StopLocalFails(n, req)
      PROVE  assignment'[n] = assignment[n] /\ (Pends => Pends')
  BY <1>1, <1>3, <1>7 DEF StartLocalDone, StartLocalFails, StopLocalDone, StopLocalFails, Resume,
     Respond, identity, Acked
<1>8. ASSUME \/ ControlStep(n) \/ ControlStepRaises(n)
             \/ StrayStep(n)   \/ BoardReport(n)
      PROVE  assignment'[n] = assignment[n] /\ (Pends => Pends')
  BY <1>1, <1>8 DEF ControlStep, ControlStepRaises, StrayStep, BoardReport,
     identity, Acked
<1>9. CASE Restart(n)
  BY <1>9 DEF Restart
<1> QED
  BY <1>1, <1>2, <1>4, <1>5, <1>6, <1>7, <1>8, <1>9
  DEF AgentNext, Serve, Handle, InFlight

(* A closed log stays as it is unless a start opens another.               *)
LEMMA LogSealed ==
  ASSUME AgentTypeOK, NEW n \in Nodes, AgentNext(n), ~logOpen[n],
         \A q \in InFlight(n) : q.cmd # "start"
  PROVE  /\ ~logOpen'[n] /\ rows'[n] = rows[n]
         /\ final[n] \subseteq final'[n]
<1> USE DEF AgentTypeOK, LogsOK
<1>1. ASSUME NEW req \in InFlight(n),
             \/ Configure(n, req)    \/ ConfigureFails(n, req)
             \/ StartRefused(n, req) \/ StopIdle(n, req)
             \/ FetchMeta(n, req)    \/ FetchRows(n, req)
             \/ FetchRefused(n, req) \/ StartLocalDone(n, req)
             \/ StartLocalFails(n, req) \/ StopLocal(n, req)
      PROVE  ~logOpen'[n] /\ rows'[n] = rows[n] /\ final'[n] = final[n]
  BY <1>1 DEF Configure, ConfigureFails, StartRefused, StopIdle, FetchMeta,
     FetchRows, FetchRefused, StartLocalDone, StartLocalFails, StopLocal, logs
<1>2. ASSUME NEW req \in InFlight(n),
             \/ StartRelay(n, req) \/ StartRelayFails(n, req)
             \/ StartLocal(n, req)
      PROVE  FALSE
  BY <1>2 DEF StartRelay, StartRelayFails, StartLocal, Take
<1>3. ASSUME NEW req \in InFlight(n),
             \/ StopRelay(n, req)     \/ StopRelayFails(n, req)
             \/ StopLocalDone(n, req) \/ StopLocalFails(n, req)
      PROVE  ~logOpen'[n] /\ rows'[n] = rows[n] /\ final[n] \subseteq final'[n]
  BY <1>3 DEF StopRelay, StopRelayFails, StopLocalDone, StopLocalFails, Finalize,
     FinalizeFails
<1>4. CASE ControlStep(n) \/ ControlStepRaises(n) \/ StrayStep(n) \/ BoardReport(n)
  BY <1>4 DEF ControlStep, ControlStepRaises, StrayStep, BoardReport, logs
<1>5. CASE Restart(n)
  BY <1>5 DEF Restart
<1> QED
  BY <1>1, <1>2, <1>3, <1>4, <1>5 DEF AgentNext, Serve, Handle, InFlight

LEMMA AgentStepOpened ==
  ASSUME TypeOK, NEW n \in Nodes, AgentNext(n), UNCHANGED hubVars, FlightInv(n),
         phase = "start", \A q \in parked[n] : Opened(n)
  PROVE  \A q \in parked'[n] : Opened(n)'
<1> USE DEF TypeOK, AgentTypeOK, ConfigurationOK, TasksOK, LogsOK, WireOK, Opened
<1>1. /\ run' = run /\ run \in Runs
      /\ \A q \in InFlight(n) : q.cmd = "start" /\ q.run = run
  BY CommandsByPhase DEF hubVars, plan, PlanOK, FlightInv, Shape
<1>2. parked[n] # {} => n \notin Relays /\ loops[n] = "none"
  BY <1>1 DEF FlightInv, TaskInv, InFlight
<1>3. ASSUME NEW req \in InFlight(n), StartLocal(n, req)
      PROVE  Opened(n)'
  BY <1>1, <1>3 DEF StartLocal, OpenLog, Take, MayStart, identity
<1>4. ASSUME NEW req \in InFlight(n), StartRefused(n, req)
      PROVE  \A q \in parked'[n] : Opened(n)'
  BY <1>1, <1>4 DEF StartRefused, logs, identity
<1>5. ASSUME NEW req \in InFlight(n),
             StartRelay(n, req) \/ StartRelayFails(n, req)
      PROVE  parked'[n] = {}
  BY <1>5 DEF StartRelay, StartRelayFails, FlightInv, TaskInv
<1>6. ASSUME NEW req \in InFlight(n),
             StartLocalDone(n, req) \/ StartLocalFails(n, req)
      PROVE  \A q \in parked'[n] : Opened(n)'
  BY <1>1, <1>6 DEF StartLocalDone, StartLocalFails, Resume, logs, identity
<1>7. ASSUME NEW req \in InFlight(n),
             \/ Configure(n, req)  \/ ConfigureFails(n, req)
             \/ StopIdle(n, req)   \/ StopRelay(n, req)
             \/ StopRelayFails(n, req) \/ StopLocalFails(n, req)
             \/ StopLocal(n, req)  \/ StopLocalDone(n, req)
             \/ FetchMeta(n, req)  \/ FetchRows(n, req)
             \/ FetchRefused(n, req)
      PROVE  FALSE
  BY <1>1, <1>7 DEF Configure, ConfigureFails, StopIdle, StopRelay, StopRelayFails, StopLocal,
     StopLocalDone, StopLocalFails, FetchMeta, FetchRows, FetchRefused, Take, Resume
<1>8. CASE ControlStep(n) \/ ControlStepRaises(n) \/ StrayStep(n) \/ BoardReport(n)
  BY <1>1, <1>2, <1>8 DEF ControlStep, ControlStepRaises, StrayStep, BoardReport,
     logs, identity, FlightInv, TaskInv
<1>9. CASE Restart(n)
  BY <1>9 DEF Restart
<1> QED
  BY <1>3, <1>4, <1>5, <1>6, <1>7, <1>8, <1>9
  DEF AgentNext, Serve, Handle, InFlight

LEMMA AgentStepJoins ==
  ASSUME TypeOK, PlanInv, NEW n \in Nodes, AgentNext(n), UNCHANGED hubVars,
         FlightInv(n), ConfiguredInv(n), phase = "start",
         \A q \in parked[n] : Opened(n),
         ~Acked(n), Acked(n)'
  PROVE  InIt(n)' /\ OneArm(n)' /\ (\A q \in InFlight(n)' : q.cmd # "start")
<1> USE DEF TypeOK, AgentTypeOK, ConfigurationOK, TasksOK, LogsOK, WireOK
<1>1. UNCHANGED <<run, phase, assignments>> /\ run \in Runs
  BY DEF hubVars, plan, PlanOK
<1>2. \A p, q \in InFlight(n) : p = q /\ q.cmd = "start" /\ q.run = run
  <2>1. \A q \in InFlight(n) : q.cmd = "start" /\ q.run = run
    BY CommandsByPhase DEF FlightInv, Shape
  <2> QED
    BY <2>1 DEF FlightInv, Distinct
<1>3. /\ InFlight(n)' \subseteq InFlight(n)
      /\ conn'[n] = conn[n]
      /\ \E req \in InFlight(n) : req.id = waiting[n] /\ req \notin InFlight(n)'
  BY AgentStepWire DEF FlightInv, Acked
<1>4. InFlight(n)' = {} /\ conn'[n] = "open"
  BY <1>2, <1>3 DEF FlightInv, Awaited
<1>5. GoodCfg(n, assignments[n])
  BY FleetAssumption DEF PlanInv, PlanOK, GoodCfg
<1>6. assignment[n] # None => GoodCfg(n, built[n])
  BY <1>5 DEF ConfiguredInv
<1>7. \A c : GoodCfg(n, c)' <=> GoodCfg(n, c)
  BY <1>1 DEF GoodCfg
<1> DEFINE Goal == /\ runName'[n] = run /\ logRun'[n] = run
                   /\ n \notin Relays => loops'[n] # "none"
                   /\ GoodCfg(n, built'[n]) /\ rows'[n][run] = {}
<1>8. ASSUME NEW req \in InFlight(n), StartRelay(n, req)
      PROVE  Goal
  <2>1. req.run = run /\ n \in Relays /\ built' = built /\ assignment[n] # None
    BY <1>2, <1>8 DEF StartRelay, MayStart, identity
  <2>2. runName'[n] = run /\ logRun'[n] = run
    BY <1>1, <1>8, <2>1 DEF StartRelay, OpenLog
  <2>3. rows'[n][run] = {}
    BY <1>1, <1>8, <2>1 DEF StartRelay, OpenLog
  <2> QED
    BY <1>6, <2>1, <2>2, <2>3
<1>9. ASSUME NEW req \in InFlight(n), StartLocalDone(n, req)
      PROVE  Goal
  BY <1>2, <1>6, <1>9 DEF StartLocalDone, Resume, Opened, logs, identity
<1>10. ASSUME NEW req \in InFlight(n),
              \/ StartRefused(n, req) \/ StartRelayFails(n, req)
              \/ StartLocal(n, req)   \/ StartLocalFails(n, req)
       PROVE  FALSE
  BY <1>10 DEF StartRefused, StartRelayFails, StartLocal, StartLocalFails, Respond,
     Bad, Acked
<1>11. ASSUME NEW req \in InFlight(n),
              \/ Configure(n, req)  \/ ConfigureFails(n, req)
              \/ StopIdle(n, req)   \/ StopRelay(n, req)
              \/ StopRelayFails(n, req) \/ StopLocalFails(n, req)
              \/ StopLocal(n, req)  \/ StopLocalDone(n, req)
              \/ FetchMeta(n, req)  \/ FetchRows(n, req)
              \/ FetchRefused(n, req)
       PROVE  FALSE
  BY <1>2, <1>11 DEF Configure, ConfigureFails, StopIdle, StopRelay, StopRelayFails, StopLocal,
     StopLocalDone, StopLocalFails, FetchMeta, FetchRows, FetchRefused, Take, Resume
<1>12. ASSUME \/ ControlStep(n) \/ ControlStepRaises(n) \/ StrayStep(n)
              \/ BoardReport(n) \/ Restart(n)
       PROVE  FALSE
  BY <1>12 DEF ControlStep, ControlStepRaises, StrayStep, BoardReport, Restart, Acked
<1>13. Goal
  BY <1>8, <1>9, <1>10, <1>11, <1>12 DEF AgentNext, Serve, Handle, InFlight
<1> QED
  BY <1>1, <1>4, <1>7, <1>13 DEF InIt, OneArm
(* Its stop is the one in flight, and ends its log.                        *)
LEMMA StopInFlight ==
  ASSUME TypeOK, NEW n \in Nodes, FlightInv(n), Joined(n), InIt(n),
         NEW q \in InFlight(n), q.cmd = "stop",
         phase \in {"start", "event"} \/ Stopping(n)
  PROVE  /\ phase = "stop" /\ q.id = waiting[n] /\ waiting[n] # None
         /\ outbox[n] = None /\ conn[n] = "open" /\ logRun[n] = run
         /\ n \in Relays => runName[n] = run
         /\ n \notin Relays => loops[n] # "none"
<1>1. Shape(n) /\ Awaited(n)
  BY DEF FlightInv
<1>2. phase = "stop" /\ waiting[n] # None
  BY <1>1, CommandsByPhase DEF Stopping
<1>3. q.id[2] = "stop" /\ q.id[3] = event /\ q.id[1] = run
  BY <1>1, <1>2, RequestIs DEF Shape, Made, CommandOf, Steps
<1>4. q.id = <<run, "stop", event>>
  BY <1>3, RequestIs
<1>5. waiting[n] = <<run, "stop", event>>
  BY <1>1, <1>2 DEF Awaited
<1> QED
  BY <1>1, <1>2, <1>4, <1>5 DEF Awaited, InIt, Stopping

LEMMA AgentStepInIt ==
  ASSUME TypeOK, NEW n \in Nodes, AgentNext(n), UNCHANGED hubVars, FlightInv(n),
         Joined(n), InIt(n), \A q \in InFlight(n) : q.cmd # "start", Joined(n)'
  PROVE  InIt(n)'
<1> USE DEF TypeOK, AgentTypeOK, TasksOK, LogsOK, WireOK
<1>1. UNCHANGED <<run, phase, event, waiting>> /\ (phase # "done" => run \in Runs)
  BY AgentKeepsWaiting DEF hubVars, plan, PlanOK
<1>2. /\ conn'[n] = conn[n] \/ InFlight(n)' = {}
      /\ \/ outbox'[n] = outbox[n]
         \/ \E req \in InFlight(n) : req.id = waiting[n]
  BY AgentStepWire DEF FlightInv
<1>3. CASE ~(phase \in {"start", "event"} \/ Stopping(n))
  <2>1. ~Stopping(n)'
    BY <1>1, <1>2, <1>3 DEF Stopping, FlightInv, Awaited
  <2>2. ~logOpen'[n] /\ final[n] \subseteq final'[n]
    BY <1>3, LogSealed DEF InIt
  <2> QED
    BY <1>1, <1>3, <2>1, <2>2 DEF InIt
<1>4. CASE phase \in {"start", "event"} \/ Stopping(n)
  <2> DEFINE On == /\ conn[n] \in {"open", "stale"}
                   /\ conn[n] = "open" => /\ runName[n] = run /\ logRun[n] = run
                                          /\ n \notin Relays => loops[n] # "none"
  <2>1. On /\ run \in Runs
    BY <1>1, <1>4 DEF InIt, Stopping
  <2>2. \A q \in InFlight(n) : phase = "stop" /\ q.id = waiting[n] => q.cmd = "stop"
    BY AgentAssumption, RequestIs DEF FlightInv, Awaited, Shape, CommandOf
  <2>3. ASSUME NEW req \in InFlight(n),
               \/ Configure(n, req)  \/ ConfigureFails(n, req)
               \/ StopLocal(n, req)  \/ FetchMeta(n, req)
               \/ FetchRows(n, req)  \/ FetchRefused(n, req)
        PROVE  On' /\ (Stopping(n) => Stopping(n)')
    BY <1>1, <2>1, <2>3, <2>2 DEF Configure, ConfigureFails, StopLocal, FetchMeta,
       FetchRows, FetchRefused, Take, Respond, Stopping, tasks, logs, clientVars
  <2>4. ASSUME NEW req \in InFlight(n), StopIdle(n, req)
        PROVE  FALSE
    <3>1. req.cmd = "stop" /\ ~Running(n)
      BY <2>4 DEF StopIdle, Take
    <3>2. /\ n \in Relays => runName[n] # None
          /\ n \notin Relays => loops[n] # "none"
      BY <1>4, <2>1, <3>1, StopInFlight, AgentAssumption
    <3> QED
      BY <3>1, <3>2 DEF Running
  <2>5. ASSUME NEW req \in InFlight(n), StopRelay(n, req) \/ StopLocalDone(n, req)
        PROVE  InIt(n)'
    <3>1. req.cmd = "stop"
      BY <2>5 DEF StopRelay, StopRelayFails, StopLocalDone, StopLocalFails, Take, Resume
    <3>2. phase = "stop" /\ req.id = waiting[n] /\ logRun[n] = run
      BY <1>4, <3>1, StopInFlight
    <3>3. run \in final'[n] /\ ~logOpen'[n]
      BY <2>1, <2>5, <3>2, AgentAssumption DEF StopRelay, StopRelayFails, StopLocalDone, StopLocalFails, Finalize,
     FinalizeFails
    <3>4. outbox'[n] # None
      <4>1. HasSamples(n) \in BOOLEAN
        BY DEF HasSamples
      <4>2. Stopped(HasSamples(n)) # None
        BY <4>1, ReplyTypes, AgentAssumption
      <4> QED
        BY <2>5, <3>2, <4>2 DEF StopRelay, StopRelayFails, StopLocalDone, StopLocalFails, Respond
    <3> QED
      BY <1>1, <3>2, <3>3, <3>4 DEF InIt, Stopping
  <2>6. ASSUME \/ ControlStep(n) \/ ControlStepRaises(n)
               \/ StrayStep(n)   \/ BoardReport(n)
        PROVE  On' /\ (Stopping(n) => Stopping(n)')
    BY <1>1, <2>1, <2>6 DEF ControlStep, ControlStepRaises, StrayStep, BoardReport,
       Stopping, tasks, logs, clientVars
  <2>7. ASSUME Restart(n)
        PROVE  On' /\ (Stopping(n) => Stopping(n)')
    BY <1>1, <2>1, <2>7 DEF Restart, Stopping
  <2>8. ASSUME NEW req \in InFlight(n),
               \/ StartRefused(n, req)    \/ StartRelay(n, req)
               \/ StartRelayFails(n, req) \/ StartLocal(n, req)
               \/ StartLocalDone(n, req)  \/ StartLocalFails(n, req)
        PROVE  FALSE
    BY <2>8 DEF StartRefused, StartRelay, StartRelayFails, StartLocal,
       StartLocalDone, StartLocalFails, Take, Resume
  <2>9. ASSUME NEW req \in InFlight(n), StopRelayFails(n, req) \/ StopLocalFails(n, req)
         PROVE  FALSE
    <3>1. req.cmd = "stop"
      BY <2>9 DEF StopRelayFails, StopLocalFails, Take, Resume
    <3>2. phase = "stop" /\ req.id = waiting[n]
      BY <1>4, <3>1, StopInFlight
    <3>3. outbox'[n] = Bad
      BY <2>9, <3>2 DEF StopRelayFails, StopLocalFails, Respond
    <3>4. Bad # None /\ ~Bad.ok
      BY ReplyTypes, AgentAssumption DEF Bad
    <3> QED
      BY <1>1, <3>2, <3>3, <3>4 DEF Joined
  <2>10. InIt(n)' \/ (On' /\ (Stopping(n) => Stopping(n)'))
    BY <2>3, <2>4, <2>5, <2>6, <2>7, <2>8, <2>9 DEF AgentNext, Serve, Handle, InFlight
  <2> QED
    BY <1>1, <1>4, <2>10 DEF InIt
<1> QED
  BY <1>3, <1>4
LEMMA AgentStepOneArm ==
  ASSUME TypeOK, PlanInv, NEW n \in Nodes, AgentNext(n), UNCHANGED hubVars,
         FlightInv(n), KnownInv(n), Joined(n), Refused(n) \/ OneArm(n),
         \A q \in InFlight(n) : q.cmd # "start"
  PROVE  Refused(n)' \/ OneArm(n)'
<1> USE DEF TypeOK, AgentTypeOK, ConfigurationOK, TasksOK, LogsOK, WireOK
<1>1. UNCHANGED <<run, phase, waiting>> /\ run \in Runs
  <2>1. run \in Runs
    BY DEF Joined, PlanInv, PlanOK
  <2>2. waiting' = waiting
    BY AgentKeepsWaiting
  <2> QED
    BY <2>1, <2>2 DEF hubVars, plan
<1>2. \A c : GoodCfg(n, c)' <=> GoodCfg(n, c)
  BY <1>1 DEF GoodCfg
<1>3. CASE Refused(n)
  <2>1. \A q \in InFlight(n) : q.id # waiting[n]
    BY <1>3 DEF Refused, FlightInv, Awaited
  <2>2. outbox'[n] = outbox[n]
    BY <2>1, AgentStepWire DEF FlightInv
  <2> QED
    BY <1>1, <1>3, <2>2 DEF Refused
<1>4. CASE OneArm(n)
  <2>1. ASSUME NEW req \in InFlight(n), Configure(n, req)
        PROVE  OneArm(n)'
    BY <1>1, <1>2, <1>4, <2>1 DEF Configure, Take, logs, OneArm, FlightInv, Shape
  <2>2. ASSUME NEW req \in InFlight(n), ConfigureFails(n, req)
        PROVE  Refused(n)'
    <3>1. req.cmd = "configure" /\ req.id[2] \in {"configure", "event"}
      BY <2>2, RequestIs DEF ConfigureFails, Take, FlightInv, Shape, CommandOf, Steps
    <3>2. phase \in {"event", "stop", "fetch"} \/ (phase = "done" /\ Ok(n))
      BY <3>1, CommandsByPhase DEF Joined, Ok, PlanInv, FlightInv
    <3>3. req.id = waiting[n] /\ waiting[n] # None
      BY <3>1, <3>2, RequestIs, AgentAssumption DEF KnownInv, Joined
    <3>4. phase = "event"
      BY <3>1, <3>2, <3>3 DEF FlightInv, Awaited
    <3>5. outbox'[n] = Bad
      BY <2>2, <3>3 DEF ConfigureFails, Respond
    <3>6. Bad # None /\ ~Bad.ok
      BY ReplyTypes, AgentAssumption DEF Bad
    <3> QED
      BY <1>1, <3>4, <3>5, <3>6 DEF Refused
  <2>3. ASSUME NEW req \in InFlight(n),
               \/ StopIdle(n, req)   \/ StopRelay(n, req)
               \/ StopRelayFails(n, req) \/ StopLocalFails(n, req)
               \/ StopLocal(n, req)  \/ StopLocalDone(n, req)
               \/ FetchMeta(n, req)  \/ FetchRows(n, req)
               \/ FetchRefused(n, req)
        PROVE  OneArm(n)'
    BY <1>1, <1>2, <1>4, <2>3 DEF StopIdle, StopRelay, StopRelayFails, StopLocal, StopLocalDone, StopLocalFails,
       FetchMeta, FetchRows, FetchRefused, Finalize, FinalizeFails, identity, logs, OneArm
  <2>4. ASSUME NEW req \in InFlight(n),
               \/ StartRefused(n, req)    \/ StartRelay(n, req)
               \/ StartRelayFails(n, req) \/ StartLocal(n, req)
               \/ StartLocalDone(n, req)  \/ StartLocalFails(n, req)
        PROVE  FALSE
    BY <2>4 DEF StartRefused, StartRelay, StartRelayFails, StartLocal,
       StartLocalDone, StartLocalFails, Take, Resume
  <2>5. ASSUME ControlStep(n) \/ BoardReport(n)
        PROVE  OneArm(n)'
    <3>1. /\ UNCHANGED <<built, logRun, logOpen>>
          /\ \/ rows' = rows
             \/ logOpen[n] /\ rows' = [rows EXCEPT ![n][logRun[n]] = @ \cup {built[n]}]
      BY <2>5 DEF ControlStep, BoardReport, Append, identity
    <3>2. \A c \in rows'[n][run] : c \in rows[n][run] \/ (logOpen[n] /\ c = built[n])
      BY <1>1, <1>4, <3>1 DEF OneArm
    <3> QED
      BY <1>1, <1>2, <1>4, <3>1, <3>2 DEF OneArm
  <2>6. CASE ControlStepRaises(n) \/ StrayStep(n)
    BY <1>1, <1>2, <1>4, <2>6 DEF ControlStepRaises, StrayStep, identity, logs,
       OneArm, FlightInv, TaskInv
  <2>7. ASSUME Restart(n)
        PROVE  OneArm(n)'
    <3>1. ~logOpen'[n] /\ rows'[n][run] \subseteq rows[n][run]
      BY <1>1, <1>4, <2>7 DEF Restart, OneArm
    <3> QED
      BY <1>2, <1>4, <3>1 DEF OneArm, hubVars, plan
  <2> QED
    BY <2>1, <2>2, <2>3, <2>4, <2>5, <2>6, <2>7
    DEF AgentNext, Serve, Handle, InFlight
<1> QED
  BY <1>3, <1>4

LEMMA AgentStepJoined ==
  ASSUME TypeOK, PlanInv, NEW n \in Nodes, AgentNext(n), UNCHANGED hubVars,
         FlightInv(n), ConfiguredInv(n), KnownInv(n), JoinedInv(n)
  PROVE  JoinedInv(n)'
<1>1. UNCHANGED <<phase, run, started, failed, missed>>
  BY DEF hubVars, plan, outcomes
<1>2. phase' = "start" => \A q \in parked'[n] : Opened(n)'
  BY <1>1, AgentStepOpened DEF JoinedInv
<1>3. ASSUME Joined(n)'
      PROVE  /\ \A q \in InFlight(n)' : q.cmd # "start"
             /\ InIt(n)' /\ (Refused(n)' \/ OneArm(n)')
  <2>1. CASE Joined(n)
    <3>1. \A q \in InFlight(n)' : q.cmd # "start"
      BY <2>1, AgentStepWire DEF JoinedInv, FlightInv, TypeOK
    <3> QED
      BY <1>3, <2>1, <3>1, AgentStepInIt, AgentStepOneArm DEF JoinedInv
  <2>2. CASE ~Joined(n)
    <3>1. phase = "stop" /\ outbox[n] # None => outbox'[n] = outbox[n]
      BY AgentStepWire DEF FlightInv, Awaited, TypeOK
    <3>2. phase = "start" /\ ~Acked(n) /\ Acked(n)'
      BY <1>1, <1>3, <2>2, <3>1 DEF Joined
    <3> QED
      BY <3>2, AgentStepJoins DEF JoinedInv
  <2> QED
    BY <2>1, <2>2
<1> QED
  BY <1>2, <1>3 DEF JoinedInv
LEMMA AgentStepCollect ==
  ASSUME TypeOK, PlanInv, NEW n \in Nodes, AgentNext(n), UNCHANGED hubVars,
         FlightInv(n), JoinedInv(n), CollectInv(n)
  PROVE  CollectInv(n)'
<1> USE DEF TypeOK, AgentTypeOK, LogsOK, WireOK
<1>1. UNCHANGED <<run, phase, event, todo, waiting, started, failed, missed, got>>
  BY AgentKeepsWaiting DEF hubVars, plan, outcomes
<1>2. SUFFICES ASSUME Joined(n)', phase \in {"fetch", "done"}
               PROVE  /\ rows'[n] = rows[n]
                      /\ phase = "fetch" /\ waiting[n] = <<run, "rows", event>>
                           /\ Acked(n)' => outbox'[n].rows = rows[n][run]
  BY <1>1 DEF CollectInv, Joined
<1>3. Joined(n)
  BY <1>1, <1>2 DEF Joined
<1>4. ~logOpen[n] /\ \A q \in InFlight(n) : q.cmd # "start"
  BY <1>2, <1>3 DEF JoinedInv, InIt, Stopping
<1>5. rows'[n] = rows[n]
  BY <1>4, LogSealed
<1>6. ASSUME phase = "fetch", waiting[n] = <<run, "rows", event>>, Acked(n)'
      PROVE  outbox'[n].rows = rows[n][run]
  <2>1. CASE outbox'[n] = outbox[n]
    BY <1>3, <1>6, <2>1 DEF CollectInv, Acked
  <2>2. CASE outbox'[n] # outbox[n]
    <3>1. \A q \in InFlight(n) : q.id = waiting[n] => q.cmd = "rows" /\ q.run = run
      BY <1>6, RequestIs, SMTT(30) DEF FlightInv, Shape, CommandOf
    <3>2. ASSUME NEW req \in InFlight(n), FetchRows(n, req)
          PROVE  outbox'[n].rows = rows[n][run]
      <4>1. PICK s \in OnDisk(n, req.run) : Respond(n, req, Blob(s))
        BY <3>2 DEF FetchRows
      <4>2. req.id = waiting[n] /\ outbox'[n] = Blob(s)
        BY <2>2, <4>1 DEF Respond
      <4>3. s = rows[n][run]
        BY <1>4, <3>1, <4>2 DEF OnDisk
      <4> QED
        BY <4>2, <4>3 DEF Blob
    <3>3. ASSUME NEW req \in InFlight(n), FetchRefused(n, req)
          PROVE  FALSE
      BY <1>6, <2>2, <3>3 DEF FetchRefused, Respond, Bad, Acked
    <3>4. ASSUME NEW req \in InFlight(n),
                 \/ Configure(n, req)    \/ ConfigureFails(n, req)
                 \/ StartRefused(n, req) \/ StopIdle(n, req)
                 \/ FetchMeta(n, req)    \/ StartRelay(n, req)
                 \/ StartRelayFails(n, req) \/ StopRelay(n, req)
             \/ StopRelayFails(n, req)
          PROVE  FALSE
      BY <2>2, <3>1, <3>4 DEF Configure, ConfigureFails, StartRefused, StopIdle,
         FetchMeta, StartRelay, StartRelayFails, StopRelay, StopRelayFails, Take, Respond
    <3>5. ASSUME NEW req \in InFlight(n),
                 \/ StartLocal(n, req)      \/ StopLocal(n, req)
                 \/ StartLocalDone(n, req)  \/ StartLocalFails(n, req)
                 \/ StopLocalDone(n, req)  \/ StopLocalFails(n, req)
          PROVE  FALSE
      BY <2>2, <3>1, <3>5 DEF StartLocal, StopLocal, StartLocalDone,
         StartLocalFails, StopLocalDone, StopLocalFails, Resume, Respond
    <3>6. CASE \/ ControlStep(n) \/ ControlStepRaises(n) \/ StrayStep(n)
               \/ BoardReport(n) \/ Restart(n)
      BY <2>2, <3>6 DEF ControlStep, ControlStepRaises, StrayStep, BoardReport,
         Restart
    <3> QED
      BY <3>2, <3>3, <3>4, <3>5, <3>6 DEF AgentNext, Serve, Handle, InFlight
  <2> QED
    BY <2>1, <2>2
<1> QED
  BY <1>5, <1>6

LEMMA PlanKept == PlanInv /\ UNCHANGED <<hubVars, waiting>> => PlanInv'
BY DEF PlanInv, GoodCfg, hubVars, plan, outcomes

LEMMA AgentStepInv ==
  ASSUME TypeOK, RunInv, NEW n \in Nodes, AgentNext(n), UNCHANGED hubVars
  PROVE  RunInv'
<1>1. PlanInv /\ \A m \in Nodes : NodeInv(m)
  BY DEF RunInv
<1>2. PlanInv'
  BY <1>1, PlanKept, AgentKeepsWaiting
<1>3. NodeInv(n)'
  <2>1. AgentTypeOK /\ NodeInv(n)
    BY <1>1 DEF TypeOK
  <2>2. FlightInv(n)'
    BY <2>1, AgentStepFlight, AgentStepTasks DEF NodeInv, FlightInv
  <2>3. ClearInv(n)' /\ ConfiguredInv(n)' /\ KnownInv(n)'
    BY <1>1, <2>1, AgentStepClear, AgentStepConfigured, AgentStepKnown DEF NodeInv
  <2>4. JoinedInv(n)' /\ CollectInv(n)'
    BY <1>1, <2>1, AgentStepJoined, AgentStepCollect DEF NodeInv
  <2> QED
    BY <2>2, <2>3, <2>4 DEF NodeInv
<1>4. ASSUME NEW m \in Nodes, m # n
      PROVE  NodeInv(m)'
  <2>1. HubSame(m)
    BY DEF HubSame, hubVars, plan, outcomes
  <2> QED
    BY <1>1, <1>4, <2>1, StepIsLocal, OthersKept DEF TypeOK
<1> QED
  BY <1>2, <1>3, <1>4 DEF RunInv

-----------------------------------------------------------------------------
(* A call, at one of the nodes it is made to.                              *)

\* The request of a call, when the agent's process is there to receive it.
Asks(q, id, cmd, n) ==
  /\ q.id = id /\ q.cmd = cmd
  /\ cmd \in {"start", "meta", "rows"} => q.run = run'
  /\ cmd = "configure" => q.cfg = assignments'[n]

Sent(n, id, cmd) ==
  /\ waiting'[n] = id
  /\ \/ conn'[n] = "stale" /\ inbox'[n] = inbox[n]
     \/ conn'[n] = "open" /\ \E q : /\ Asks(q, id, cmd, n)
                                    /\ inbox'[n] = inbox[n] \cup {q}

LEMMA CallSends ==
  ASSUME NEW S \in SUBSET Nodes, NEW step, NEW cmd,
         NEW on \in [Nodes -> {"none", "open", "stale"}],
         Call(S, step, cmd, on), NEW n \in Nodes
  PROVE  /\ n \in S => /\ Sent(n, <<run', step, event'>>, cmd)
                       /\ on[n] = conn'[n] \/ on[n] = "none"
         /\ n \notin S => /\ inbox'[n] = inbox[n] /\ conn'[n] = on[n]
                          /\ waiting'[n] = waiting[n]
<1> DEFINE q == [id |-> <<run', step, event'>>, cmd |-> cmd,
                 run |-> IF cmd \in {"start", "meta", "rows"} THEN run' ELSE None,
                 cfg |-> IF cmd = "configure" THEN assignments'[n] ELSE None]
<1>1. Asks(q, <<run', step, event'>>, cmd, n)
  BY DEF Asks
<1>2. /\ inbox'[n] = IF n \in S /\ on[n] # "stale" THEN inbox[n] \cup {q} ELSE inbox[n]
      /\ conn'[n] = IF n \in S /\ on[n] = "none" THEN "open" ELSE on[n]
      /\ waiting'[n] = IF n \in S THEN <<run', step, event'>> ELSE waiting[n]
  BY DEF Call
<1> HIDE DEF q
<1> QED
  BY <1>1, <1>2 DEF Sent

(* The new request takes its place among those in flight.                  *)
LEMMA SentFlight ==
  ASSUME TypeOK, NEW n \in Nodes, FlightInv(n),
         run' \in Runs, event' \in 0 .. NumEvents,
         NEW step \in Steps, Sent(n, <<run', step, event'>>, CommandOf(step)),
         UNCHANGED <<parked, loops, orphans, strays>>, outbox'[n] = None,
         \A q \in InFlight(n) : /\ Made(n, q.id)' /\ run' = run
                                /\ q.id # <<run', step, event'>>
                                /\ CommandOf(step) \in {"start", "stop"}
                                     => q.cmd # CommandOf(step),
         Made(n, <<run, step, event>>)',
         CommandOf(step) = "configure" => GoodCfg(n, assignments[n])',
         phase' # "done",
         phase' # "fetch" => step = phase',
         phase' = "fetch" => step \in {"meta", "rows"},
         phase' \in {"event", "fetch"} => n \notin todo'
  PROVE  FlightInv(n)'
<1> DEFINE id == <<run', step, event'>>
<1>1. parked'[n] = parked[n] /\ Shape(n) /\ Distinct(n) /\ TaskInv(n)
  BY DEF FlightInv
<1>2. \A q \in InFlight(n)' : q \in InFlight(n) \/ Asks(q, id, CommandOf(step), n)
  BY <1>1 DEF Sent, InFlight
<1>3. \A q : Asks(q, id, CommandOf(step), n) => q.id[2] = step
  BY DEF Asks
<1>4. \A q \in InFlight(n) : \A c : GoodCfg(n, c) => GoodCfg(n, c)'
  BY DEF GoodCfg
<1>5. Shape(n)'
  <2>1. ASSUME NEW q \in InFlight(n)
        PROVE  /\ Made(n, q.id)'
               /\ q.cmd = CommandOf(q.id[2])
               /\ q.cmd \in {"start", "meta", "rows"} => q.run = run'
               /\ q.cmd = "configure" => GoodCfg(n, q.cfg)'
    BY <1>1, <1>4 DEF Shape
  <2>2. ASSUME NEW q, Asks(q, id, CommandOf(step), n)
        PROVE  /\ Made(n, q.id)'
               /\ q.cmd = CommandOf(q.id[2])
               /\ q.cmd \in {"start", "meta", "rows"} => q.run = run'
               /\ q.cmd = "configure" => GoodCfg(n, q.cfg)'
    BY <1>3, <2>2 DEF Asks
  <2> QED
    BY <1>2, <2>1, <2>2 DEF Shape
<1>6. Distinct(n)'
  <2>1. \A q \in InFlight(n) : ~Asks(q, id, CommandOf(step), n)
    BY DEF Asks
  <2>2. \A p \in InFlight(n) : \A q :
           Asks(q, id, CommandOf(step), n) =>
             p.id # q.id /\ ~(p.cmd = q.cmd /\ p.cmd \in {"start", "stop"})
    BY DEF Asks
  <2>3. \A p, q \in InFlight(n)' :
           p \notin InFlight(n) /\ q \notin InFlight(n) => p = q
    BY <1>1 DEF Sent, InFlight
  <2>4. inbox'[n] \cap parked'[n] = {}
    BY <1>1, <2>1 DEF Sent, Distinct, InFlight
  <2> QED
    BY <1>1, <1>2, <2>2, <2>3, <2>4 DEF Distinct
<1>7. Awaited(n)'
  <2>1. waiting'[n] = id
    BY DEF Sent
  <2>2. \A q \in InFlight(n)' : q.id = id => conn'[n] = "open"
    BY <1>1 DEF Sent, InFlight
  <2> QED
    BY <2>1, <2>2 DEF Awaited
<1>8. TaskInv(n)'
  BY <1>1 DEF TaskInv
<1> QED
  BY <1>5, <1>6, <1>7, <1>8 DEF FlightInv

-----------------------------------------------------------------------------
(* The phases that call every node.                                        *)

LEMMA InFlightStraggles ==
  ASSUME TypeOK, NEW n \in Nodes, waiting[n] = None
  PROVE  InFlight(n) = Straggling(n)
BY RequestIs, AgentAssumption DEF InFlight, Straggling

LEMMA NewRunInv ==
  ASSUME Prompt, TypeOK, TypeOK', RunInv, NewRun
  PROVE  RunInv'
<1> USE DEF NewRun
<1>1. PlanInv /\ run' \in Runs /\ event' = 0
  <2>1. run' \in 1 .. NumRuns
    BY FleetAssumption DEF TypeOK, PlanOK
  <2> QED
    BY <2>1, FleetAssumption DEF RunInv
<1>2. \A n \in Nodes : /\ assignments'[n].arm = ArmOf[run']
                       /\ assignments'[n].events = {}
                          \/ assignments'[n] = assignments[n]
                       /\ ~Paired => assignments'[n].arm = ArmOf[1]
  BY <1>1, FleetAssumption DEF SetArm, PlanInv
<1>3. PlanInv'
  BY <1>1, <1>2 DEF PlanInv
<1>4. ASSUME NEW n \in Nodes
      PROVE  NodeInv(n)'
  <2>1. NodeInv(n) /\ waiting[n] = None /\ outbox[n] = None
    BY DEF RunInv, NodeInv, FlightInv, Awaited
  <2>2. InFlight(n) = {}
    BY <2>1, InFlightStraggles DEF Prompt
  <2>3. Sent(n, <<run', "clear", event'>>, "stop")
    BY CallSends DEF TypeOK, AgentTypeOK, WireOK
  <2>4. FlightInv(n)'
    <3>1. Made(n, <<run, "clear", event>>)'
      BY <1>1 DEF Made
    <3>2. UNCHANGED <<parked, loops, orphans, strays>> /\ outbox'[n] = None
      BY <2>1 DEF UnchangedAgents, agentSide, tasks
    <3>3. "clear" \in Steps /\ CommandOf("clear") = "stop" /\ 0 \in 0 .. NumEvents
      BY FleetAssumption DEF Steps, CommandOf
    <3> QED
      BY <1>1, <2>1, <2>2, <2>3, <3>1, <3>2, <3>3, SentFlight DEF NodeInv
  <2>5. outbox'[n] = None /\ configured' = {} /\ started' = {} /\ phase' = "clear"
    BY <2>1 DEF UnchangedAgents
  <2>6. ~Joined(n)'
    BY <2>5 DEF Joined
  <2> QED
    BY <2>4, <2>5, <2>6
    DEF NodeInv, ClearInv, ConfiguredInv, Acknowledged, KnownInv, JoinedInv,
        CollectInv
<1> QED
  BY <1>3, <1>4 DEF RunInv

LEMMA BeginConfigureInv ==
  ASSUME Prompt, TypeOK, TypeOK', RunInv, BeginConfigure
  PROVE  RunInv'
<1> USE DEF BeginConfigure
<1>1. /\ PlanInv /\ run' = run /\ event' = event /\ event = 0
      /\ run \in Runs /\ 0 \in 0 .. NumEvents /\ assignments' = assignments
  BY FleetAssumption DEF RunInv, PlanInv, TypeOK, PlanOK
<1>2. configured' = {} /\ started' = {}
  BY <1>1 DEF PlanInv, outcomes
<1>3. PlanInv'
  BY <1>1, <1>2 DEF PlanInv
<1>4. ASSUME NEW n \in Nodes
      PROVE  NodeInv(n)'
  <2>1. NodeInv(n) /\ waiting[n] = None /\ outbox[n] = None
    BY DEF RunInv, NodeInv, FlightInv, Awaited, AllAnswered
  <2>2. InFlight(n) = {}
    <3>1. \A q \in InFlight(n) : q.id = <<run, "clear", 0>> /\ q \in Straggling(n)
      BY <2>1, InFlightStraggles, CommandsByPhase DEF NodeInv, FlightInv
    <3> QED
      BY <3>1 DEF Prompt
  <2>3. Sent(n, <<run', "configure", event'>>, "configure")
    BY CallSends DEF TypeOK, AgentTypeOK, WireOK
  <2>4. FlightInv(n)'
    <3>1. Made(n, <<run, "configure", event>>)'
      BY <1>1 DEF Made
    <3>2. UNCHANGED <<parked, loops, orphans, strays>> /\ outbox'[n] = None
      BY <2>1 DEF UnchangedAgents, agentSide, tasks
    <3>3. "configure" \in Steps /\ CommandOf("configure") = "configure"
      BY DEF Steps, CommandOf
    <3>4. GoodCfg(n, assignments[n])'
      BY <1>1, FleetAssumption DEF PlanInv, TypeOK, PlanOK, GoodCfg
    <3> QED
      BY <1>1, <2>1, <2>2, <2>3, <3>1, <3>2, <3>3, <3>4, SentFlight DEF NodeInv
  <2>5. outbox'[n] = None /\ phase' = "configure"
    BY <2>1 DEF UnchangedAgents
  <2>6. \A q \in InFlight(n)' : q.cfg = assignments'[n]
    BY <2>2, <2>3 DEF Sent, Asks, InFlight, UnchangedAgents, agentSide
  <2>7. ~Joined(n)' /\ ~Acknowledged(n)'
    BY <1>2, <2>5 DEF Joined, Acknowledged, Acked
  <2> QED
    BY <2>4, <2>5, <2>6, <2>7
    DEF NodeInv, ClearInv, ConfiguredInv, KnownInv, JoinedInv, CollectInv
<1> QED
  BY <1>3, <1>4 DEF RunInv

LEMMA BeginStartInv ==
  ASSUME TypeOK, TypeOK', RunInv, BeginStart
  PROVE  RunInv'
<1> USE DEF BeginStart
<1>1. /\ PlanInv /\ run' = run /\ event' = event /\ event = 0
      /\ run \in Runs /\ 0 \in 0 .. NumEvents /\ assignments' = assignments
  BY FleetAssumption DEF RunInv, PlanInv, TypeOK, PlanOK
<1>2. configured' = Nodes /\ started' = {}
  BY <1>1 DEF PlanInv, outcomes
<1>3. PlanInv'
  BY <1>1, <1>2, FleetAssumption DEF PlanInv
<1>4. ASSUME NEW n \in Nodes
      PROVE  NodeInv(n)'
  <2>1. NodeInv(n) /\ waiting[n] = None /\ outbox[n] = None
    BY DEF RunInv, NodeInv, FlightInv, Awaited, AllAnswered
  <2>2. Acknowledged(n) /\ InFlight(n) = {}
    BY <2>1 DEF NodeInv, ConfiguredInv, Acknowledged
  <2>3. Sent(n, <<run', "start", event'>>, "start")
    BY CallSends DEF TypeOK, AgentTypeOK, WireOK
  <2>4. UNCHANGED <<identity, pristine, parked, loops, orphans, strays, runName>>
        /\ outbox'[n] = None
    BY <2>1 DEF UnchangedAgents, agentSide, tasks
  <2>5. FlightInv(n)'
    <3>1. Made(n, <<run, "start", event>>)'
      BY <1>1 DEF Made
    <3>2. "start" \in Steps /\ CommandOf("start") = "start"
      BY DEF Steps, CommandOf
    <3> QED
      BY <1>1, <2>1, <2>2, <2>3, <2>4, <3>1, <3>2, SentFlight DEF NodeInv
  <2>6. ConfiguredInv(n)'
    BY <1>1, <2>1, <2>2, <2>4
    DEF NodeInv, ConfiguredInv, Acknowledged, identity, Running
  <2>7. ~Joined(n)' /\ parked'[n] = {}
    BY <1>2, <2>2, <2>4 DEF Joined, Acked, InFlight
  <2> QED
    BY <2>5, <2>6, <2>7
    DEF NodeInv, ClearInv, KnownInv, JoinedInv, CollectInv
<1> QED
  BY <1>3, <1>4 DEF RunInv

(* Before the stop is called and the events begin.                         *)
LEMMA RunningNode ==
  ASSUME TypeOK, RunInv, phase \in {"start", "event"}, AllAnswered, NEW n \in Nodes
  PROVE  /\ \A q \in InFlight(n) : q.cmd # "stop"
         /\ n \notin missed =>
              /\ \A q \in InFlight(n) : q.cmd # "configure"
              /\ assignment[n] \in {None, assignments[n]}
         /\ Joined(n) => n \in started /\ ~Stopping(n) /\ OneArm(n)
<1>1. NodeInv(n) /\ waiting[n] = None /\ outbox[n] = None
  BY DEF RunInv, NodeInv, FlightInv, Awaited, AllAnswered
<1>2. \A q \in InFlight(n) : q.cmd # "stop" /\ (phase = "start" => q.cmd # "configure")
  BY <1>1, CommandsByPhase DEF NodeInv, FlightInv
<1>3. \A q \in InFlight(n) : q.id # waiting[n]
  BY <1>1, RequestIs, AgentAssumption
<1> QED
  BY <1>1, <1>2, <1>3
  DEF NodeInv, ConfiguredInv, KnownInv, JoinedInv, Joined, Acked, Refused, Stopping

LEMMA BeginStopInv ==
  ASSUME TypeOK, TypeOK', RunInv, BeginStop
  PROVE  RunInv'
<1> USE DEF BeginStop
<1>1. /\ PlanInv /\ run' = run /\ event' = event /\ run \in Runs
      /\ event' \in 0 .. NumEvents /\ assignments' = assignments
      /\ UNCHANGED <<configured, started, failed, missed>>
  BY DEF RunInv, TypeOK, PlanOK, outcomes
<1>2. PlanInv'
  BY <1>1 DEF PlanInv
<1>3. ASSUME NEW n \in Nodes
      PROVE  NodeInv(n)'
  <2>1. NodeInv(n) /\ waiting[n] = None /\ outbox[n] = None
    BY DEF RunInv, NodeInv, FlightInv, Awaited, AllAnswered
  <2>2. /\ Sent(n, <<run', "stop", event'>>, "stop")
        /\ conn[n] = conn'[n] \/ conn[n] = "none"
    BY CallSends DEF TypeOK, AgentTypeOK, WireOK
  <2>3. /\ UNCHANGED <<assignment, built, parked, loops, orphans, strays, runName,
                       logRun, logOpen, rows>>
        /\ outbox'[n] = None
    BY <2>1 DEF UnchangedAgents, agentSide, identity, tasks, logs
  <2>4. FlightInv(n)'
    <3>1. Made(n, <<run, "stop", event>>)'
      BY <1>1 DEF Made
    <3>2. "stop" \in Steps /\ CommandOf("stop") = "stop"
      BY DEF Steps, CommandOf
    <3>3. \A q \in InFlight(n) : q.cmd # "stop" /\ q.cmd = CommandOf(q.id[2])
                                 /\ Made(n, q.id)
      BY <2>1, RunningNode DEF NodeInv, FlightInv, Shape
    <3>4. \A q \in InFlight(n) : Made(n, q.id)' /\ q.id # <<run', "stop", event'>>
      BY <1>1, <3>2, <3>3 DEF Made, CommandOf
    <3> QED
      BY <1>1, <2>1, <2>2, <2>3, <3>1, <3>2, <3>3, <3>4, SentFlight DEF NodeInv
  <2>5. \A q \in InFlight(n)' : q \in InFlight(n) \/ q.cmd = "stop"
    BY <2>2, <2>3 DEF Sent, Asks, InFlight
  <2>6. KnownInv(n)'
    <3>1. n \notin missed => \A q \in InFlight(n)' : q.cmd # "configure"
      BY <2>5, RunningNode
    <3>2. n \notin missed => assignment'[n] \in {None, assignments'[n]}
      BY <1>1, <2>3, RunningNode
    <3> QED
      BY <1>1, <3>1, <3>2 DEF KnownInv
  <2>7. JoinedInv(n)' /\ CollectInv(n)'
    <3>1. Joined(n)' => Joined(n)
      BY <1>1 DEF Joined
    <3>2. \A c : GoodCfg(n, c) => GoodCfg(n, c)'
      BY <1>1 DEF GoodCfg
    <3>3. Joined(n) => InIt(n) /\ OneArm(n) /\ \A q \in InFlight(n) : q.cmd # "start"
      BY <2>1, RunningNode DEF NodeInv, JoinedInv
    <3>4. Joined(n) => InIt(n)'
      BY <1>1, <2>2, <2>3, <3>3, IdIsNotNone DEF InIt, Stopping, Sent, Steps
    <3>5. Joined(n) => OneArm(n)'
      BY <1>1, <2>3, <3>2, <3>3 DEF OneArm
    <3> QED
      BY <2>5, <3>1, <3>3, <3>4, <3>5 DEF JoinedInv, CollectInv
  <2> QED
    BY <2>4, <2>6, <2>7 DEF NodeInv, ClearInv, ConfiguredInv, Acknowledged
<1> QED
  BY <1>2, <1>3 DEF RunInv

-----------------------------------------------------------------------------
(* The phases that call nobody.                                            *)

LEMMA BeginEventInv ==
  ASSUME TypeOK, TypeOK', RunInv, BeginEvent
  PROVE  RunInv'
<1> USE DEF BeginEvent
<1>1. /\ PlanInv /\ run' = run /\ run \in Runs
      /\ event \in Nat /\ event' = event + 1 /\ assignments' = assignments
      /\ UNCHANGED <<configured, started, failed, missed, got>>
      /\ UNCHANGED <<agentSide, inbox, conn, waiting, outbox>>
  BY DEF RunInv, TypeOK, PlanOK, outcomes, NoCall, UnchangedAgents, clientVars
<1>2. PlanInv'
  BY <1>1 DEF PlanInv, AllAnswered
<1>3. ASSUME NEW n \in Nodes
      PROVE  NodeInv(n)'
  <2>1. NodeInv(n) /\ waiting[n] = None /\ outbox[n] = None
    BY DEF RunInv, NodeInv, FlightInv, Awaited, AllAnswered
  <2>2. UNCHANGED <<assignment, built, ready, pristine, parked, loops, orphans,
                    strays, runName, logRun, logOpen, rows>>
    BY <1>1 DEF agentSide, identity, tasks, logs
  <2>3. \A c : GoodCfg(n, c) => GoodCfg(n, c)'
    BY <1>1 DEF GoodCfg
  <2>4. FlightInv(n)'
    <3>1. \A q \in InFlight(n) : Made(n, q.id)'
      <4>1. ASSUME NEW q \in InFlight(n)
            PROVE  Made(n, q.id)'
        <5>1. Made(n, q.id) /\ q.id[3] \in Nat
          BY <2>1, RequestIs DEF NodeInv, FlightInv, Shape
        <5> QED
          BY <1>1, <5>1 DEF Made
      <4> QED
        BY <4>1
    <3>2. Shape(n)'
      BY <1>1, <2>1, <2>2, <2>3, <3>1 DEF NodeInv, FlightInv, Shape, InFlight
    <3>3. Distinct(n)' /\ TaskInv(n)'
      BY <1>1, <2>1, <2>2 DEF NodeInv, FlightInv, Distinct, TaskInv, InFlight
    <3>4. Awaited(n)'
      BY <1>1, <2>1, <2>2, RequestIs, AgentAssumption
      DEF NodeInv, FlightInv, Awaited, InFlight
    <3> QED
      BY <3>2, <3>3, <3>4 DEF FlightInv
  <2>5. ConfiguredInv(n)'
    BY <1>1, <2>1, <2>2 DEF NodeInv, ConfiguredInv, Acknowledged, Running
  <2>6. KnownInv(n)'
    BY <1>1, <2>2, RunningNode DEF KnownInv, InFlight
  <2>7. JoinedInv(n)' /\ CollectInv(n)'
    <3>1. Joined(n)' => Joined(n)
      BY <1>1, <2>1 DEF Joined, Acked
    <3>2. Joined(n) => InIt(n) /\ OneArm(n) /\ \A q \in InFlight(n) : q.cmd # "start"
      BY <2>1, RunningNode DEF NodeInv, JoinedInv
    <3>3. Joined(n) => InIt(n)' /\ OneArm(n)'
      BY <1>1, <2>2, <2>3, <3>2 DEF InIt, OneArm
    <3> QED
      BY <1>1, <2>2, <3>1, <3>2, <3>3 DEF JoinedInv, CollectInv, InFlight
  <2> QED
    BY <2>4, <2>5, <2>6, <2>7 DEF NodeInv, ClearInv
<1> QED
  BY <1>2, <1>3 DEF RunInv

LEMMA BeginFetchInv ==
  ASSUME TypeOK, RunInv, BeginFetch
  PROVE  RunInv'
<1> USE DEF BeginFetch
<1>1. /\ PlanInv /\ run' = run /\ event' = event /\ assignments' = assignments
      /\ UNCHANGED <<configured, started, failed, missed, got>>
      /\ UNCHANGED <<agentSide, inbox, conn, waiting, outbox>>
  BY DEF RunInv, outcomes, NoCall, UnchangedAgents, clientVars
<1>2. PlanInv'
  BY <1>1 DEF PlanInv
<1>3. ASSUME NEW n \in Nodes
      PROVE  NodeInv(n)'
  <2>1. NodeInv(n) /\ waiting[n] = None /\ outbox[n] = None
    BY DEF RunInv, NodeInv, FlightInv, Awaited, AllAnswered
  <2>2. UNCHANGED <<assignment, built, parked, loops, orphans, strays, logRun,
                    logOpen, rows, final>>
    BY <1>1 DEF agentSide, identity, tasks, logs
  <2>3. FlightInv(n)'
    BY <1>1, <2>1, <2>2, RequestIs, AgentAssumption
    DEF NodeInv, FlightInv, Shape, Made, GoodCfg, Distinct, Awaited, TaskInv, InFlight
  <2>4. KnownInv(n)'
    BY <1>1, <2>1, <2>2 DEF NodeInv, KnownInv, InFlight
  <2>5. JoinedInv(n)' /\ CollectInv(n)'
    <3>1. Joined(n)' => Joined(n)
      BY <1>1, <2>1 DEF Joined
    <3>2. Joined(n) => /\ run \in final[n] /\ ~logOpen[n] /\ OneArm(n)
                       /\ \A q \in InFlight(n) : q.cmd # "start"
      BY <2>1 DEF NodeInv, JoinedInv, InIt, Stopping, Refused
    <3>3. Joined(n) => InIt(n)' /\ OneArm(n)'
      BY <1>1, <2>2, <3>2 DEF InIt, OneArm, Stopping, GoodCfg
    <3> QED
      BY <1>1, <2>1, <2>2, <3>1, <3>2, <3>3 DEF JoinedInv, CollectInv, InFlight, Acked
  <2> QED
    BY <2>3, <2>4, <2>5 DEF NodeInv, ClearInv, ConfiguredInv, Acknowledged
<1> QED
  BY <1>2, <1>3 DEF RunInv

LEMMA ReportInv ==
  ASSUME TypeOK, RunInv, Report
  PROVE  RunInv'
<1> USE DEF Report
<1>1. /\ PlanInv /\ run' = run /\ event' = event /\ assignments' = assignments
      /\ UNCHANGED <<configured, started, failed, missed, got>>
      /\ UNCHANGED <<agentSide, inbox, conn, waiting, outbox>>
  BY DEF RunInv, outcomes, NoCall, UnchangedAgents, clientVars
<1>2. PlanInv'
  BY <1>1 DEF PlanInv
<1>3. ASSUME NEW n \in Nodes
      PROVE  NodeInv(n)'
  <2>1. NodeInv(n) /\ waiting[n] = None /\ outbox[n] = None
    BY DEF RunInv, NodeInv, FlightInv, Awaited, AllAnswered
  <2>2. UNCHANGED <<assignment, built, parked, loops, orphans, strays, logRun,
                    logOpen, rows, final>>
    BY <1>1 DEF agentSide, identity, tasks, logs
  <2>3. FlightInv(n)'
    BY <1>1, <2>1, <2>2, RequestIs, AgentAssumption
    DEF NodeInv, FlightInv, Shape, Made, GoodCfg, Distinct, Awaited, TaskInv, InFlight
  <2>4. KnownInv(n)'
    BY <1>1, <2>1, <2>2 DEF NodeInv, KnownInv, InFlight
  <2>5. JoinedInv(n)' /\ CollectInv(n)'
    <3>1. Joined(n)' => Joined(n)
      BY <1>1 DEF Joined
    <3>2. Joined(n) => /\ run \in final[n] /\ ~logOpen[n] /\ OneArm(n)
                       /\ \A q \in InFlight(n) : q.cmd # "start"
      BY <2>1 DEF NodeInv, JoinedInv, InIt, Stopping, Refused
    <3>3. Joined(n) => InIt(n)' /\ OneArm(n)'
      BY <1>1, <2>2, <3>2 DEF InIt, OneArm, Stopping, GoodCfg
    <3>4. Joined(n) => got[n] = rows[n][run]
      BY <2>1 DEF NodeInv, CollectInv
    <3> QED
      BY <1>1, <2>1, <2>2, <3>1, <3>2, <3>3, <3>4 DEF JoinedInv, CollectInv, InFlight
  <2> QED
    BY <2>3, <2>4, <2>5 DEF NodeInv, ClearInv, ConfiguredInv, Acknowledged
<1> QED
  BY <1>2, <1>3 DEF RunInv

(* A run given up reports no node.                                         *)
LEMMA GivenUpInv ==
  ASSUME TypeOK, RunInv, Abort \/ Interrupt
  PROVE  RunInv'
<1>1. /\ PlanInv /\ UNCHANGED <<run, event, todo, before, configured, started>>
      /\ phase' = "done" /\ failed' = Nodes
      /\ assignments' \in {assignments, Manifest}
      /\ UNCHANGED <<agentSide, inbox>>
      /\ \A n \in Nodes : waiting'[n] = None /\ outbox'[n] = None
  <2>1. \A n \in Nodes : waiting[n] = None => outbox[n] = None
    BY DEF RunInv, NodeInv, FlightInv, Awaited
  <2> QED
    BY <2>1
    DEF RunInv, Abort, Interrupt, NoCall, UnchangedAgents, clientVars, AllAnswered
<1>2. PlanInv'
  BY <1>1 DEF PlanInv, Manifest
<1>3. ASSUME NEW n \in Nodes
      PROVE  NodeInv(n)'
  <2>1. NodeInv(n)
    BY DEF RunInv
  <2>2. UNCHANGED <<parked, loops, orphans, strays>>
    BY <1>1 DEF agentSide, tasks
  <2>3. FlightInv(n)'
    BY <1>1, <2>1, <2>2, RequestIs, AgentAssumption
    DEF NodeInv, FlightInv, Shape, Made, GoodCfg, Distinct, Awaited, TaskInv, InFlight
  <2>4. ~Ok(n)' /\ ~Joined(n)'
    BY <1>1 DEF Ok, Joined
  <2> QED
    BY <1>1, <2>3, <2>4
    DEF NodeInv, ClearInv, ConfiguredInv, Acknowledged, KnownInv, JoinedInv,
        CollectInv
<1> QED
  BY <1>2, <1>3 DEF RunInv

-----------------------------------------------------------------------------
(* The steps of the hub that call one node, or end a call of one node.     *)

LEMMA AtOneNode ==
  ASSUME RunInv, PlanInv', NEW n \in Nodes, NodeInv(n)',
         \A m \in Nodes \ {n} : Same(m) /\ HubSame(m)
  PROVE  RunInv'
BY OthersKept DEF RunInv

\* Where one call is made and nothing else changes.
LEMMA CallSame ==
  ASSUME TypeOK, NEW n \in Nodes, NEW step, NEW cmd,
         NEW on \in [Nodes -> {"none", "open", "stale"}],
         Call({n}, step, cmd, on), UNCHANGED agentSide,
         NEW m \in Nodes, m # n, on[m] = conn[m], outbox'[m] = outbox[m]
  PROVE  Same(m)
<1>1. {n} \in SUBSET Nodes /\ m \notin {n}
  OBVIOUS
<1>2. inbox'[m] = inbox[m] /\ conn'[m] = on[m] /\ waiting'[m] = waiting[m]
  BY <1>1, CallSends
<1> QED
  BY <1>2 DEF Same, agentSide, identity, tasks, logs

LEMMA ApplyEventInv ==
  ASSUME TypeOK, TypeOK', RunInv, NEW n \in Nodes, ApplyEvent(n)
  PROVE  RunInv'
<1> USE DEF ApplyEvent
<1>1. /\ PlanInv /\ UNCHANGED <<run, phase, event>> /\ run \in Runs
      /\ event \in Nat \ {0} /\ event' \in 0 .. NumEvents
      /\ UNCHANGED <<configured, started, failed, missed, got>>
      /\ UNCHANGED <<agentSide, outbox>> /\ n \in todo /\ todo' = todo \ {n}
      /\ conn \in [Nodes -> {"none", "open", "stale"}]
  BY DEF RunInv, TypeOK, PlanOK, outcomes, UnchangedAgents, AgentTypeOK, WireOK
<1>2. /\ assignments'[n].arm = assignments[n].arm
      /\ assignments'[n].events = assignments[n].events \cup {event}
      /\ \A m \in Nodes \ {n} : assignments'[m] = assignments[m]
  BY DEF TypeOK, PlanOK, Assignments
<1>3. /\ Sent(n, <<run', "event", event'>>, "configure")
      /\ conn[n] = conn'[n] \/ conn[n] = "none"
  BY <1>1, CallSends
<1>4. \A m \in Nodes : waiting[m] = None /\ outbox[m] = None
  BY DEF RunInv, NodeInv, FlightInv, Awaited, AllAnswered
<1>5. n \in EventNodes[event] /\ GoodCfg(n, assignments[n])
  BY <1>1, FleetAssumption DEF PlanInv, GoodCfg, TypeOK, PlanOK
<1>6. PlanInv'
  <2>1. \A m \in Nodes \ {n} : waiting'[m] = None
    BY <1>1, <1>4, CallSame DEF Same
  <2>2. before' = assignments[n] /\ (GoodCfg(n, assignments[n]) => GoodCfg(n, before)')
    BY <1>1 DEF GoodCfg
  <2> QED
    BY <1>1, <1>2, <1>5, <2>1, <2>2 DEF PlanInv
<1>7. NodeInv(n)'
  <2>1. NodeInv(n) /\ GoodCfg(n, assignments[n])'
    BY <1>1, <1>2, <1>5, FleetAssumption DEF RunInv, GoodCfg, TypeOK, PlanOK
  <2>2. UNCHANGED <<assignment, built, ready, pristine, parked, loops, orphans,
                    strays, runName, logRun, logOpen, rows>>
    BY <1>1 DEF agentSide, identity, tasks, logs
  <2>3. FlightInv(n)'
    <3>1. Made(n, <<run, "event", event>>)'
      BY <1>1 DEF Made
    <3>2. "event" \in Steps /\ CommandOf("event") = "configure"
      BY DEF Steps, CommandOf
    <3>3. \A q \in InFlight(n) : Made(n, q.id)' /\ q.id # <<run', "event", event'>>
      BY <1>1, <2>1 DEF NodeInv, FlightInv, Shape, Made
    <3> QED
      BY <1>1, <1>3, <1>4, <2>1, <2>2, <3>1, <3>2, <3>3, SentFlight DEF NodeInv
  <2>4. \A q \in InFlight(n)' :
           \/ q \in InFlight(n)
           \/ q.cmd = "configure" /\ q.id = waiting'[n] /\ q.cfg = assignments'[n]
    BY <1>3, <2>2 DEF Sent, Asks, InFlight
  <2>5. ConfiguredInv(n)'
    BY <1>1, <2>1, <2>2 DEF NodeInv, ConfiguredInv, Acknowledged, Running
  <2>6. KnownInv(n)'
    <3>1. n \notin missed => \A q \in InFlight(n) : q.cmd # "configure"
      BY RunningNode
    <3>2. waiting'[n] # None /\ ~Acked(n)'
      BY <1>1, <1>3, <1>4, IdIsNotNone DEF Sent, Steps, Acked
    <3> QED
      BY <1>1, <2>4, <3>1, <3>2 DEF KnownInv
  <2>7. JoinedInv(n)' /\ CollectInv(n)'
    <3>1. Joined(n)' => Joined(n)
      BY <1>1 DEF Joined
    <3>2. Joined(n) => InIt(n) /\ OneArm(n) /\ \A q \in InFlight(n) : q.cmd # "start"
      BY <2>1, RunningNode DEF NodeInv, JoinedInv
    <3>3. Joined(n) => InIt(n)' /\ OneArm(n)'
      BY <1>1, <1>3, <2>2, <3>2 DEF InIt, OneArm, Sent, GoodCfg
    <3> QED
      BY <1>1, <2>4, <3>1, <3>2, <3>3 DEF JoinedInv, CollectInv
  <2> QED
    BY <1>1, <2>3, <2>5, <2>6, <2>7 DEF NodeInv, ClearInv
<1>8. \A m \in Nodes \ {n} : Same(m) /\ HubSame(m)
  BY <1>1, <1>2, CallSame DEF HubSame
<1> QED
  BY <1>6, <1>7, <1>8, AtOneNode

LEMMA CollectStepInv ==
  ASSUME TypeOK, TypeOK', RunInv, NEW n \in Nodes, Collect(n)
  PROVE  RunInv'
<1> USE DEF Collect
<1>1. /\ PlanInv /\ UNCHANGED <<run, phase, event, assignments, before>>
      /\ run \in Runs /\ event' \in 0 .. NumEvents
      /\ UNCHANGED <<configured, started, failed, missed, got>>
      /\ UNCHANGED <<agentSide, outbox>> /\ n \in todo /\ todo' = todo \ {n}
      /\ conn \in [Nodes -> {"none", "open", "stale"}]
  BY DEF RunInv, TypeOK, PlanOK, outcomes, UnchangedAgents, AgentTypeOK, WireOK
<1>2. Sent(n, <<run', "meta", event'>>, "meta")
  BY <1>1, CallSends
<1>3. NodeInv(n) /\ waiting[n] = None /\ outbox[n] = None
  BY DEF RunInv, NodeInv, FlightInv, Awaited
<1>4. PlanInv'
  BY <1>1 DEF PlanInv
<1>5. NodeInv(n)'
  <2>1. UNCHANGED <<assignment, built, parked, loops, orphans, strays, logRun,
                    logOpen, rows, final>>
    BY <1>1 DEF agentSide, identity, tasks, logs
  <2>2. FlightInv(n)'
    <3>1. <<run', "meta", event'>> # <<run', "rows", event'>>
      OBVIOUS
    <3>2. waiting'[n] # <<run', "rows", event'>> /\ waiting'[n] = <<run', "meta", event'>>
      BY <1>2, <3>1 DEF Sent
    <3>3. Made(n, <<run, "meta", event>>)'
      BY <1>1 DEF Made
    <3>4. "meta" \in Steps /\ CommandOf("meta") = "meta"
      BY DEF Steps, CommandOf
    <3>5. \A q \in InFlight(n) : Made(n, q.id)' /\ q.id # <<run', "meta", event'>>
      BY <1>1, <1>3 DEF NodeInv, FlightInv, Shape, Made
    <3> QED
      BY <1>1, <1>2, <1>3, <2>1, <3>3, <3>4, <3>5, SentFlight DEF NodeInv
  <2>3. \A q \in InFlight(n)' : q \in InFlight(n) \/ q.cmd = "meta"
    BY <1>2, <2>1 DEF Sent, Asks, InFlight
  <2>4. KnownInv(n)'
    <3>1. \A q \in InFlight(n) : q.id # waiting[n]
      BY <1>3, RequestIs, AgentAssumption
    <3>2. n \notin missed => \A q \in InFlight(n) : q.cmd # "configure"
      BY <1>3, <3>1 DEF NodeInv, KnownInv
    <3> QED
      BY <1>1, <1>3, <2>1, <2>3, <3>2 DEF NodeInv, KnownInv
  <2>5. JoinedInv(n)' /\ CollectInv(n)'
    <3>1. Joined(n)' => Joined(n)
      BY <1>1 DEF Joined
    <3>2. Joined(n) => /\ run \in final[n] /\ ~logOpen[n] /\ OneArm(n)
                       /\ \A q \in InFlight(n) : q.cmd # "start"
      BY <1>3 DEF NodeInv, JoinedInv, InIt, Stopping, Refused
    <3>3. Joined(n) => InIt(n)' /\ OneArm(n)'
      BY <1>1, <2>1, <3>2 DEF InIt, OneArm, Stopping, GoodCfg
    <3>4. waiting'[n] # None /\ ~Acked(n)'
      BY <1>1, <1>2, <1>3, IdIsNotNone DEF Sent, Steps, Acked
    <3> QED
      BY <1>1, <2>3, <3>1, <3>2, <3>3, <3>4 DEF JoinedInv, CollectInv
  <2> QED
    BY <1>1, <2>2, <2>4, <2>5 DEF NodeInv, ClearInv, ConfiguredInv, Acknowledged
<1>6. \A m \in Nodes \ {n} : Same(m) /\ HubSame(m)
  BY <1>1, CallSame DEF HubSame
<1> QED
  BY <1>4, <1>5, <1>6, AtOneNode

LEMMA LoseStragglerInv ==
  ASSUME TypeOK, RunInv, NEW n \in Nodes, LoseStraggler(n)
  PROVE  RunInv'
<1>1. /\ UNCHANGED <<agentSide, outbox, conn, waiting, hubVars>>
      /\ inbox'[n] \subseteq inbox[n]
      /\ \A m \in Nodes \ {n} : inbox'[m] = inbox[m]
  BY DEF LoseStraggler, clientVars, TypeOK, AgentTypeOK, WireOK
<1>2. PlanInv' /\ NodeInv(n)
  BY <1>1, PlanKept DEF RunInv
<1>3. InFlight(n)' \subseteq InFlight(n) /\ parked' = parked
  BY <1>1 DEF InFlight, agentSide
<1>4. NodeInv(n)'
  <2> USE <1>1, <1>2, <1>3
      DEF NodeInv, agentSide, identity, tasks, logs, hubVars, plan, outcomes
  <2>1. Shape(n)' /\ Distinct(n)' /\ Awaited(n)' /\ TaskInv(n)'
    BY DEF FlightInv, Shape, Made, GoodCfg, Distinct, Awaited, TaskInv
  <2>2. ClearInv(n)' /\ ConfiguredInv(n)'
    BY DEF ClearInv, ConfiguredInv, Acknowledged, Acked, Running
  <2>3. KnownInv(n)'
    BY DEF KnownInv, Acked, Ok
  <2>4. JoinedInv(n)'
    BY DEF JoinedInv, Joined, Refused, Stopping, Acked, GoodCfg, Opened, InIt, OneArm
  <2>5. CollectInv(n)'
    BY DEF CollectInv, Joined, Acked
  <2> QED
    BY <2>1, <2>2, <2>3, <2>4, <2>5 DEF FlightInv
<1>5. \A m \in Nodes \ {n} : Same(m) /\ HubSame(m)
  BY <1>1 DEF Same, HubSame, agentSide, identity, tasks, logs, hubVars, plan, outcomes
<1> QED
  BY <1>2, <1>4, <1>5, AtOneNode

-----------------------------------------------------------------------------
(* The outcome of a call, at its node.                                     *)

\* rep is a reply the hub has received, or Bad when it has given up.
Outcome(n, rep, on) ==
  /\ After(n, rep, on) /\ UNCHANGED agentSide
  /\ on \in [Nodes -> {"none", "open", "stale"}]
  /\ \A m \in Nodes \ {n} : on[m] = conn[m]
  /\ rep.ok => Acked(n) /\ rep = outbox[n] /\ on = conn

LEMMA CallEnds ==
  ASSUME TypeOK, NEW n \in Nodes, HubReceives(n) \/ HubGivesUp(n)
  PROVE  \E rep, on : Outcome(n, rep, on)
<1>1. conn \in [Nodes -> {"none", "open", "stale"}]
  BY DEF TypeOK, AgentTypeOK, WireOK
<1>2. CASE HubReceives(n)
  <2>1. Outcome(n, outbox[n], conn)
    BY <1>1, <1>2 DEF HubReceives, Outcome, Acked
  <2> QED
    BY <2>1
<1>3. CASE HubGivesUp(n)
  <2>1. Outcome(n, Bad, [conn EXCEPT ![n] = "none"])
    BY <1>1, <1>3 DEF HubGivesUp, Outcome, Bad
  <2> QED
    BY <2>1
<1> QED
  BY <1>2, <1>3

(* The connection rests.                                                   *)
LEMMA ReturnedFlight ==
  ASSUME TypeOK, NEW n \in Nodes, FlightInv(n), NEW on, Returned(n, on),
         outbox' = [outbox EXCEPT ![n] = None], UNCHANGED agentSide,
         UNCHANGED <<run, phase, event, todo>>
  PROVE  /\ FlightInv(n)' /\ waiting'[n] = None /\ outbox'[n] = None
         /\ conn'[n] = on[n] /\ InFlight(n)' = InFlight(n)
<1>1. /\ waiting'[n] = None /\ outbox'[n] = None /\ conn'[n] = on[n]
      /\ UNCHANGED <<inbox, parked, loops, orphans, strays>>
  BY DEF Returned, TypeOK, AgentTypeOK, WireOK, agentSide, tasks
<1>2. InFlight(n)' = InFlight(n)
  BY <1>1 DEF InFlight
<1>3. Shape(n)' /\ Distinct(n)'
  <2>1. \A id : Made(n, id) => Made(n, id)'
    <3>1. \A id : id[2] = "rows" => waiting'[n] # <<run, "meta", event>> \/ phase # "fetch"
      BY <1>1, IdIsNotNone DEF TypeOK, PlanOK, Steps
    <3> QED
      BY <3>1 DEF Made
  <2> QED
    BY <1>1, <1>2, <2>1 DEF FlightInv, Shape, Distinct, GoodCfg
<1>4. Awaited(n)' /\ TaskInv(n)'
  <2>1. \A q \in InFlight(n) : q.id # None
    BY RequestIs, AgentAssumption
  <2> QED
    BY <1>1, <1>2, <2>1 DEF FlightInv, Awaited, TaskInv
<1> QED
  BY <1>1, <1>2, <1>3, <1>4 DEF FlightInv

LEMMA ReturnedSame ==
  ASSUME TypeOK, NEW n \in Nodes, NEW rep, NEW on, Outcome(n, rep, on),
         Returned(n, on), NEW m \in Nodes \ {n}
  PROVE  Same(m)
BY DEF Outcome, After, Returned, Same, TypeOK, AgentTypeOK, WireOK, agentSide,
   identity, tasks, logs

LEMMA AfterClearInv ==
  ASSUME TypeOK, RunInv, NEW n \in Nodes, NEW rep, NEW on, Outcome(n, rep, on),
         AfterClear(n, rep, on)
  PROVE  RunInv'
<1> USE DEF AfterClear
<1>1. /\ UNCHANGED <<agentSide, hubVars>> /\ Returned(n, on) /\ phase = "clear"
      /\ outbox' = [outbox EXCEPT ![n] = None]
      /\ UNCHANGED <<run, phase, event, todo, started>>
  BY DEF Outcome, After, hubVars, plan, outcomes
<1>2. PlanInv'
  BY <1>1 DEF PlanInv, RunInv, GoodCfg, hubVars, plan, outcomes
<1>3. NodeInv(n)'
  <2>1. FlightInv(n)' /\ outbox'[n] = None
    BY <1>1, ReturnedFlight DEF RunInv, NodeInv
  <2> QED
    BY <1>1, <2>1 DEF NodeInv, ClearInv, ConfiguredInv, Acknowledged, KnownInv,
       JoinedInv, CollectInv, Joined
<1>4. \A m \in Nodes \ {n} : Same(m) /\ HubSame(m)
  BY <1>1, ReturnedSame DEF HubSame, hubVars, plan, outcomes
<1> QED
  BY <1>2, <1>3, <1>4, AtOneNode

LEMMA AfterConfigureInv ==
  ASSUME TypeOK, RunInv, NEW n \in Nodes, NEW rep, NEW on, Outcome(n, rep, on),
         AfterConfigure(n, rep, on)
  PROVE  RunInv'
<1> USE DEF AfterConfigure
<1>1. /\ UNCHANGED <<agentSide, plan, started, missed, got>> /\ Returned(n, on)
      /\ outbox' = [outbox EXCEPT ![n] = None]
      /\ phase = "configure"
      /\ UNCHANGED <<run, phase, event, todo, assignments>>
  BY DEF Outcome, After, plan
<1>2. PlanInv'
  BY <1>1 DEF PlanInv, RunInv, Counts, plan
<1>3. NodeInv(n)'
  <2>1. NodeInv(n)
    BY DEF RunInv
  <2>2. FlightInv(n)' /\ outbox'[n] = None /\ InFlight(n)' = InFlight(n)
    BY <1>1, <2>1, ReturnedFlight DEF NodeInv
  <2>3. Acknowledged(n)' => Acknowledged(n)
    BY <1>1, <2>2 DEF Acknowledged, Acked, Counts, Outcome
  <2>4. ConfiguredInv(n)'
    BY <1>1, <2>1, <2>2, <2>3
    DEF NodeInv, ConfiguredInv, agentSide, identity, tasks, Running
  <2> QED
    BY <1>1, <2>2, <2>4 DEF NodeInv, ClearInv, KnownInv, JoinedInv, CollectInv, Joined
<1>4. \A m \in Nodes \ {n} : Same(m) /\ HubSame(m)
  BY <1>1, ReturnedSame DEF HubSame, plan, Counts, Fails
<1> QED
  BY <1>2, <1>3, <1>4, AtOneNode

LEMMA AfterStartInv ==
  ASSUME TypeOK, RunInv, NEW n \in Nodes, NEW rep, NEW on, Outcome(n, rep, on),
         AfterStart(n, rep, on)
  PROVE  RunInv'
<1> USE DEF AfterStart
<1>1. /\ UNCHANGED <<agentSide, plan, configured, missed, got>> /\ Returned(n, on)
      /\ outbox' = [outbox EXCEPT ![n] = None] /\ phase = "start" /\ run \in Runs
      /\ UNCHANGED <<run, phase, event, todo, assignments>>
  BY DEF Outcome, After, plan, TypeOK, PlanOK
<1>2. PlanInv'
  BY <1>1 DEF PlanInv, RunInv, Counts, plan
<1>3. NodeInv(n)'
  <2>1. NodeInv(n)
    BY DEF RunInv
  <2>2. /\ FlightInv(n)' /\ outbox'[n] = None /\ InFlight(n)' = InFlight(n)
        /\ conn'[n] = on[n]
    BY <1>1, <2>1, ReturnedFlight DEF NodeInv
  <2>3. UNCHANGED <<assignment, built, ready, pristine, parked, loops, runName,
                    logRun, logOpen, rows>>
    BY <1>1 DEF agentSide, identity, tasks, logs
  <2>4. ConfiguredInv(n)'
    BY <1>1, <2>1, <2>2, <2>3 DEF NodeInv, ConfiguredInv, Acknowledged, Running
  <2>5. JoinedInv(n)' /\ CollectInv(n)'
    <3>1. Joined(n)' => Joined(n) /\ conn'[n] = conn[n]
      BY <1>1, <2>2 DEF Joined, Acked, Counts, Fails, Outcome
    <3>2. Joined(n) => InIt(n) /\ OneArm(n) /\ \A q \in InFlight(n) : q.cmd # "start"
      BY <1>1, <2>1 DEF NodeInv, JoinedInv, Refused
    <3>3. Joined(n)' => InIt(n)' /\ OneArm(n)'
      BY <1>1, <2>3, <3>1, <3>2 DEF InIt, OneArm, GoodCfg
    <3>4. \A q \in parked'[n] : Opened(n)'
      BY <1>1, <2>1, <2>3 DEF NodeInv, JoinedInv, Opened
    <3> QED
      BY <1>1, <2>2, <3>1, <3>2, <3>3, <3>4 DEF JoinedInv, CollectInv
  <2> QED
    BY <1>1, <2>2, <2>4, <2>5 DEF NodeInv, ClearInv, KnownInv
<1>4. \A m \in Nodes \ {n} : Same(m) /\ HubSame(m)
  BY <1>1, ReturnedSame DEF HubSame, plan, Counts, Fails
<1> QED
  BY <1>2, <1>3, <1>4, AtOneNode

LEMMA AfterEventInv ==
  ASSUME TypeOK, RunInv, NEW n \in Nodes, NEW rep, NEW on, Outcome(n, rep, on),
         AfterEvent(n, rep, on)
  PROVE  RunInv'
<1> USE DEF AfterEvent
<1>1. /\ UNCHANGED <<agentSide, configured, started, failed, got, before, run,
                     phase, event, todo>>
      /\ Returned(n, on) /\ outbox' = [outbox EXCEPT ![n] = None]
      /\ phase = "event" /\ run \in Runs /\ waiting[n] # None /\ PlanInv
  BY DEF Outcome, After, TypeOK, PlanOK, RunInv
<1>2. /\ \A m \in Nodes \ {n} : assignments'[m] = assignments[m]
      /\ assignments'[n] = IF rep.ok THEN assignments[n] ELSE before
  BY DEF TypeOK, PlanOK
<1>3. PlanInv'
  <2>1. GoodCfg(n, before) /\ before.arm = ArmOf[run]
    BY <1>1 DEF PlanInv, GoodCfg
  <2>2. ~Paired => ArmOf[run] = ArmOf[1]
    BY <1>1, FleetAssumption
  <2>3. \A m \in Nodes : waiting'[m] # None => waiting[m] # None
    BY <1>1 DEF Returned, TypeOK, AgentTypeOK, WireOK
  <2> QED
    BY <1>1, <1>2, <2>1, <2>2, <2>3 DEF PlanInv, GoodCfg
<1>4. NodeInv(n)'
  <2>1. NodeInv(n)
    BY DEF RunInv
  <2>2. /\ FlightInv(n)' /\ outbox'[n] = None /\ InFlight(n)' = InFlight(n)
        /\ conn'[n] = on[n]
    BY <1>1, <2>1, ReturnedFlight DEF NodeInv
  <2>3. UNCHANGED <<assignment, built, ready, pristine, parked, loops, runName,
                    logRun, logOpen, rows>>
    BY <1>1 DEF agentSide, identity, tasks, logs
  <2>4. ConfiguredInv(n)'
    BY <1>1, <2>1, <2>3 DEF NodeInv, ConfiguredInv, Acknowledged, Running
  <2>5. n \notin missed' =>
           n \notin missed /\ Acked(n) /\ ~Refused(n) /\ conn'[n] = conn[n]
           /\ assignments'[n] = assignments[n]
    BY <1>2, <2>2 DEF Fails, Outcome, Acked, Refused
  <2>6. KnownInv(n)'
    <3>1. ASSUME n \notin missed'
          PROVE  /\ \A q \in InFlight(n)' : q.cmd # "configure"
                 /\ assignment'[n] \in {None, assignments'[n]}
      <4>1. \A q \in InFlight(n) : q.id # waiting[n]
        BY <2>1, <2>5, <3>1 DEF Acked, NodeInv, FlightInv, Awaited
      <4> QED
        BY <1>1, <2>1, <2>2, <2>3, <2>5, <3>1, <4>1 DEF NodeInv, KnownInv
    <3> QED
      BY <3>1 DEF KnownInv
  <2>7. JoinedInv(n)' /\ CollectInv(n)'
    <3>1. Joined(n)' => Joined(n) /\ n \notin missed'
      BY <1>1, <2>5 DEF Joined
    <3>2. Joined(n)' => InIt(n) /\ OneArm(n) /\ \A q \in InFlight(n) : q.cmd # "start"
      BY <2>1, <2>5, <3>1 DEF NodeInv, JoinedInv
    <3>3. Joined(n)' => InIt(n)' /\ OneArm(n)'
      BY <1>1, <2>3, <2>5, <3>1, <3>2 DEF InIt, OneArm, GoodCfg
    <3> QED
      BY <1>1, <2>2, <3>1, <3>2, <3>3 DEF JoinedInv, CollectInv
  <2> QED
    BY <1>1, <2>2, <2>4, <2>6, <2>7 DEF NodeInv, ClearInv
<1>5. \A m \in Nodes \ {n} : Same(m) /\ HubSame(m)
  BY <1>1, <1>2, ReturnedSame DEF HubSame, Fails
<1> QED
  BY <1>3, <1>4, <1>5, AtOneNode

(* Once the run is over, no configuration is on its way to a node that     *)
(* missed none.                                                            *)
LEMMA NoneToConfigure ==
  ASSUME TypeOK, NEW n \in Nodes, NodeInv(n), phase \in {"stop", "fetch"},
         n \notin missed
  PROVE  \A q \in InFlight(n) : q.cmd # "configure"
<1> SUFFICES ASSUME NEW q \in InFlight(n), q.cmd = "configure" PROVE FALSE
  OBVIOUS
<1>1. q.id = waiting[n] /\ q.id[2] \in {"configure", "event"} /\ q.id # None
  BY RequestIs, AgentAssumption
  DEF NodeInv, KnownInv, FlightInv, Shape, CommandOf, Steps
<1> QED
  BY <1>1 DEF NodeInv, FlightInv, Awaited

LEMMA AfterStopInv ==
  ASSUME TypeOK, RunInv, NEW n \in Nodes, NEW rep, NEW on, Outcome(n, rep, on),
         AfterStop(n, rep, on)
  PROVE  RunInv'
<1> USE DEF AfterStop
<1>1. /\ UNCHANGED <<agentSide, plan, configured, started, missed, got>>
      /\ Returned(n, on) /\ outbox' = [outbox EXCEPT ![n] = None]
      /\ phase = "stop" /\ waiting[n] # None
      /\ UNCHANGED <<run, phase, event, todo, assignments, before>>
  BY DEF Outcome, After, plan
<1>2. PlanInv'
  BY <1>1 DEF PlanInv, RunInv
<1>3. NodeInv(n)'
  <2>1. NodeInv(n)
    BY DEF RunInv
  <2>2. /\ FlightInv(n)' /\ outbox'[n] = None /\ InFlight(n)' = InFlight(n)
        /\ waiting'[n] = None
    BY <1>1, <2>1, ReturnedFlight DEF NodeInv
  <2>3. UNCHANGED <<assignment, built, logRun, logOpen, rows, final>>
    BY <1>1 DEF agentSide, identity, logs
  <2>4. KnownInv(n)'
    BY <1>1, <2>1, <2>2, <2>3, NoneToConfigure DEF NodeInv, KnownInv
  <2>5. JoinedInv(n)' /\ CollectInv(n)'
    <3>1. Joined(n)' => Joined(n) /\ ~Stopping(n)
      BY <1>1 DEF Joined, Fails, Outcome, Acked, Stopping
    <3>2. Joined(n)' => /\ run \in final[n] /\ ~logOpen[n] /\ OneArm(n)
                        /\ \A q \in InFlight(n) : q.cmd # "start"
      BY <1>1, <2>1, <3>1 DEF NodeInv, JoinedInv, InIt, Refused
    <3>3. Joined(n)' => InIt(n)' /\ OneArm(n)'
      BY <1>1, <2>2, <2>3, <3>2 DEF InIt, OneArm, Stopping, GoodCfg
    <3> QED
      BY <1>1, <2>2, <3>2, <3>3 DEF JoinedInv, CollectInv
  <2> QED
    BY <1>1, <2>2, <2>4, <2>5 DEF NodeInv, ClearInv, ConfiguredInv, Acknowledged
<1>4. \A m \in Nodes \ {n} : Same(m) /\ HubSame(m)
  BY <1>1, ReturnedSame DEF HubSame, Fails
<1> QED
  BY <1>2, <1>3, <1>4, AtOneNode

(* While a node is being collected its log does not change.                *)
LEMMA CollectedNode ==
  ASSUME TypeOK, NEW n \in Nodes, NodeInv(n), phase = "fetch", Joined(n)
  PROVE  /\ run \in final[n] /\ ~logOpen[n] /\ OneArm(n)
         /\ \A q \in InFlight(n) : q.cmd # "start"
BY DEF NodeInv, JoinedInv, InIt, Stopping, Refused

LEMMA AfterRowsInv ==
  ASSUME TypeOK, RunInv, NEW n \in Nodes, NEW rep, NEW on, Outcome(n, rep, on),
         AfterRows(n, rep, on)
  PROVE  RunInv'
<1> USE DEF AfterRows
<1>1. /\ UNCHANGED <<agentSide, plan, configured, started, missed>>
      /\ Returned(n, on) /\ outbox' = [outbox EXCEPT ![n] = None]
      /\ phase = "fetch" /\ waiting[n] # None /\ waiting[n][2] = "rows"
      /\ UNCHANGED <<run, phase, event, todo, assignments, before>>
  BY DEF Outcome, After, plan
<1>2. PlanInv'
  BY <1>1 DEF PlanInv, RunInv
<1>3. NodeInv(n)'
  <2>1. NodeInv(n)
    BY DEF RunInv
  <2>2. /\ FlightInv(n)' /\ outbox'[n] = None /\ InFlight(n)' = InFlight(n)
        /\ waiting'[n] = None
    BY <1>1, <2>1, ReturnedFlight DEF NodeInv
  <2>3. UNCHANGED <<assignment, built, logRun, logOpen, rows, final>>
    BY <1>1 DEF agentSide, identity, logs
  <2>4. KnownInv(n)'
    BY <1>1, <2>1, <2>2, <2>3, NoneToConfigure DEF NodeInv, KnownInv
  <2>5. JoinedInv(n)'
    <3>1. Joined(n)' => Joined(n)
      BY <1>1 DEF Joined, Fails
    <3>2. Joined(n)' => InIt(n)' /\ OneArm(n)'
      BY <1>1, <2>1, <2>2, <2>3, <3>1, CollectedNode DEF InIt, OneArm, Stopping, GoodCfg
    <3> QED
      BY <1>1, <2>1, <2>2, <3>1, <3>2, CollectedNode DEF JoinedInv
  <2>6. CollectInv(n)'
    <3>1. SUFFICES ASSUME Joined(n)' PROVE got'[n] = rows'[n][run]
      BY <1>1, <2>2 DEF CollectInv, Acked
    <3>2. Joined(n) /\ rep.ok /\ Acked(n) /\ rep = outbox[n]
      BY <1>1, <3>1 DEF Joined, Fails, Outcome
    <3>3. waiting[n] = <<run, "rows", event>>
      BY <1>1, <2>1 DEF NodeInv, FlightInv, Awaited
    <3>4. rep.rows = rows[n][run]
      BY <1>1, <2>1, <3>2, <3>3 DEF NodeInv, CollectInv
    <3> QED
      BY <2>3, <3>2, <3>4 DEF TypeOK, OutcomesOK
  <2> QED
    BY <1>1, <2>2, <2>4, <2>5, <2>6 DEF NodeInv, ClearInv, ConfiguredInv, Acknowledged
<1>4. \A m \in Nodes \ {n} : Same(m) /\ HubSame(m)
  BY <1>1, ReturnedSame DEF HubSame, Fails, TypeOK, OutcomesOK
<1> QED
  BY <1>2, <1>3, <1>4, AtOneNode

LEMMA AfterMetaInv ==
  ASSUME TypeOK, RunInv, NEW n \in Nodes, NEW rep, NEW on, Outcome(n, rep, on),
         AfterMeta(n, rep, on)
  PROVE  RunInv'
<1> USE DEF AfterMeta
<1>1. /\ UNCHANGED <<agentSide, plan, configured, started, missed, got>>
      /\ outbox' = [outbox EXCEPT ![n] = None] /\ outbox'[n] = None
      /\ phase = "fetch" /\ waiting[n] # None /\ waiting[n][2] = "meta"
      /\ UNCHANGED <<run, phase, event, todo, assignments, before>>
      /\ run \in Runs /\ event \in 0 .. NumEvents /\ PlanInv
  BY DEF Outcome, After, plan, TypeOK, PlanOK, AgentTypeOK, WireOK, RunInv
<1>2. Sent(n, <<run', "rows", event'>>, "rows")
  BY CallSends DEF Outcome
<1>3. NodeInv(n)'
  <2>1. NodeInv(n) /\ waiting[n] = <<run, "meta", event>>
    BY <1>1 DEF RunInv, NodeInv, FlightInv, Awaited
  <2>2. UNCHANGED <<assignment, built, parked, loops, orphans, strays, logRun,
                    logOpen, rows, final>>
    BY <1>1 DEF agentSide, identity, tasks, logs
  <2>3. waiting'[n] = <<run, "rows", event>> /\ n \notin todo
    BY <1>1, <1>2, <2>1 DEF Sent, NodeInv, FlightInv, Awaited
  <2>4. FlightInv(n)'
    <3>1. <<run, "meta", event>> # <<run, "rows", event>>
      OBVIOUS
    <3>2. Made(n, <<run, "rows", event>>)'
      BY <1>1, <2>3, <3>1 DEF Made
    <3>3. "rows" \in Steps /\ CommandOf("rows") = "rows"
      BY DEF Steps, CommandOf
    <3>4. \A q \in InFlight(n) : Made(n, q.id)' /\ q.id # <<run', "rows", event'>>
      BY <1>1, <2>1, <2>3, <3>1 DEF NodeInv, FlightInv, Shape, Made
    <3> QED
      BY <1>1, <1>2, <2>1, <2>2, <2>3, <3>2, <3>3, <3>4, SentFlight DEF NodeInv
  <2>5. \A q \in InFlight(n)' : q \in InFlight(n) \/ q.cmd = "rows"
    BY <1>2, <2>2 DEF Sent, Asks, InFlight
  <2>6. KnownInv(n)'
    BY <1>1, <2>1, <2>2, <2>5, NoneToConfigure DEF NodeInv, KnownInv
  <2>7. JoinedInv(n)' /\ CollectInv(n)'
    <3>1. Joined(n)' => Joined(n)
      BY <1>1 DEF Joined, Fails
    <3>2. Joined(n)' => InIt(n)' /\ OneArm(n)'
      BY <1>1, <2>1, <2>2, <3>1, CollectedNode DEF InIt, OneArm, Stopping, GoodCfg
    <3>3. waiting'[n] # None /\ ~Acked(n)'
      BY <1>1, <2>3, IdIsNotNone DEF Steps, Acked
    <3> QED
      BY <1>1, <2>1, <2>5, <3>1, <3>2, <3>3, CollectedNode DEF JoinedInv, CollectInv
  <2> QED
    BY <1>1, <2>4, <2>6, <2>7 DEF NodeInv, ClearInv, ConfiguredInv, Acknowledged
<1>4. \A m \in Nodes \ {n} : Same(m) /\ HubSame(m)
  <2>1. \A m \in Nodes \ {n} : on[m] = conn[m] /\ outbox'[m] = outbox[m]
    BY <1>1 DEF Outcome, TypeOK, AgentTypeOK, WireOK
  <2> QED
    BY <1>1, <2>1, CallSame DEF HubSame, Fails, Outcome
<1>5. PlanInv'
  BY <1>1 DEF PlanInv
<1> QED
  BY <1>3, <1>4, <1>5, AtOneNode

-----------------------------------------------------------------------------
(* Every step, and the properties of the runs.                             *)

LEMMA RunInit == Init => RunInv
<1> SUFFICES ASSUME Init PROVE RunInv
  OBVIOUS
<1> USE DEF Init, AgentInit
<1>1. PlanInv
  BY FleetAssumption DEF PlanInv, Manifest
<1>2. ASSUME NEW n \in Nodes
      PROVE  NodeInv(n)
  <2>1. InFlight(n) = {} /\ waiting[n] = None /\ outbox[n] = None /\ ~Running(n)
    BY DEF InFlight, Running
  <2>2. FlightInv(n)
    BY <2>1 DEF FlightInv, Shape, Distinct, Awaited, TaskInv, InFlight
  <2> QED
    BY <2>1, <2>2 DEF NodeInv, ClearInv, ConfiguredInv, Acknowledged, KnownInv, Ok,
       JoinedInv, Joined, CollectInv
<1> QED
  BY <1>1, <1>2 DEF RunInv

LEMMA CallEndsInv ==
  ASSUME TypeOK, RunInv, NEW n \in Nodes, HubReceives(n) \/ HubGivesUp(n)
  PROVE  RunInv'
<1>1. PICK rep, on : Outcome(n, rep, on)
  BY CallEnds
<1>2. \/ AfterClear(n, rep, on) \/ AfterConfigure(n, rep, on)
      \/ AfterStart(n, rep, on) \/ AfterEvent(n, rep, on)
      \/ AfterStop(n, rep, on)
      \/ AfterMeta(n, rep, on)  \/ AfterRows(n, rep, on)
  BY <1>1 DEF Outcome, After
<1> QED
  BY <1>1, <1>2, AfterClearInv, AfterConfigureInv, AfterStartInv, AfterEventInv,
     AfterStopInv, AfterMetaInv, AfterRowsInv

LEMMA RunNext == Prompt /\ TypeOK /\ TypeOK' /\ RunInv /\ [Next]_vars => RunInv'
<1> SUFFICES ASSUME Prompt, TypeOK, TypeOK', RunInv, [Next]_vars PROVE RunInv'
  OBVIOUS
<1>1. CASE \/ NewRun \/ BeginConfigure \/ Abort \/ BeginStart \/ BeginEvent
           \/ BeginStop \/ BeginFetch \/ Report \/ Interrupt
  BY <1>1, NewRunInv, BeginConfigureInv, GivenUpInv, BeginStartInv, BeginEventInv,
     BeginStopInv, BeginFetchInv, ReportInv
<1>2. ASSUME NEW n \in Nodes,
             \/ ApplyEvent(n) \/ Collect(n) \/ HubReceives(n) \/ HubGivesUp(n)
             \/ LoseStraggler(n)
      PROVE  RunInv'
  BY <1>2, ApplyEventInv, CollectStepInv, CallEndsInv, LoseStragglerInv
<1>3. ASSUME NEW n \in Nodes, AgentNext(n) /\ UNCHANGED hubVars
      PROVE  RunInv'
  BY <1>3, AgentStepInv
<1>4. CASE UNCHANGED vars
  <2>1. /\ UNCHANGED <<agentSide, inbox, conn, waiting, outbox, hubVars>>
    BY <1>4 DEF vars, agentVars, agentSide
  <2>2. PlanInv'
    BY <2>1, PlanKept DEF RunInv
  <2>3. ASSUME NEW m \in Nodes PROVE Same(m) /\ HubSame(m)
    BY <2>1 DEF Same, HubSame, agentSide, identity, tasks, logs, hubVars, plan, outcomes
  <2> QED
    BY <2>2, <2>3, OthersKept DEF RunInv
<1> QED
  BY <1>1, <1>2, <1>3, <1>4 DEF Next, HubStep

LEMMA RunInvariant ==
  ASSUME Prompt
  PROVE  Spec => [](TypeOK /\ RunInv)
<1>1. Init => TypeOK /\ RunInv
  BY TypeOKInit, RunInit
<1>2. TypeOK /\ RunInv /\ [Next]_vars => (TypeOK /\ RunInv)'
  BY TypeOKNext, RunNext
<1> QED
  BY <1>1, <1>2, PTL DEF Spec
(* An acknowledged configuration is the agent's own until the trigger      *)
(* (_configure_one, AgentService._configure).                              *)
THEOREM AckedIsAppliedHolds ==
  ASSUME Prompt
  PROVE  Spec => []AckedIsApplied
<1>1. TypeOK /\ RunInv => AckedIsApplied
  BY DEF TypeOK, OutcomesOK, RunInv, NodeInv, ConfiguredInv, Acknowledged,
     AckedIsApplied
<1> QED
  BY <1>1, RunInvariant, PTL

(* An agent that has answered the pre-run stop runs no loop of its own and *)
(* resumes no start; one that answered that it stopped is in no run        *)
(* (_clear_stale, AgentService._stop).                                     *)
THEOREM ClearedIsIdleHolds ==
  ASSUME Prompt
  PROVE  Spec => []ClearedIsIdle
<1>1. TypeOK /\ RunInv => ClearedIsIdle
  <2>1. ASSUME TypeOK, RunInv, NEW n \in Nodes, phase = "clear", outbox[n] # None
        PROVE  /\ loops[n] = "none" /\ ~orphans[n]
               /\ strays[n] = {} /\ parked[n] = {}
               /\ outbox[n].ok => ~Running(n)
    <3>1. NodeInv(n) /\ waiting[n] = <<run, "clear", 0>>
      BY <2>1 DEF RunInv, PlanInv, NodeInv, FlightInv, Awaited
    <3>2. InFlight(n) = {}
      BY <2>1, <3>1, CommandsByPhase DEF NodeInv, FlightInv, Awaited
    <3> QED
      BY <2>1, <3>1, <3>2 DEF NodeInv, ClearInv, FlightInv, TaskInv, InFlight
  <2> QED
    BY <2>1 DEF ClearedIsIdle
<1> QED
  BY <1>1, RunInvariant, PTL

(* The rows collected from a node reported ok are its whole finalised log  *)
(* of the run (_stop before _collect).                                     *)
THEOREM CollectedIsWholeHolds ==
  ASSUME Prompt
  PROVE  Spec => []CollectedIsWhole
<1>1. RunInv => CollectedIsWhole
  <2>1. ASSUME RunInv, NEW n \in Nodes \ missed, Done, Ok(n)
        PROVE  run \in final[n] /\ got[n] = rows[n][run]
    <3>1. Joined(n) /\ phase = "done" /\ NodeInv(n)
      BY <2>1 DEF Done, Ok, Joined, RunInv
    <3> QED
      BY <3>1 DEF NodeInv, JoinedInv, InIt, Stopping, CollectInv
  <2> QED
    BY <2>1 DEF CollectedIsWhole
<1> QED
  BY <1>1, RunInvariant, PTL

(* ... and every one of them was sampled under the run's own arm, and      *)
(* under the events that name the node (run_arms, _apply_event).           *)
THEOREM CollectedOneArmHolds ==
  ASSUME Prompt
  PROVE  Spec => []CollectedOneArm
<1>1. RunInv => CollectedOneArm
  <2>1. ASSUME RunInv, NEW n \in Nodes \ missed, Done, Ok(n), NEW c \in got[n]
        PROVE  GoodCfg(n, c)
    <3>1. Joined(n) /\ phase = "done" /\ NodeInv(n)
      BY <2>1 DEF Done, Ok, Joined, RunInv
    <3>2. got[n] = rows[n][run] /\ OneArm(n)
      BY <3>1 DEF NodeInv, CollectInv, JoinedInv, Refused
    <3> QED
      BY <2>1, <3>2 DEF OneArm
  <2> QED
    BY <2>1 DEF CollectedOneArm, GoodCfg
<1> QED
  BY <1>1, RunInvariant, PTL

(* The hub's record of a node's configuration is right after the events    *)
(* and their roll-back (_apply_event).                                     *)
THEOREM HubKnowsConfigurationHolds ==
  ASSUME Prompt
  PROVE  Spec => []HubKnowsConfiguration
<1>1. RunInv => HubKnowsConfiguration
  BY DEF RunInv, NodeInv, KnownInv, HubKnowsConfiguration
<1> QED
  BY <1>1, RunInvariant, PTL

(* Where the name of the run an agent is in can change while a run is on.  *)
LEMMA NameStep ==
  ASSUME TypeOK, RunInv, [Next]_vars, phase \in {"start", "event"},
         NEW n \in Nodes, runName'[n] # runName[n]
  PROVE  \/ Restart(n)
         \/ \E req \in InFlight(n) : /\ StartRelay(n, req) \/ StartLocalDone(n, req)
                                     /\ runName'[n] = run
<1> USE DEF TypeOK, AgentTypeOK, TasksOK
<1>1. ASSUME UNCHANGED agentSide PROVE FALSE
  BY <1>1 DEF agentSide
<1>2. PICK m \in Nodes : AgentNext(m)
  <2>1. CASE UNCHANGED vars
    BY <1>1, <2>1 DEF vars, agentVars, agentSide
  <2>2. CASE \/ NewRun \/ BeginConfigure \/ Abort \/ BeginStart \/ BeginEvent
             \/ BeginStop \/ BeginFetch \/ Report \/ Interrupt
    BY <1>1, <2>2 DEF NewRun, BeginConfigure, Abort, BeginStart, BeginEvent,
       BeginStop, BeginFetch, Report, Interrupt, UnchangedAgents
  <2>3. ASSUME NEW m \in Nodes,
               \/ ApplyEvent(m) \/ Collect(m) \/ HubReceives(m) \/ HubGivesUp(m)
               \/ LoseStraggler(m)
        PROVE  FALSE
    BY <1>1, <2>3 DEF ApplyEvent, Collect, HubReceives, HubGivesUp, LoseStraggler,
       UnchangedAgents
  <2> QED
    BY <2>1, <2>2, <2>3 DEF Next, HubStep
<1>3. AgentNext(n)
  BY <1>2, StepIsLocal DEF Same
<1>4. Shape(n)
  BY DEF RunInv, NodeInv, FlightInv
<1>5. ASSUME NEW req \in InFlight(n),
             \/ Configure(n, req)    \/ ConfigureFails(n, req)
             \/ StartRefused(n, req) \/ StopIdle(n, req)
             \/ FetchMeta(n, req)    \/ FetchRows(n, req)
             \/ FetchRefused(n, req) \/ StartRelayFails(n, req)
             \/ StartLocal(n, req)   \/ StartLocalFails(n, req)
             \/ StopLocal(n, req)
      PROVE  FALSE
  BY <1>5 DEF Configure, ConfigureFails, StartRefused, StopIdle, FetchMeta,
     FetchRows, FetchRefused, StartRelayFails, StartLocal, StartLocalFails, StopLocal
<1>6. ASSUME NEW req \in InFlight(n),
             \/ StopRelay(n, req)     \/ StopRelayFails(n, req)
             \/ StopLocalDone(n, req) \/ StopLocalFails(n, req)
      PROVE  FALSE
  BY <1>4, <1>6, CommandsByPhase DEF StopRelay, StopRelayFails, StopLocalDone, StopLocalFails, Take, Resume
<1>7. ASSUME NEW req \in InFlight(n), StartRelay(n, req) \/ StartLocalDone(n, req)
      PROVE  runName'[n] = run
  BY <1>4, <1>7 DEF StartRelay, StartLocalDone, Take, Resume, Shape
<1>8. ASSUME \/ ControlStep(n) \/ ControlStepRaises(n)
             \/ StrayStep(n)   \/ BoardReport(n)
      PROVE  FALSE
  BY <1>8 DEF ControlStep, ControlStepRaises, StrayStep, BoardReport
<1> QED
  BY <1>3, <1>5, <1>6, <1>7, <1>8 DEF AgentNext, Serve, Handle, InFlight

(* Until the hub's stop an agent leaves its run only by dying.             *)
THEOREM StaysInRunHolds ==
  ASSUME Prompt
  PROVE  Spec => StaysInRun
<1>1. ASSUME TypeOK, RunInv, [Next]_vars, NEW n \in started,
             phase \in {"start", "event"}, runName[n] = run, runName'[n] # run
      PROVE  ~ready'[n]
  <2>1. n \in Nodes /\ Restart(n)
    BY <1>1, NameStep DEF TypeOK, OutcomesOK
  <2> QED
    BY <2>1, <1>1 DEF Restart, TypeOK, AgentTypeOK, ConfigurationOK
<1>2. TypeOK /\ RunInv /\ [Next]_vars =>
        [\A n \in started :
           /\ phase \in {"start", "event"}
           /\ runName[n] = run /\ runName'[n] # run
           => ~ready'[n]]_vars
  BY <1>1
<1> QED
  BY <1>2, RunInvariant, PTL DEF Spec, StaysInRun

(* No agent enters a run with a controller that has been stepped (run_arms,*)
(* AgentService._configure).                                               *)
THEOREM StartsFromResetHolds ==
  ASSUME Prompt
  PROVE  Spec => StartsFromReset
<1>1. ASSUME TypeOK, RunInv, [Next]_vars, NEW n \in Nodes,
             phase \in {"start", "event"},
             runName'[n] # runName[n], runName'[n] # None
      PROVE  pristine'[n]
  <2> USE DEF TypeOK, AgentTypeOK, ConfigurationOK
  <2>1. ASSUME Restart(n) PROVE FALSE
    BY <1>1, <2>1 DEF Restart, TasksOK
  <2>2. ASSUME NEW req \in InFlight(n), StartRelay(n, req)
        PROVE  pristine'[n]
    BY <1>1, <2>2 DEF StartRelay
  <2>3. ASSUME NEW req \in InFlight(n), StartLocalDone(n, req)
        PROVE  pristine'[n]
    <3>1. req \in parked[n] /\ req.cmd = "start" /\ pristine' = pristine
      BY <2>3 DEF StartLocalDone, Resume
    <3>2. ConfiguredInv(n) /\ TaskInv(n)
      BY <1>1 DEF RunInv, NodeInv, FlightInv
    <3>3. ready[n] /\ n \notin Relays /\ ~Running(n)
      BY <1>1, <3>1, <3>2 DEF ConfiguredInv, TaskInv, Running
    <3> QED
      BY <1>1, <3>1, <3>2, <3>3 DEF ConfiguredInv
  <2> QED
    BY <1>1, <2>1, <2>2, <2>3, NameStep
<1>2. TypeOK /\ RunInv /\ [Next]_vars =>
        [\A n \in Nodes : /\ phase \in {"start", "event"}
                          /\ runName'[n] # runName[n] /\ runName'[n] # None
           => pristine'[n]]_vars
  BY <1>1
<1> QED
  BY <1>2, RunInvariant, PTL DEF Spec, StartsFromReset
=============================================================================
