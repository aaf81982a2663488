------------------------------- MODULE Fleet --------------------------------
(***************************************************************************)
(* A hub driving a series of runs over the whole fleet                     *)
(* (vertex/hub/runner.py through vertex/control/client.py), composed with  *)
(* the agents of AgentService.                                             *)
(*                                                                         *)
(* A run is a sequence of phases: clear stale state, configure, start,     *)
(* apply the scheduled event, stop, fetch.  A phase calls every node at    *)
(* once and ends when every call has been answered or given up, except the *)
(* event, which calls its nodes one after the other, and the fetches,      *)
(* which are bounded by a semaphore.                                       *)
(*                                                                         *)
(* A call given up is not a call undone.  The client closes its connection *)
(* and the request may be lost, or may still be executed later, behind the *)
(* back of the hub.  LateClear and LateCalls say how much later.           *)
(***************************************************************************)
EXTENDS AgentService

CONSTANTS
  NumRuns,      \* length of the series
  Arms,         \* what a manifest can configure
  ArmOf,        \* the arm of each run
  Paired,       \* TRUE for run_arms, FALSE for run_repeated
  NumEvents,    \* how many scheduled events the manifest holds
  EventNodes,   \* the nodes each of them names
  Fetchers,     \* COLLECT_CONCURRENCY
  LateClear,    \* an abandoned pre-run stop may outlive the clear phase
  LateCalls     \* an abandoned call may outlive its run

Steps  == {"clear", "configure", "start", "event", "stop", "meta", "rows"}
Phases == {"clear", "configure", "start", "event", "stop", "fetch", "done"}

\* An assignment: the arm it was built for and the events applied to it.
Assignments == [arm : Arms, events : SUBSET (1 .. NumEvents)]

ASSUME FleetAssumption ==
  /\ Nodes # {} /\ IsFiniteSet(Nodes)
  /\ NumRuns \in Nat \ {0} /\ Runs = 1 .. NumRuns
  /\ NumEvents \in Nat
  /\ Configs = Assignments
  /\ Ids = Runs \X Steps \X (0 .. NumEvents)
  /\ ArmOf \in [Runs -> Arms]
  /\ Paired \/ \A r \in Runs : ArmOf[r] = ArmOf[1]
  /\ Paired \in BOOLEAN /\ LateClear \in BOOLEAN /\ LateCalls \in BOOLEAN
  /\ EventNodes \in [1 .. NumEvents -> SUBSET Nodes]
  /\ Fetchers \in Nat \ {0}

VARIABLES
  run,          \* the current run, 0 before the first
  phase,
  assignments,  \* self.assignments
  event,        \* the scheduled event in force, 0 before the first
  before,       \* the assignment an event in flight would roll back to
  todo,         \* the nodes the event, or the collection, has yet to call
  triggered,    \* the runs the hub has triggered (history)
  configured,   \* the nodes whose NodeOutcome says configured
  started,      \*  ... says started
  failed,       \* the nodes whose NodeOutcome has errors
  sampled,      \* the nodes whose stop reported samples
  missed,       \* the nodes a note says missed an event
  got           \* the rows file collected from each node

plan      == <<run, phase, assignments, event, before, todo, triggered>>
outcomes  == <<configured, started, failed, sampled, missed, got>>
hubVars   == <<plan, outcomes>>
agentSide == <<identity, pristine, tasks, board, runName, logs, parked>>
vars      == <<agentVars, waiting, faults, hubVars>>

-----------------------------------------------------------------------------
(* Calls                                                                   *)

(* The client of every node of S sends a request: on its connection, or on *)
(* a new one.  A request sent to a process that has died is lost.  `on` is *)
(* the state of the connections.                                           *)
Call(S, step, cmd, on) ==
  LET id     == <<run', step, event'>>
      req(n) == [id |-> id, cmd |-> cmd,
                 run |-> IF cmd \in {"start", "meta", "rows"} THEN run' ELSE None,
                 cfg |-> IF cmd = "configure" THEN assignments'[n] ELSE None]
  IN /\ inbox'   = [n \in Nodes |-> IF n \in S /\ on[n] # "stale"
                                    THEN inbox[n] \cup {req(n)} ELSE inbox[n]]
     /\ conn'    = [n \in Nodes |-> IF n \in S /\ on[n] = "none"
                                    THEN "open" ELSE on[n]]
     /\ waiting' = [n \in Nodes |-> IF n \in S THEN id ELSE waiting[n]]

(* Mutant of AllAnswered: the hub awaits the calls until they succeed.     *)
AllSucceeded == failed = {} /\ \A n \in Nodes : waiting[n] = None

AllAnswered == \A n \in Nodes : waiting[n] = None

(* Requests of calls the hub has given up, and their suspended handlers.   *)
Straggling(n) ==
  {req \in inbox[n] \cup parked[n] : req.id # waiting[n]}

-----------------------------------------------------------------------------
(* What the hub does with the outcome of a call: rep is the reply, or Bad  *)
(* when the client raised ControlError; `on` is the state it leaves the    *)
(* connections in.                                                         *)

(* Mutants: a failure is swallowed; counted as a success; a success        *)
(* overwrites the ones before it.                                          *)
FailsUnrecorded(n, rep, set) == set
CountsAnyway(n, rep, set)    == set \cup {n}
CountsLastOnly(n, rep, set)  == IF rep.ok THEN {n} ELSE set

Fails(n, rep, set)  == IF rep.ok THEN set ELSE set \cup {n}
Counts(n, rep, set) == IF rep.ok THEN set \cup {n} ELSE set

Returned(n, on) ==
  /\ waiting' = [waiting EXCEPT ![n] = None]
  /\ conn' = on
  /\ UNCHANGED inbox

(* _clear_stale: best effort, recording nothing.                           *)
AfterClear(n, rep, on) ==
  /\ phase = "clear"
  /\ Returned(n, on)
  /\ UNCHANGED hubVars

AfterConfigure(n, rep, on) ==
  /\ phase = "configure"
  /\ Returned(n, on)
  /\ configured' = Counts(n, rep, configured)
  /\ failed'     = Fails(n, rep, failed)
  /\ UNCHANGED <<plan, started, sampled, missed, got>>

AfterStart(n, rep, on) ==
  /\ phase = "start"
  /\ Returned(n, on)
  /\ started' = Counts(n, rep, started)
  /\ failed'  = Fails(n, rep, failed)
  /\ UNCHANGED <<plan, configured, sampled, missed, got>>

(* _apply_event: a failure is a note, not an error, and takes the change   *)
(* of self.assignments back.                                               *)
AfterEvent(n, rep, on) ==
  /\ phase = "event"
  /\ Returned(n, on)
  /\ missed'      = Fails(n, rep, missed)
  /\ assignments' = IF rep.ok THEN assignments
                    ELSE [assignments EXCEPT ![n] = before]
  /\ UNCHANGED <<run, phase, event, before, todo, triggered, configured,
                 started, failed, sampled, got>>

AfterStop(n, rep, on) ==
  /\ phase = "stop"
  /\ Returned(n, on)
  /\ failed'  = Fails(n, rep, failed)
  /\ sampled' = IF rep.samples THEN sampled \cup {n} ELSE sampled
  /\ UNCHANGED <<plan, configured, started, missed, got>>

(* _collect_one: the metadata, then the rows, whatever became of the       *)
(* metadata.                                                               *)
AfterMeta(n, rep, on) ==
  /\ phase = "fetch" /\ waiting[n][2] = "meta"
  /\ failed' = Fails(n, rep, failed)
  /\ UNCHANGED <<plan, configured, started, sampled, missed, got>>
  /\ Call({n}, "rows", "rows", on)

AfterRows(n, rep, on) ==
  /\ phase = "fetch" /\ waiting[n][2] = "rows"
  /\ Returned(n, on)
  /\ failed' = Fails(n, rep, failed)
  /\ got'    = IF rep.ok THEN [got EXCEPT ![n] = rep.rows] ELSE got
  /\ UNCHANGED <<plan, configured, started, sampled, missed>>

After(n, rep, on) ==
  /\ waiting[n] # None
  /\ outbox' = [outbox EXCEPT ![n] = None]
  /\ \/ AfterClear(n, rep, on)  \/ AfterConfigure(n, rep, on)
     \/ AfterStart(n, rep, on)  \/ AfterEvent(n, rep, on)
     \/ AfterStop(n, rep, on)
     \/ AfterMeta(n, rep, on)   \/ AfterRows(n, rep, on)

(* The reply arrives before the timeout.                                   *)
HubReceives(n) ==
  /\ outbox[n] # None
  /\ After(n, outbox[n], conn)
  /\ UNCHANGED <<agentSide, faults>>

(* No reply can come any more: the connection is reset.                    *)
Dead(n) ==
  /\ waiting[n] # None /\ outbox[n] = None
  /\ \A req \in inbox[n] \cup parked[n] : req.id # waiting[n]

(* The timeout, a connection refused or reset: the client closes the       *)
(* connection and raises.  The request stays wherever it has got to.       *)
HubGivesUp(n) ==
  /\ After(n, Bad, [conn EXCEPT ![n] = "none"])
  /\ IF Dead(n) THEN UNCHANGED faults ELSE Fault
  /\ UNCHANGED agentSide

(* A request of an abandoned call never reaches the agent.                 *)
LoseStraggler(n) ==
  /\ \E req \in inbox[n] \cap Straggling(n) :
        inbox' = [inbox EXCEPT ![n] = @ \ {req}]
  /\ UNCHANGED <<agentSide, outbox, clientVars, faults, hubVars>>

-----------------------------------------------------------------------------
(* The phases of run()                                                     *)

(* assignments_for(manifest, run_index)                                    *)
Manifest == [n \in Nodes |-> [arm |-> ArmOf[1], events |-> {}]]

UnchangedAgents == UNCHANGED <<agentSide, outbox, faults>>
NoCall          == UNCHANGED <<inbox, clientVars>>

(* Mutant of SetArm: the arm of the run before is kept.                    *)
SetArmForgotten(r) == assignments

(* set_arm: before every run of run_arms, and of no other series.          *)
SetArm(r) == IF Paired
             THEN [n \in Nodes |-> [arm |-> ArmOf[r], events |-> {}]]
             ELSE assignments

NewRun ==
  /\ phase = "done" /\ run < NumRuns
  /\ LateCalls \/ \A n \in Nodes : Straggling(n) = {}
  /\ run'         = run + 1
  /\ phase'       = "clear"
  /\ assignments' = SetArm(run')
  /\ event' = 0 /\ todo' = {}
  /\ configured' = {} /\ started' = {} /\ failed' = {} /\ sampled' = {}
  /\ missed' = {} /\ got' = [n \in Nodes |-> {}]
  /\ Call(Nodes, "clear", "stop", conn)
  /\ UNCHANGED <<before, triggered>>
  /\ UnchangedAgents

BeginConfigure ==
  /\ phase = "clear" /\ AllAnswered
  /\ LateClear \/ \A n \in Nodes : \A req \in Straggling(n) :
                     req.id # <<run, "clear", 0>>
  /\ phase' = "configure"
  /\ UNCHANGED <<run, assignments, event, before, todo, triggered, outcomes>>
  /\ Call(Nodes, "configure", "configure", conn)
  /\ UnchangedAgents

(* The barrier: some node did not acknowledge, so no node is started.      *)
Abort ==
  /\ phase = "configure" /\ AllAnswered
  /\ configured # Nodes
  /\ phase'  = "done"
  /\ failed' = Nodes
  /\ UNCHANGED <<run, assignments, event, before, todo, triggered, configured,
                 started, sampled, missed, got>>
  /\ NoCall /\ UnchangedAgents

(* Mutant of BeginStart: no barrier.                                       *)
BeginStartPartial ==
  /\ phase = "configure" /\ AllAnswered
  /\ phase'     = "start"
  /\ triggered' = triggered \cup {run}
  /\ UNCHANGED <<run, assignments, event, before, todo, outcomes>>
  /\ Call(Nodes, "start", "start", conn)
  /\ UnchangedAgents

BeginStart ==
  /\ phase = "configure" /\ AllAnswered
  /\ configured = Nodes
  /\ phase'     = "start"
  /\ triggered' = triggered \cup {run}
  /\ UNCHANGED <<run, assignments, event, before, todo, outcomes>>
  /\ Call(Nodes, "start", "start", conn)
  /\ UnchangedAgents

(* The next scheduled event falls due.                                     *)
BeginEvent ==
  /\ phase \in {"start", "event"} /\ AllAnswered /\ todo = {}
  /\ event < NumEvents
  /\ phase' = "event"
  /\ event' = event + 1
  /\ todo'  = EventNodes[event']
  /\ UNCHANGED <<run, assignments, before, triggered, outcomes>>
  /\ NoCall /\ UnchangedAgents

(* The event reaches its next node.                                        *)
ApplyEvent(n) ==
  /\ phase = "event" /\ AllAnswered /\ n \in todo
  /\ todo'        = todo \ {n}
  /\ before'      = assignments[n]
  /\ assignments' = [assignments EXCEPT ![n].events = @ \cup {event}]
  /\ UNCHANGED <<run, phase, event, triggered, outcomes>>
  /\ Call({n}, "event", "configure", conn)
  /\ UnchangedAgents

(* The duration is over; every node is stopped, started or not.            *)
BeginStop ==
  /\ phase \in {"start", "event"} /\ AllAnswered /\ todo = {}
  /\ event = NumEvents
  /\ phase' = "stop"
  /\ UNCHANGED <<run, assignments, event, before, todo, triggered, outcomes>>
  /\ Call(Nodes, "stop", "stop", conn)
  /\ UnchangedAgents

BeginFetch ==
  /\ phase = "stop" /\ AllAnswered
  /\ phase' = "fetch"
  /\ todo'  = Nodes
  /\ UNCHANGED <<run, assignments, event, before, triggered, outcomes>>
  /\ NoCall /\ UnchangedAgents

(* The semaphore admits another node.                                      *)
Collect(n) ==
  /\ phase = "fetch" /\ n \in todo
  /\ Cardinality({m \in Nodes : waiting[m] # None}) < Fetchers
  /\ todo' = todo \ {n}
  /\ UNCHANGED <<run, phase, assignments, event, before, triggered, outcomes>>
  /\ Call({n}, "meta", "meta", conn)
  /\ UnchangedAgents

(* run.json is written and the report returned.                            *)
Report ==
  /\ phase = "fetch" /\ AllAnswered /\ todo = {}
  /\ phase' = "done"
  /\ UNCHANGED <<run, assignments, event, before, todo, triggered, outcomes>>
  /\ NoCall /\ UnchangedAgents

(* The hub process is killed in the middle of a run, and the rest of the   *)
(* series is driven by a new one.                                          *)
Interrupt ==
  /\ Fault
  /\ phase # "done"
  /\ phase'       = "done"
  /\ assignments' = Manifest
  /\ failed'      = Nodes
  /\ conn'        = [n \in Nodes |-> "none"]
  /\ waiting'     = [n \in Nodes |-> None]
  /\ outbox'      = [n \in Nodes |-> None]
  /\ UNCHANGED <<run, event, before, todo, triggered, configured, started,
                 sampled, missed, got, inbox, agentSide>>

-----------------------------------------------------------------------------
Init ==
  /\ AgentInit
  /\ run = 0 /\ phase = "done"
  /\ assignments = Manifest
  /\ event = 0 /\ before = None /\ todo = {} /\ triggered = {}
  /\ configured = {} /\ started = {} /\ failed = {} /\ sampled = {}
  /\ missed = {} /\ got = [n \in Nodes |-> {}]

HubStep ==
  \/ NewRun \/ BeginConfigure \/ Abort \/ BeginStart \/ BeginEvent
  \/ BeginStop \/ BeginFetch \/ Report
  \/ \E n \in Nodes : ApplyEvent(n) \/ Collect(n) \/ HubReceives(n)

Next ==
  \/ HubStep
  \/ Interrupt
  \/ \E n \in Nodes : HubGivesUp(n) \/ LoseStraggler(n)
  \/ \E n \in Nodes : AgentNext(n) /\ UNCHANGED hubVars

Spec == Init /\ [][Next]_vars

(* The hub's event loop and the agents' run on; a connection whose request *)
(* died is eventually noticed.                                             *)
Fairness ==
  /\ WF_vars(HubStep)
  /\ \A n \in Nodes :
       /\ WF_vars(Serve(n) /\ UNCHANGED hubVars)
       /\ WF_vars(Dead(n) /\ HubGivesUp(n))

FairSpec == Spec /\ Fairness

-----------------------------------------------------------------------------
PlanOK ==
  /\ run \in 0 .. NumRuns
  /\ phase \in Phases
  /\ phase # "done" => run \in Runs
  /\ assignments \in [Nodes -> Assignments]
  /\ event \in 0 .. NumEvents
  /\ phase = "event" => event # 0
  /\ before \in Assignments \cup {None}
  /\ \A n \in Nodes : phase = "event" /\ waiting[n] # None
                       => before \in Assignments
  /\ todo \subseteq Nodes
  /\ triggered \subseteq Runs

OutcomesOK ==
  /\ configured \subseteq Nodes /\ started \subseteq Nodes
  /\ failed \subseteq Nodes /\ sampled \subseteq Nodes /\ missed \subseteq Nodes
  /\ got \in [Nodes -> SUBSET Setting]

\* The values of every variable of the hub and of the agents it drives; a
\* request in flight carries what its handler needs, and an event in flight
\* has an assignment to roll back to.
TypeOK == AgentTypeOK /\ PlanOK /\ OutcomesOK

-----------------------------------------------------------------------------
(* Properties                                                              *)

\* NodeOutcome.ok
Ok(n) == n \in configured /\ n \in started /\ n \notin failed

Done == phase = "done" /\ run > 0

\* "One configuration, or none": no agent runs under a name the hub has not
\* triggered, and the hub triggers a run only once every node has acknowledged
\* its configuration (the barrier of run(), runner.py).
Barrier ==
  /\ \A n \in Nodes : runName[n] # None => runName[n] \in triggered
  /\ run \in triggered => configured = Nodes

\* An acknowledged configuration is what the agent holds, and what its
\* controller or board runs under, until the trigger: no earlier call and no
\* failure slips in between (_configure_one, AgentService._configure).
AckedIsApplied ==
  \A n \in configured :
    phase \in {"configure", "start"} /\ assignment[n] # None
      => assignment[n] = assignments[n] /\ built[n] = assignments[n]

\* Once an agent has answered the pre-run stop no loop of its own runs and no
\* start is suspended in it; and unless it answered that it could not stop, it
\* is in no run (_clear_stale, AgentService._stop).
ClearedIsIdle ==
  \A n \in Nodes : phase = "clear" /\ outbox[n] # None
    => /\ loops[n] = "none" /\ ~orphans[n] /\ strays[n] = {} /\ parked[n] = {}
       /\ outbox[n].ok => ~Running(n)

\* Every run starts from its initial conditions: whatever failed before, no
\* agent takes a run name, while the run is on, with a controller that has
\* already been stepped (run_arms: "a full reset of the plant, the observer and
\* the adaptive state").
StartsFromReset ==
  [][\A n \in Nodes : /\ phase \in {"start", "event"}
                      /\ runName'[n] # runName[n] /\ runName'[n] # None
        => pristine'[n]]_vars

\* Between the trigger's acknowledgement and the hub's stop an agent leaves
\* its run only if its process dies.
StaysInRun ==
  [][\A n \in started :
        /\ phase \in {"start", "event"}
        /\ runName[n] = run /\ runName'[n] # run
        => ~ready'[n]]_vars

\* What the hub collected from a node it reports ok, and no note mentions, is
\* the whole finalised log of that run: it was not read while being appended
\* to, and no crash shortened it ("stop before fetching").
CollectedIsWhole ==
  \A n \in Nodes \ missed : Done /\ Ok(n)
    => run \in final[n] /\ got[n] = rows[n][run]

\* Every row of a node reported ok was sampled under the run's own arm, and
\* under an event only where the manifest names the node, unless a note says
\* that an event missed it.
CollectedOneArm ==
  \A n \in Nodes \ missed : Done /\ Ok(n)
    => \A c \in got[n] : /\ c \in Configs
                         /\ c.arm = ArmOf[run]
                         /\ \A k \in c.events : n \in EventNodes[k]

\* The hub's own record of a node's configuration is right, through events and
\* their roll-back, unless a note says otherwise (_apply_event).
HubKnowsConfiguration ==
  \A n \in Nodes \ missed : phase \in {"stop", "fetch", "done"} /\ Ok(n)
    => assignment[n] \in {None, assignments[n]}

\* Whatever times out, dies or is lost, the series ends with a report for its
\* last run: no call, semaphore or barrier hangs the hub.
SeriesEnds == <>(run = NumRuns /\ phase = "done")

\* Why the barrier holds however late a call is executed: no start is on its
\* way, or suspended in an agent, for a run that was not triggered, and the
\* hub never triggers ahead of itself.
StartsTriggered ==
  \A n \in Nodes : \A req \in inbox[n] \cup parked[n] :
    req.cmd = "start" => req.run \in triggered

BarrierInv == Barrier /\ StartsTriggered /\ triggered \subseteq 1 .. run

\* The fleet implements the abstract barrier: the run the hub is at, the
\* configurations acknowledged, the runs triggered, the runs agents are in.
Abstract == INSTANCE RunBarrier
              WITH current <- run, acked <- configured, open <- triggered,
                   active <- runName
ImplementsRunBarrier == Abstract!Spec
=============================================================================
