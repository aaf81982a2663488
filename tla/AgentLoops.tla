----------------------------- MODULE AgentLoops -------------------------------
(***************************************************************************)
(* The periodic loops of the agents (Agent._run_periodic,                  *)
(* vertex/agent/agent.py) on the two clocks they can be given              *)
(* (vertex/clock.py): the wall clock of a node, where the control and the  *)
(* publish loop share one thread and a step takes time, and the virtual    *)
(* clock of a simulation (vertex/sim/runner.py), which a driver advances   *)
(* when every task is parked, with the simulated medium that carries the   *)
(* packets (vertex/transports/loopback.py).                                *)
(*                                                                         *)
(* Times are relative to the present.                                      *)
(***************************************************************************)
EXTENDS Integers, Sequences, FiniteSets, FiniteSetsExt, SequencesExt

CONSTANTS
  Agents,     \* the agents of a simulation
  Node,       \* the one agent of a process on a node
  Dt,         \* dt_s
  Every,      \* publish_period_s in control periods
  Steps,      \* how long a loop's body may take on the wall clock
  Jitter,     \* how much later than asked a sleep may end on the wall clock
  Delay,      \* LoopbackBus.delay_s
  Horizon     \* until_s of the simulation

Period(l) == IF l.kind = "control" THEN Dt ELSE Every * Dt
\* A tenth of the period: the least a loop sleeps, and what counts as late.
Floor(l) == Period(l) \div 10

ASSUME LoopsAssumption ==
  /\ IsFiniteSet(Agents) /\ Node \in Agents
  /\ Dt \in Nat /\ Dt > 0 /\ Dt % 10 = 0
  /\ Every \in Nat \ {0}
  /\ Steps \subseteq Nat /\ IsFiniteSet(Steps) /\ Steps # {}
  /\ {Jitter, Delay, Horizon} \subseteq Nat

VARIABLES
  clock,     \* "wall" or "virtual"
  inTick,    \* the law publishes from inside the control step
  ready,     \* the tasks the event loop will run, in order
  sleepers,  \* VirtualClock._waiters, or the loop's timers, as they were set
  due,       \* next_deadline - now of each loop
  ticks,     \* control steps of the agent beyond those its packets stand for,
             \* a publish period each
  left,      \* simulated time left
  bus,       \* LoopbackBus.counters
  done       \* the simulation has ended

vars == <<clock, inTick, ready, sleepers, due, ticks, left, bus, done>>

Nodes == IF clock = "wall" THEN {Node} ELSE Agents
Loop(a, k) == [kind |-> k, agent |-> a, age |-> 0]
Loops == {Loop(a, k) : a \in Nodes, k \in {"control", "publish"} \ 
                                          (IF inTick THEN {"publish"} ELSE {})}

\* An agent's control loop is started before its publish loop.
Init ==
  /\ clock \in {"wall", "virtual"}
  /\ inTick \in BOOLEAN
  /\ ready = <<>>
  /\ \E s \in SetToSeqs(Loops) :
       /\ \A i, j \in DOMAIN s : i < j /\ s[i].agent = s[j].agent
                                => s[i].kind = "control"
       /\ sleepers = [i \in DOMAIN s |-> [task |-> s[i], at |-> Period(s[i])]]
  /\ due = [l \in Loops |-> Period(l)]
  /\ ticks = [a \in Nodes |-> 0]
  /\ left = Horizon
  /\ bus = [sent |-> 0, delivered |-> 0, dropped |-> 0]
  /\ done = FALSE

-----------------------------------------------------------------------------
(* Time *)

Older(task, t) == IF task.kind \in {"control", "publish"} THEN task
                  ELSE [task EXCEPT !.age = @ + t]
Waking(t) == {i \in DOMAIN sleepers : sleepers[i].at <= t}

\* Some of the sleepers, in the order in which they went to sleep.
InOrder(S) ==
  LET among[i \in 0 .. Len(sleepers)] ==
        IF i = 0 THEN <<>>
        ELSE IF i \in S THEN Append(among[i - 1], i) ELSE among[i - 1]
  IN  among[Len(sleepers)]

\* Time passes, and some of the sleepers become ready, in an order.
Pass(t, order) ==
  /\ ready' = [i \in DOMAIN ready |-> Older(ready[i], t)]
                \o [i \in DOMAIN order |-> Older(sleepers[order[i]].task, t)]
  /\ sleepers' = LET rest == InOrder(DOMAIN sleepers \ ToSet(order))
                 IN  [j \in DOMAIN rest |->
                        [task |-> Older(sleepers[rest[j]].task, t),
                         at |-> sleepers[rest[j]].at - t]]
  /\ due' = [l \in DOMAIN due |-> due[l] - t]

Earliest == Min({sleepers[i].at : i \in DOMAIN sleepers} \cup {Horizon + 1})

\* The event loop with nothing to run sleeps until the first timer; timers that
\* are due fire in the order of their times.
WallPass ==
  /\ clock = "wall" /\ ready = <<>>
  /\ \E j \in 0 .. Jitter :
       LET t == Max({Earliest, 0}) + j
       IN  \E order \in SetToSeqs(Waking(t)) :
             /\ \A m, n \in DOMAIN order :
                  m < n => sleepers[order[m]].at <= sleepers[order[n]].at
             /\ Pass(t, order)
  /\ UNCHANGED <<clock, inTick, ticks, left, bus, done>>

(* Mutant of LiveTasks: the driver counts the loops it started.           *)
LiveTasksStarted == Cardinality(Loops)

\* _park_all: every live task of the event loop is parked on the clock.
LiveTasks == Len(ready) + Len(sleepers)
Parked == Len(sleepers) >= LiveTasks

\* drive_virtual_clock: the clock jumps to the earliest deadline.  Deadlines are
\* floats that each loop adds up on its own, so those that are due at the same
\* instant come apart by a rounding, in any order: the clock may reach one of
\* them before the others, or lie beyond the horizon by as much.
Advance ==
  /\ clock = "virtual" /\ ~done
  /\ Parked
  /\ \/ /\ sleepers = <<>> \/ Earliest >= left
        /\ done' = TRUE
        /\ UNCHANGED <<ready, sleepers, due, left>>
     \/ /\ sleepers # <<>> /\ Earliest <= left
        /\ \E S \in SUBSET Waking(Earliest) \ {{}} :
             \E order \in SetToSeqs(S) : Pass(Earliest, order)
        /\ left' = left - Earliest
        /\ UNCHANGED done
  /\ UNCHANGED <<clock, inTick, ticks, bus>>

-----------------------------------------------------------------------------
(* The loops *)

(* Mutant of NextDue: the deadline comes from now.                         *)
NextDueFromNow(l) == Period(l)

\* The next deadline comes from the last one, not from now; periods that have
\* gone by altogether are skipped.  "now" is when the body began.
NextDue(l) ==
  LET d == due[l] + Period(l)
  IN  IF d < 0 THEN d + (((-d) \div Period(l)) + 1) * Period(l) ELSE d

\* The body takes t; the loop then sleeps until its deadline, and a tenth of
\* its period at the least.
Sleep(l, t, spawned) ==
  LET at == NextDue(l) - t
  IN  /\ due' = [k \in DOMAIN due |-> IF k = l THEN at ELSE due[k] - t]
      /\ sleepers' = [i \in DOMAIN sleepers |-> [sleepers[i] EXCEPT !.at = @ - t]]
                       \o <<[task |-> l, at |-> Max({Floor(l), at})]>>
      /\ ready' = Tail(ready) \o spawned

Durations == IF clock = "wall" THEN Steps ELSE {0}

\* _publish_step: the packet leaves in a task of its own.
Packet(a) == <<[kind |-> "send", agent |-> a, age |-> 0]>>

\* On a node the two loops may skip periods, each its own: the count is kept
\* within two publish periods.
Clamp(n) == Max({-2 * Every, Min({n, 2 * Every})})

\* _control_step: a law that publishes in its tick does so every so many ticks.
ControlStep(l) ==
  /\ l.kind = "control"
  /\ LET a == l.agent
         publishes == inTick /\ ticks[a] + 1 = Every
     IN  /\ \E t \in Durations : Sleep(l, t, IF publishes THEN Packet(a) ELSE <<>>)
         /\ ticks' = [ticks EXCEPT ![a] = IF publishes THEN 0 ELSE Clamp(@ + 1)]
  /\ UNCHANGED bus

PublishStep(l) ==
  /\ l.kind = "publish"
  /\ \E t \in Durations : Sleep(l, t, Packet(l.agent))
  /\ ticks' = [ticks EXCEPT ![l.agent] = Clamp(@ - Every)]
  /\ UNCHANGED bus

-----------------------------------------------------------------------------
(* The medium of the simulation *)

Count(field, n) == [bus EXCEPT ![field] = @ + n]

\* LoopbackBus.broadcast: to every other agent, each delivery lost or not.  A
\* delivery that takes time is a task, which goes to sleep when it first runs.
Broadcast(task) ==
  /\ task.kind = "send"
  /\ IF clock = "wall" THEN ready' = Tail(ready) /\ UNCHANGED bus
     ELSE \E reached \in SUBSET (Nodes \ {task.agent}) :
            LET n == Cardinality(reached)
                lost == Cardinality(Nodes) - 1 - n
            IN  /\ ready' = Tail(ready) \o
                     IF Delay = 0 THEN <<>>
                     ELSE [i \in 1 .. n |-> [task EXCEPT !.kind = "carry"]]
                /\ bus' = [bus EXCEPT !.sent = @ + 1, !.dropped = @ + lost,
                                      !.delivered = IF Delay = 0 THEN @ + n ELSE @]
  /\ UNCHANGED <<sleepers, due, ticks>>

\* _deliver_later, before and after its sleep.
Carry(task) ==
  /\ task.kind = "carry"
  /\ ready' = Tail(ready)
  /\ sleepers' = Append(sleepers, [task |-> [task EXCEPT !.kind = "deliver"],
                                   at |-> Delay])
  /\ UNCHANGED <<due, ticks, bus>>

Deliver(task) ==
  /\ task.kind = "deliver"
  /\ ready' = Tail(ready)
  /\ bus' = Count("delivered", 1)
  /\ UNCHANGED <<sleepers, due, ticks>>

Run ==
  /\ ready # <<>> /\ ~done
  /\ LET task == Head(ready)
     IN  \/ ControlStep(task)
         \/ PublishStep(task)
         \/ Broadcast(task)
         \/ Carry(task)
         \/ Deliver(task)
  /\ UNCHANGED <<clock, inTick, left, done>>

Next == WallPass \/ Advance \/ Run

Spec == Init /\ [][Next]_vars

-----------------------------------------------------------------------------
(* Correctness *)

TypeOK ==
  /\ due \in [Loops -> Int]
  /\ \A i \in DOMAIN sleepers : sleepers[i].at \in Int
  /\ \A i \in DOMAIN ready : ready[i].kind \in
       {"control", "publish", "send", "carry", "deliver"}
  /\ ticks \in [Nodes -> -2 * Every .. 2 * Every]
  /\ left \in 0 .. Horizon
  /\ bus \in [sent : Nat, delivered : Nat, dropped : Nat]

\* However late its steps run, a loop's deadlines stay where they were: the two
\* loops of an agent keep their phase, and drift does not accumulate
\* (_run_periodic).
DeadlinesKeepPhase ==
  \A l, k \in Loops : (due[l] - due[k]) % Dt = 0

\* In a simulation a loop's body runs at its deadline and a packet is delivered
\* its delay after it was published, to a rounding: the clock never moves with
\* a task to run (drive_virtual_clock, _other_live_tasks).
NothingRunsLate ==
  clock = "virtual" =>
    \A i \in DOMAIN ready :
      LET task == ready[i]
      IN  IF task \in Loops THEN due[task] = 0
          ELSE task.age = (IF task.kind = "deliver" THEN Delay ELSE 0)

\* A loop that falls behind skips the periods it missed: it is never later than
\* a body of each loop, the shortest sleep and a late wake-up make it.
LongestStep == Max(Steps)
LagIsBounded ==
  \A l \in Loops : due[l] >= -(2 * LongestStep + Floor(l) + Jitter)

\* Neither clock lets a loop slip: in a simulation nothing runs late, on a node
\* nothing runs later than one overrun (drive_virtual_clock, _run_periodic).
LoopsInv == TypeOK /\ NothingRunsLate /\ LagIsBounded

\* In a simulation an agent's two loops keep pace however their ties fall: the
\* packet number k leaves after k publish periods of control steps, or one step
\* short of it, and between two packets there is no more than a step too many or
\* too few; a law that publishes in its tick has the exact number
\* (docs/CLOCK_MODEL.md, "The tick model"; drive_virtual_clock).
ExchangeKeepsPace ==
  clock = "virtual" =>
    \A a \in Nodes : ticks[a] \in IF inTick THEN 0 .. Every - 1 ELSE -1 .. Every

===============================================================================
