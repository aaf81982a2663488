----------------------------- MODULE RunBarrier -----------------------------
(***************************************************************************)
(* What the control plane promises of a series of runs, whatever is lost,  *)
(* late or restarted: "One configuration, or none" (README.md).  A run is  *)
(* opened only when every node has acknowledged its configuration, and a   *)
(* node takes part only in a run that has been opened.                     *)
(***************************************************************************)
EXTENDS Naturals

CONSTANTS Nodes, NumRuns, None

VARIABLES
  current,  \* the run being prepared or driven, 0 before the first
  acked,    \* the nodes that acknowledged its configuration
  open,     \* the runs that were opened
  active    \* the run each node is in, or None

vars == <<current, acked, open, active>>

NewRun ==
  /\ current < NumRuns
  /\ current' = current + 1
  /\ acked' = {}
  /\ UNCHANGED <<open, active>>

Acknowledge(n) ==
  /\ current \notin open
  /\ acked' = acked \cup {n}
  /\ UNCHANGED <<current, open, active>>

Open ==
  /\ acked = Nodes
  /\ open' = open \cup {current}
  /\ UNCHANGED <<current, acked, active>>

Begin(n) ==
  /\ \E r \in open : active' = [active EXCEPT ![n] = r]
  /\ UNCHANGED <<current, acked, open>>

(* Stopped, or dead.                                                       *)
End(n) ==
  /\ active' = [active EXCEPT ![n] = None]
  /\ UNCHANGED <<current, acked, open>>

Init ==
  /\ current = 0 /\ acked = {} /\ open = {}
  /\ active = [n \in Nodes |-> None]

Next ==
  \/ NewRun \/ Open
  \/ \E n \in Nodes : Acknowledge(n) \/ Begin(n) \/ End(n)

Spec == Init /\ [][Next]_vars
=============================================================================
