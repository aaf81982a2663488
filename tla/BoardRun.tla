------------------------------- MODULE BoardRun -------------------------------
(***************************************************************************)
(* What a board promises of the packets of its runs, whatever its threads  *)
(* do and its radio refuses: a run is triggered from rest, and until the   *)
(* board is at rest again the packet it puts on the air is the one counted *)
(* last in that run; a board comes to rest with nothing on the air, unless *)
(* its radio has refused a command.                                        *)
(***************************************************************************)
EXTENDS Naturals

VARIABLES
  stage,    \* "rest", "run", or "stopping"
  run,      \* the last run triggered
  counted,  \* the packets counted in it
  air,      \* the packet on the air, if any
  refused   \* the radio has refused a command

vars == <<stage, run, counted, air, refused>>

Last == [run |-> run, n |-> counted]

Trigger ==
  /\ stage = "rest" /\ stage' = "run"
  /\ run' = run + 1 /\ counted' = 0
  /\ UNCHANGED <<air, refused>>

(* A run that has not begun has nothing to stop.                           *)
Stop ==
  /\ stage = "run"
  /\ \/ stage' = "stopping"
     \/ stage' = "rest" /\ (air = {} \/ refused)
  /\ UNCHANGED <<run, counted, air, refused>>

Count ==
  /\ stage # "rest" /\ counted' = counted + 1
  /\ UNCHANGED <<stage, run, air, refused>>

Send ==
  /\ stage # "rest" /\ air' = {Last}
  /\ UNCHANGED <<stage, run, counted, refused>>

Silence ==
  /\ stage = "stopping" /\ air' = {}
  /\ UNCHANGED <<stage, run, counted, refused>>

(* The last command of the teardown may be the one refused.                *)
Rest ==
  /\ stage = "stopping" /\ stage' = "rest"
  /\ refused' \in {refused, TRUE}
  /\ air = {} \/ refused'
  /\ UNCHANGED <<run, counted, air>>

Refuse ==
  /\ refused' = TRUE
  /\ UNCHANGED <<stage, run, counted, air>>

Init == stage = "rest" /\ run = 0 /\ counted = 0 /\ air = {} /\ refused = FALSE

Next == Trigger \/ Stop \/ Count \/ Send \/ Silence \/ Rest \/ Refuse

Spec == Init /\ [][Next]_vars
=============================================================================
