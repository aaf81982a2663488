---------------------------- MODULE MCAgentLoops ------------------------------
(* Two agents in a simulation, or one on a node whose steps may overrun.    *)
EXTENDS AgentLoops

CONSTANTS first, second

MCAgents == {first, second}
\* A step of no time, of less than a control period, and of more than two.
MCSteps == {0, 3, 23}
===============================================================================
