----------------------------- MODULE MCTransports -----------------------------
(* Transports with small bounds, which each configuration sets.            *)
EXTENDS Transports
===============================================================================
