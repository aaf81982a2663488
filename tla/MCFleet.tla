------------------------------ MODULE MCFleet -------------------------------
(* Small fleets for TLC: one relay and one local agent.                    *)
EXTENDS Fleet

CONSTANTS relay, wifi, armA, armB

MCNodes == {relay, wifi}
MCRelays == {relay}
MCArms == {armA, armB}
MCRuns == 1 .. NumRuns
MCConfigs == [arm : MCArms, events : SUBSET (1 .. NumEvents)]
MCIds == MCRuns
         \X {"clear", "configure", "start", "event", "stop", "meta", "rows"}
         \X (0 .. NumEvents)

\* A trial of two arms, and two repeats of one.
PairedArms == [r \in 1 .. NumRuns |-> IF r % 2 = 1 THEN armA ELSE armB]
OneArm == [r \in 1 .. NumRuns |-> armA]

\* Every event names the local agent, or both nodes.
EventsOnWifi == [k \in 1 .. NumEvents |-> {wifi}]
EventsOnAll  == [k \in 1 .. NumEvents |-> MCNodes]
=============================================================================
