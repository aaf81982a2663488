----------------------------- MODULE MCBoardLink ------------------------------
(* Three assignments: two of a microgrid law, one of them with values the   *)
(* board refuses, and one of the scalar law.                                *)
EXTENDS BoardLink

CONSTANTS good, unpinned, scalar

MCConfigs   == {good, unpinned, scalar}
MCMicrogrid == {good, unpinned}
\* An unpinned node sent the reference is refused in its second block.
MCRefused == [c \in MCConfigs |-> IF c = unpinned THEN {"virtual"} ELSE {}]
===============================================================================
