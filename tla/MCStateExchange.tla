-------------------------- MODULE MCStateExchange ---------------------------
(* One agent, one declared neighbour and one it only overhears.            *)
EXTENDS StateExchange

CONSTANTS neighbour, other

MCPeers == {neighbour, other}
MCDeclared == {neighbour}
\* Far from the wrap, and two packets before it.
MCMaxSent == [p \in MCPeers |-> IF p = neighbour THEN 4 ELSE 1]
MCMaxHeard == [p \in MCPeers |-> IF p = neighbour THEN 3 ELSE 1]
MCEnabled == [p \in MCPeers |-> TRUE]
MCFirstSeqs == {0, SeqModulus - 3}
=============================================================================
