---------------------------- MODULE MCAgentCycle ----------------------------
(***************************************************************************)
(* Instances of AgentCycle for TLC.                                        *)
(***************************************************************************)
EXTENDS AgentCycle, TLC

CONSTANTS tablet, console, a1, a2, a3, g6

NoAddress6 == [d \in Device |-> None]
GatewayAddress6 == [d \in Device |-> g6]

Interchangeable == Permutations(Addr) \cup Permutations(Device)
=============================================================================
