----------------------------- MODULE MCWsServer -----------------------------
(* Instances of WsServer for TLC.                                          *)
EXTENDS WsServer, TLC

\* Messages are their own lengths: 1 and 2 bytes, against a limit of 3.
LenOf == [m \in Msgs |-> m]

Symmetry == Permutations(Conns) \cup Permutations(AppThreads)
=============================================================================
