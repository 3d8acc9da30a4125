----------------------------- MODULE MCWsClient -----------------------------
(* WsClient with small sets for TLC; senders are interchangeable.          *)
EXTENDS WsClient, TLC

Symmetry == Permutations(Senders)
=============================================================================
