------------------------------ MODULE MCWsServer ------------------------------
(* Two descriptors and two clients; permuting either changes no property.   *)
EXTENDS WsServer, TLC

Symmetry == Permutations(Sockets) \cup Permutations(Clients)
=============================================================================
