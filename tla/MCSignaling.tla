------------------------------ MODULE MCSignaling ------------------------------
(* Small instance of Signaling: sockets and clients are interchangeable.     *)
EXTENDS SignalingHistory, TLC

Symmetry == Permutations(Sockets) \cup Permutations(Clients)
=============================================================================
