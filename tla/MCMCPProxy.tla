----------------------------- MODULE MCMCPProxy -----------------------------
(* Small instances of MCPProxy for TLC. *)
EXTENDS MCPProxy, TLC

NoNoise == {}
AllNoise == {NoId, TooLong}

(* Servers and calls are interchangeable in the safety runs. *)
Symmetric == Permutations(Servers) \cup Permutations(Calls)
=============================================================================
