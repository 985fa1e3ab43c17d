--------------------------- MODULE MCAccessControl ---------------------------
(* A small instance of AccessControl for TLC. *)
EXTENDS AccessControl, TLC

(* Servers, and roles other than the orchestrator, are interchangeable. *)
Symmetric == Permutations(Servers) \cup Permutations(Roles \ {Orchestrator})
=============================================================================
