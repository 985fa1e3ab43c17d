-------------------------- MODULE MCServerLifecycle --------------------------
(* Small instances of ServerLifecycle for TLC. *)
EXTENDS ServerLifecycle, TLC

(* The objects, and the goroutines, are interchangeable. *)
Symmetric == Permutations(Procs) \cup Permutations(Entries)
             \cup Permutations(Ops) \cup Permutations(StdioConfigs)

(* What callers do to one subprocess. *)
Catalogs == {"reload", "deactivate", "catalog"}
Reloads == {"register", "reload", "deregister", "deactivate"}
Starts == {"register", "start", "deregister"}
Transports == {"register", "activate"}
Removals == {"register", "activate", "deregister"}
Configurations == {"register", "activate", "reloadWith"}
=============================================================================
