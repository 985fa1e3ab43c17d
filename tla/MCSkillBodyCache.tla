-------------------------- MODULE MCSkillBodyCache --------------------------
(* Small instances of SkillBodyCache for TLC. *)
EXTENDS SkillBodyCache, TLC

(* Versions that fit together, fill the cache alone, and do not fit. *)
Sizes == <<1, 2, 3, 4>>
Lengths == [v \in Versions |-> Sizes[v]]

(* Paths are interchangeable. *)
Symmetric == Permutations(Paths)
=============================================================================
