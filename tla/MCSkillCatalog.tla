--------------------------- MODULE MCSkillCatalog ---------------------------
(* Small instances of SkillCatalog for TLC. *)
EXTENDS SkillCatalog, TLC

CONSTANTS x, y, coder

Plus(t) == [op |-> "+", tag |-> t]
Minus(t) == [op |-> "-", tag |-> t]

(* No tags, one more tag, one tag less, both less, and the two orders of   *)
(* taking a tag away and adding it.                                        *)
Lists == {<<>>, <<Plus(y)>>, <<Minus(x)>>, <<Minus(x), Minus(y)>>,
          <<Minus(x), Plus(x)>>, <<Plus(x), Minus(x)>>}

(* One role that may be listed, with or without tags; orchestrator and the *)
(* caller without a role are never filtered.                               *)
Files == {f \in [version : {0, 1}, roles : SUBSET {coder},
                 tags : UNION {[D -> SUBSET Tags] : D \in SUBSET {coder}}] :
            DOMAIN f.tags \subseteq f.roles}

(* Repositories are interchangeable. *)
Symmetric == Permutations(Repos)
=============================================================================
