---------------------------- MODULE SkillCatalog ----------------------------
(***************************************************************************)
(* BuildSkills (catalog/skills.go): the catalog of the skills one role     *)
(* sees.  The tags of a skill's front-matter modify the tags the scope     *)
(* file lists for the role; local skills are walked in the order of their  *)
(* directories, then the repositories of the manifest, a Go map, in any    *)
(* order.                                                                  *)
(*                                                                         *)
(* Directories without a readable, well-formed SKILL.md are skipped by the *)
(* code and do not appear here.  Tag lists are sets: removing a tag        *)
(* removes every copy of it, and only their intersection is looked at.     *)
(***************************************************************************)
EXTENDS Naturals, Sequences, SequencesExt

CONSTANTS Roles,        (* roles that callers ask for                        *)
          Orchestrator, (* "orchestrator"                                    *)
          Everyone,     (* "", the caller that names no role                 *)
          Names,        (* names of skills                                   *)
          Tags,         (* tags                                              *)
          TagLists,     (* front-matter: sequences of modifiers              *)
          ScopeFiles,   (* results of LoadScope                              *)
          Repos,        (* repositories of the external manifest             *)
          MaxSkills,    (* bound: local skills, and skills of one repository *)
          None          (* no repository                                     *)

Modifiers == [op : {"+", "-"}, tag : Tags]

ASSUME TagAssumption == TagLists \subseteq Seq(Modifiers)
ASSUME RoleAssumption == {Orchestrator, Everyone} \subseteq Roles
ASSUME NoneAssumption == None \notin Repos
ASSUME BoundAssumption == MaxSkills \in Nat

Skills == [name : Names, tags : TagLists]
Found == SeqOf(Skills, MaxSkills)

(* The roles a scope file lists, and the tags of those that have a list:   *)
(* a role with nothing after its colon has none, not an empty one.         *)
Scopes == [version : {0, 1}, roles : SUBSET Roles,
           tags : UNION {[D -> SUBSET Tags] : D \in SUBSET Roles}]

ASSUME ScopeAssumption ==
  /\ ScopeFiles \subseteq Scopes
  /\ \A f \in ScopeFiles : DOMAIN f.tags \subseteq f.roles

VARIABLES
  role, scope,      \* what the catalog is built for, and LoadScope's result
  local, external,  \* the skills there are
  walked,           \* local skills walked
  repo, at,         \* the repository being walked, and its skills walked
  unvisited,        \* repositories of the manifest not visited yet
  seenNames,        \* the names already taken
  skills            \* the catalog so far

input == <<role, scope, local, external>>
vars == <<input, walked, repo, at, unvisited, seenNames, skills>>

Summary == [name : Names, source : {"local", "external"}, tags : SUBSET Tags,
            agentScope : SUBSET Roles]

TypeOK ==
  /\ role \in Roles /\ scope \in ScopeFiles
  /\ local \in Found /\ external \in [Repos -> Found]
  /\ walked \in 0 .. Len(local)
  /\ repo \in Repos \cup {None} /\ at \in 0 .. MaxSkills
  /\ unvisited \subseteq Repos
  /\ seenNames \subseteq Names
  /\ skills \in Seq(Summary)

Init ==
  /\ role \in Roles /\ scope \in ScopeFiles
  /\ local \in Found /\ external \in [Repos -> Found]
  /\ walked = 0 /\ repo = None /\ at = 0
  /\ unvisited = Repos
  /\ seenNames = {} /\ skills = <<>>

-----------------------------------------------------------------------------
(* mergeTags *)

HasTags == role \in DOMAIN scope.tags
YamlTags == IF HasTags THEN scope.tags[role] ELSE {}
Unfiltered == role \in {Orchestrator, Everyone}

Modify(set, m) == IF m.op = "-" THEN set \ {m.tag} ELSE set \cup {m.tag}

MergedTags(fmTags) ==
  LET set[i \in 0 .. Len(fmTags)] ==
        IF i = 0 THEN YamlTags ELSE Modify(set[i - 1], fmTags[i])
  IN  set[Len(fmTags)]

(* Step 2: the roles before the tags of the skill are looked at. *)
RoleScope ==
  IF scope.version > 0 /\ scope.roles # {} /\ ~Unfiltered
  THEN IF ~HasTags THEN {} ELSE {role}
  ELSE scope.roles

(* Mutant: the tags of the skill itself are compared with the list. *)
LosesOverlapUnmerged(fmTags) ==
  /\ fmTags # <<>> /\ ~Unfiltered /\ HasTags
  /\ {fmTags[i].tag : i \in DOMAIN fmTags} \cap YamlTags = {}

(* Step 5: a listed role sees a skill that has tags only if one of the     *)
(* role's own is left.                                                     *)
LosesOverlap(fmTags) ==
  /\ fmTags # <<>> /\ ~Unfiltered /\ HasTags
  /\ MergedTags(fmTags) \cap YamlTags = {}

(* Mutant: the scope starts as the skill's tags, as parseExternalSkill does. *)
TagsAsScope(fmTags) == MergedTags(fmTags)

AgentScope(fmTags) == IF LosesOverlap(fmTags) THEN {} ELSE RoleScope

(* The filter of both walks. *)
Visible(s) ==
  \/ Unfiltered
  \/ scope.version > 0 /\ scope.roles = {}
  \/ AgentScope(s.tags) # {}

-----------------------------------------------------------------------------
Summarised(s, source) == [name |-> s.name, source |-> source,
                          tags |-> MergedTags(s.tags),
                          agentScope |-> AgentScope(s.tags)]

(* walkLocalSkills: the names of the skills it returns are taken.          *)
WalkLocal ==
  /\ walked < Len(local)
  /\ walked' = walked + 1
  /\ LET s == local[walked + 1] IN
     IF Visible(s)
     THEN /\ skills' = Append(skills, Summarised(s, "local"))
          /\ seenNames' = seenNames \cup {s.name}
     ELSE UNCHANGED <<skills, seenNames>>
  /\ UNCHANGED <<input, repo, at, unvisited>>

EnterRepo(r) ==
  /\ walked = Len(local) /\ repo = None /\ r \in unvisited
  /\ repo' = r /\ at' = 0
  /\ unvisited' = unvisited \ {r}
  /\ UNCHANGED <<input, walked, seenNames, skills>>

(* Mutant: a name is taken before the role filter is asked. *)
TakenAtOnce(s) == {s.name}

(* The name of an external skill is taken once it is listed. *)
Taken(s) == IF Visible(s) THEN {s.name} ELSE {}

(* walkExternalSkills: a taken name is skipped, then the role filter.      *)
WalkExternal ==
  /\ repo # None /\ at < Len(external[repo])
  /\ at' = at + 1
  /\ LET s == external[repo][at + 1] IN
     IF s.name \in seenNames
     THEN UNCHANGED <<skills, seenNames>>
     ELSE /\ skills' = IF Visible(s) THEN Append(skills, Summarised(s, "external"))
                                     ELSE skills
          /\ seenNames' = seenNames \cup Taken(s)
  /\ UNCHANGED <<input, walked, repo, unvisited>>

LeaveRepo ==
  /\ repo # None /\ at = Len(external[repo])
  /\ repo' = None /\ at' = 0
  /\ UNCHANGED <<input, walked, unvisited, seenNames, skills>>

Next == WalkLocal \/ (\E r \in Repos : EnterRepo(r)) \/ WalkExternal \/ LeaveRepo

Spec == Init /\ [][Next]_vars

-----------------------------------------------------------------------------
Done == walked = Len(local) /\ repo = None /\ unvisited = {}

Listed == {skills[i].name : i \in DOMAIN skills}

(* The finished catalog names exactly the skills of which some variant is  *)
(* visible, in whatever order the manifest was walked: a variant that is   *)
(* hidden from the role never keeps a visible one of the same name out,    *)
(* and an external skill is the only one under its name                    *)
(* (skills.go:451-475).                                                    *)
EveryVisibleNameListed ==
  /\ Done => Listed = {s.name : s \in {s \in ToSet(local) \cup
                                        UNION {ToSet(external[r]) : r \in Repos} : Visible(s)}}
  /\ \A i, j \in DOMAIN skills :
       i # j /\ skills[i].source = "external" => skills[i].name # skills[j].name

(* The last modifier that names the tag removes it. *)
TakesAway(fmTags, t) ==
  \E i \in DOMAIN fmTags :
    /\ fmTags[i] = [op |-> "-", tag |-> t]
    /\ \A j \in DOMAIN fmTags : fmTags[j].tag = t => j <= i

(* A role listed with tags sees a skill unless the skill, in the end,      *)
(* takes every one of them away; tags the skill adds, also anew, never     *)
(* hide it (skills.go:259-303).                                            *)
HiddenOnlyBySubtraction ==
  \A s \in ToSet(local) :
    YamlTags # {} /\ ~Visible(s) => \A t \in YamlTags : TakesAway(s.tags, t)

(* "No YAML or empty scope -> allow all" (skills.go:242): a scope file     *)
(* that lists no role hides no skill.                                      *)
EmptyScopeAllowsAll ==
  scope.roles = {} => \A s \in ToSet(local) : Visible(s)

(* "skipping any that duplicate a local skill name" (skills.go:425).       *)
LocalNamesWin ==
  \A i \in DOMAIN skills :
    skills[i].source = "external"
      => skills[i].name \notin {local[j].name : j \in DOMAIN local}
=============================================================================
