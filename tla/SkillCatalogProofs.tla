------------------------- MODULE SkillCatalogProofs -------------------------
(***************************************************************************)
(* Proofs about SkillCatalog, for any number of skills, tags, roles and    *)
(* repositories.  First what mergeTags computes, by induction over the     *)
(* modifiers of a skill, then the two walks.                               *)
(***************************************************************************)
EXTENDS SkillCatalog, SequenceTheorems, WellFoundedInduction, TLAPS

(* A set of numbers with 0 and the successor of each of its members has    *)
(* every natural number: a least one that it has not could not exist.      *)
LEMMA SetInduction ==
  ASSUME NEW S, 0 \in S, \A n \in Nat : n \in S => n + 1 \in S
  PROVE  Nat \subseteq S
<1> DEFINE R == OpToRel(<, Nat)
           T == Nat \ S
<1>1. IsWellFoundedOn(R, Nat)
  BY NatLessThanWellFounded, Zenon
<1>2. \A x, y \in Nat : x < y => <<x, y>> \in R
  BY DEF OpToRel
<1> HIDE DEF R
<1> SUFFICES ASSUME T # {} PROVE FALSE
  OBVIOUS
<1>3. T \subseteq Nat
  OBVIOUS
<1>4. PICK m \in T : \A y \in T : ~ (<<y, m>> \in R)
  BY <1>1, <1>3, WFMin
<1>5. m \in Nat /\ m # 0
  OBVIOUS
<1>6. m - 1 \in Nat /\ m - 1 < m /\ (m - 1) + 1 = m
  BY <1>5
<1>7. m - 1 \notin T
  BY <1>2, <1>4, <1>5, <1>6
<1>8. QED
  BY <1>6, <1>7

-----------------------------------------------------------------------------
(* mergeTags *)

(* set[i] is what the first i modifiers make of the role's own tags.       *)
Merges(set, fmTags, n) ==
  set = [i \in 0 .. n |-> IF i = 0 THEN YamlTags ELSE Modify(set[i - 1], fmTags[i])]

(* The recursion of MergedTags has a solution for every list of modifiers. *)
LEMMA MergeExists ==
  ASSUME NEW fmTags, NEW n \in Nat
  PROVE  \E set : Merges(set, fmTags, n)
<1> DEFINE G == {m \in Nat : \E set : Merges(set, fmTags, m)}
<1>1. 0 \in G
  <2>1. Merges([i \in 0 .. 0 |-> YamlTags], fmTags, 0)
    BY DEF Merges
  <2>2. QED
    BY <2>1
<1>2. ASSUME NEW m \in Nat, m \in G PROVE m + 1 \in G
  <2>1. PICK set : Merges(set, fmTags, m)
    BY <1>2
  <2> DEFINE last == Modify(set[m], fmTags[m + 1])
             more == [i \in 0 .. m + 1 |-> IF i = m + 1 THEN last ELSE set[i]]
  <2>2. \A i \in 0 .. m + 1 :
          more[i] = IF i = 0 THEN YamlTags ELSE Modify(more[i - 1], fmTags[i])
    <3> SUFFICES ASSUME NEW i \in 0 .. m + 1
                 PROVE  more[i] = IF i = 0 THEN YamlTags
                                  ELSE Modify(more[i - 1], fmTags[i])
      OBVIOUS
    <3> HIDE DEF last
    <3>1. CASE i = m + 1
      <4>1. i # 0 /\ i - 1 = m /\ m \in 0 .. m + 1 /\ m # m + 1
        BY <3>1
      <4>2. more[i] = last /\ more[i - 1] = set[m]
        BY <3>1, <4>1
      <4>3. QED
        BY <3>1, <4>1, <4>2 DEF last
    <3>2. CASE i # m + 1 /\ i # 0
      <4>1. i \in 0 .. m /\ i - 1 \in 0 .. m /\ i - 1 # m + 1
        BY <3>2
      <4>2. more[i] = set[i] /\ more[i - 1] = set[i - 1]
        BY <4>1, <3>2
      <4>3. set[i] = Modify(set[i - 1], fmTags[i])
        BY <2>1, <3>2, <4>1 DEF Merges
      <4>4. QED
        BY <3>2, <4>2, <4>3
    <3>3. CASE i = 0
      BY <2>1, <3>3 DEF Merges
    <3>4. QED
      BY <3>1, <3>2, <3>3
  <2> HIDE DEF last
  <2>3. Merges(more, fmTags, m + 1)
    <3>1. DOMAIN more = 0 .. m + 1
      OBVIOUS
    <3> DEFINE F(i) == IF i = 0 THEN YamlTags ELSE Modify(more[i - 1], fmTags[i])
    <3>2. more = [i \in DOMAIN more |-> more[i]]
      OBVIOUS
    <3> HIDE DEF more
    <3>3. more = [i \in 0 .. m + 1 |-> F(i)]
      BY <2>2, <3>1, <3>2
    <3>4. QED
      BY <3>3, Zenon DEF Merges
  <2>4. QED
    BY <2>3
<1>3. Nat \subseteq G
  <2> HIDE DEF G
  <2>1. QED
    BY <1>1, <1>2, SetInduction
<1>4. QED
  BY <1>3

(* ... and MergedTags is its last element.                                 *)
LEMMA MergedLast ==
  ASSUME NEW fmTags, Len(fmTags) \in Nat
  PROVE  \E set : Merges(set, fmTags, Len(fmTags)) /\ MergedTags(fmTags) = set[Len(fmTags)]
<1>1. \E set : Merges(set, fmTags, Len(fmTags))
  BY MergeExists
<1>2. QED
  BY <1>1, Zenon DEF MergedTags, Merges

(* The elements of the recursion, one after the other.                     *)
LEMMA MergeSteps ==
  ASSUME NEW set, NEW fmTags, NEW n \in Nat, Merges(set, fmTags, n)
  PROVE  /\ set[0] = YamlTags
         /\ \A i \in Nat : i + 1 <= n => set[i + 1] = Modify(set[i], fmTags[i + 1])
<1>1. set[0] = YamlTags
  BY DEF Merges
<1>2. ASSUME NEW i \in Nat, i + 1 <= n PROVE set[i + 1] = Modify(set[i], fmTags[i + 1])
  <2>1. i + 1 \in 0 .. n /\ i + 1 # 0 /\ (i + 1) - 1 = i
    BY <1>2
  <2>2. QED
    BY <2>1 DEF Merges
<1>3. QED
  BY <1>1, <1>2

(* The merged tags are tags.                                               *)
LEMMA MergedAreTags ==
  ASSUME NEW fmTags \in Seq(Modifiers), YamlTags \subseteq Tags
  PROVE  MergedTags(fmTags) \subseteq Tags
<1>1. PICK set : Merges(set, fmTags, Len(fmTags)) /\ MergedTags(fmTags) = set[Len(fmTags)]
  BY MergedLast
<1> DEFINE G == {n \in Nat : n <= Len(fmTags) => set[n] \subseteq Tags}
<1>2. 0 \in G
  BY <1>1, MergeSteps
<1>3. ASSUME NEW n \in Nat, n \in G PROVE n + 1 \in G
  <2> SUFFICES ASSUME n + 1 <= Len(fmTags) PROVE set[n + 1] \subseteq Tags
    OBVIOUS
  <2>1. set[n + 1] = Modify(set[n], fmTags[n + 1])
    BY <1>1, MergeSteps
  <2>2. fmTags[n + 1] \in Modifiers
    OBVIOUS
  <2>3. fmTags[n + 1].tag \in Tags /\ set[n] \subseteq Tags
    BY <1>3, <2>2 DEF Modifiers
  <2>4. QED
    BY <2>1, <2>3 DEF Modify
<1> HIDE DEF G
<1>4. Nat \subseteq G
  BY <1>2, <1>3, SetInduction
<1>5. QED
  BY <1>1, <1>4 DEF G

(* A tag of the role that is not among the merged tags was taken away by   *)
(* the last modifier that names it.                                        *)
LEMMA TagTakenAway ==
  ASSUME NEW fmTags \in Seq(Modifiers), NEW t \in YamlTags, t \notin MergedTags(fmTags)
  PROVE  TakesAway(fmTags, t)
<1>1. PICK set : Merges(set, fmTags, Len(fmTags)) /\ MergedTags(fmTags) = set[Len(fmTags)]
  BY MergedLast
<1> DEFINE Takes(n) == \E i \in 1 .. n :
                         /\ fmTags[i] = [op |-> "-", tag |-> t]
                         /\ \A j \in 1 .. n : fmTags[j].tag = t => j <= i
           G == {n \in Nat : n <= Len(fmTags) /\ t \notin set[n] => Takes(n)}
<1>2. 0 \in G
  BY <1>1, MergeSteps
<1>3. ASSUME NEW n \in Nat, n \in G PROVE n + 1 \in G
  <2> SUFFICES ASSUME n + 1 <= Len(fmTags), t \notin set[n + 1] PROVE Takes(n + 1)
    OBVIOUS
  <2>1. set[n + 1] = Modify(set[n], fmTags[n + 1])
    BY <1>1, MergeSteps
  <2>2. /\ fmTags[n + 1].op \in {"+", "-"}
        /\ fmTags[n + 1] = [op |-> fmTags[n + 1].op, tag |-> fmTags[n + 1].tag]
    <3>1. fmTags[n + 1] \in Modifiers
      OBVIOUS
    <3>2. QED
      BY <3>1 DEF Modifiers
  <2>3. CASE fmTags[n + 1].tag = t
    <3>1. fmTags[n + 1] = [op |-> "-", tag |-> t]
      BY <2>1, <2>2, <2>3 DEF Modify
    <3>2. \A j \in 1 .. n + 1 : j <= n + 1
      OBVIOUS
    <3>3. QED
      BY <3>1, <3>2
  <2>4. CASE fmTags[n + 1].tag # t
    <3>1. t \notin set[n]
      BY <2>1, <2>4 DEF Modify
    <3>2. Takes(n)
      BY <1>3, <3>1
    <3>3. PICK i \in 1 .. n : /\ fmTags[i] = [op |-> "-", tag |-> t]
                              /\ \A j \in 1 .. n : fmTags[j].tag = t => j <= i
      BY <3>2
    <3>4. i \in 1 .. n + 1 /\ \A j \in 1 .. n + 1 : fmTags[j].tag = t => j <= i
      BY <2>4, <3>3
    <3>5. QED
      BY <3>3, <3>4
  <2>5. QED
    BY <2>3, <2>4
<1> HIDE DEF G
<1>4. Nat \subseteq G
  BY <1>2, <1>3, SetInduction
<1>5. Takes(Len(fmTags))
  BY <1>1, <1>4 DEF G
<1>6. QED
  BY <1>5 DEF TakesAway

-----------------------------------------------------------------------------
(* What is found and what the scope file says. *)

(* What is found is a sequence of bounded length.                          *)
LEMMA FoundSeqs == \A f \in Found : f \in Seq(Skills) /\ Len(f) <= MaxSkills
BY BoundAssumption DEF Found, SeqOf

(* A skill has a name and tags.                                            *)
LEMMA SkillTypes ==
  ASSUME NEW s \in Skills
  PROVE  s.name \in Names /\ s.tags \in Seq(Modifiers)
BY TagAssumption DEF Skills

(* The role's own tags are tags, and a role that has some is listed.       *)
LEMMA ScopeTypes ==
  ASSUME scope \in ScopeFiles
  PROVE  /\ scope.roles \subseteq Roles
         /\ YamlTags \subseteq Tags
         /\ HasTags => role \in scope.roles
BY ScopeAssumption DEF Scopes, YamlTags, HasTags

(* A skill's summary.                                                      *)
LEMMA SummaryType ==
  ASSUME TypeOK, NEW s \in Skills, NEW source \in {"local", "external"}
  PROVE  Summarised(s, source) \in Summary
<1>1. MergedTags(s.tags) \subseteq Tags
  BY SkillTypes, ScopeTypes, MergedAreTags DEF TypeOK
<1>2. AgentScope(s.tags) \subseteq Roles
  BY ScopeTypes DEF TypeOK, AgentScope, RoleScope
<1>3. QED
  BY <1>1, <1>2, SkillTypes DEF Summarised, Summary

(* Types hold when a scan begins.                                          *)
LEMMA TypeInit == Init => TypeOK
<1>1. Init => skills \in Seq(Summary)
  BY DEF Init
<1>2. Init => walked \in 0 .. Len(local)
  BY FoundSeqs DEF Init
<1>3. QED
  BY <1>1, <1>2, BoundAssumption DEF Init, TypeOK

(* Every step preserves them.                                              *)
LEMMA TypeStep == TypeOK /\ [Next]_vars => TypeOK'
<1> SUFFICES ASSUME TypeOK, [Next]_vars PROVE TypeOK'
  OBVIOUS
<1> USE DEF TypeOK
<1>0. local \in Seq(Skills) /\ Len(local) \in Nat
  BY FoundSeqs
<1>1. CASE WalkLocal
  <2>1. walked' \in 0 .. Len(local) /\ local[walked + 1] \in Skills
    BY <1>0, <1>1 DEF WalkLocal
  <2>2. local[walked + 1].name \in Names /\ Summarised(local[walked + 1], "local") \in Summary
    BY <2>1, SkillTypes, SummaryType
  <2>3. seenNames' \subseteq Names /\ skills' \in Seq(Summary)
    <3>1. CASE Visible(local[walked + 1])
      <4>1. /\ skills' = Append(skills, Summarised(local[walked + 1], "local"))
            /\ seenNames' = seenNames \cup {local[walked + 1].name}
        BY <1>1, <3>1 DEF WalkLocal
      <4>2. QED
        BY <2>2, <4>1
    <3>2. CASE ~Visible(local[walked + 1])
      <4>1. skills' = skills /\ seenNames' = seenNames
        BY <1>1, <3>2 DEF WalkLocal
      <4>2. QED
        BY <4>1
    <3>3. QED
      BY <3>1, <3>2
  <2>4. QED
    BY <1>1, <2>1, <2>3 DEF WalkLocal, input
<1>2. CASE \E r \in Repos : EnterRepo(r)
  BY <1>2, BoundAssumption DEF EnterRepo, input
<1>3. CASE WalkExternal
  <2>1. repo \in Repos /\ external[repo] \in Seq(Skills) /\ Len(external[repo]) <= MaxSkills
    BY <1>3, FoundSeqs DEF WalkExternal
  <2>2. at' \in 0 .. MaxSkills /\ external[repo][at + 1] \in Skills
    BY <1>3, <2>1, BoundAssumption DEF WalkExternal
  <2>3. /\ external[repo][at + 1].name \in Names
        /\ Summarised(external[repo][at + 1], "external") \in Summary
    BY <2>2, SkillTypes, SummaryType
  <2>4. seenNames' \subseteq Names /\ skills' \in Seq(Summary)
    <3> DEFINE s == external[repo][at + 1]
    <3>1. \/ skills' = skills /\ seenNames' = seenNames
          \/ /\ skills' = skills \/ skills' = Append(skills, Summarised(s, "external"))
             /\ seenNames' = seenNames \cup Taken(s)
      BY <1>3 DEF WalkExternal
    <3>2. Taken(s) \subseteq Names
      BY <2>3 DEF Taken
    <3>3. seenNames' \subseteq Names
      BY <3>1, <3>2
    <3> HIDE DEF s
    <3>4. Summarised(s, "external") \in Summary
      BY <2>3 DEF s
    <3>5. QED
      BY <3>1, <3>3, <3>4, SMTT(30)
  <2>5. QED
    BY <1>3, <2>2, <2>4 DEF WalkExternal, input
<1>4. CASE LeaveRepo
  BY <1>4, BoundAssumption DEF LeaveRepo, input
<1>5. CASE UNCHANGED vars
  BY <1>5 DEF vars, input
<1>6. QED
  BY <1>1, <1>2, <1>3, <1>4, <1>5 DEF Next

(* TypeOK: for any skills, scope file and manifest, the catalog has        *)
(* summaries of skills only, with tags and roles that there are, and both  *)
(* walks stay within what was found.                                       *)
THEOREM CatalogTyped == Spec => []TypeOK
BY TypeInit, TypeStep, PTL DEF Spec

(* HiddenOnlyBySubtraction: whatever tags a skill and the role have, a     *)
(* role that has tags loses a skill only when the last word of the skill   *)
(* on every one of these tags is to take it away.                          *)
THEOREM HiddenBySubtraction == Spec => []HiddenOnlyBySubtraction
<1>1. ASSUME TypeOK PROVE HiddenOnlyBySubtraction
  <2> SUFFICES ASSUME NEW s \in ToSet(local), YamlTags # {}, ~Visible(s), NEW t \in YamlTags
               PROVE  TakesAway(s.tags, t)
    BY DEF HiddenOnlyBySubtraction
  <2>1. s \in Skills
    BY <1>1, FoundSeqs DEF TypeOK, ToSet
  <2>2. HasTags /\ role \in scope.roles
    BY <1>1, ScopeTypes DEF YamlTags, TypeOK
  <2>3. LosesOverlap(s.tags)
    BY <2>2 DEF Visible, AgentScope, RoleScope
  <2>4. t \notin MergedTags(s.tags)
    BY <2>3 DEF LosesOverlap
  <2>5. QED
    BY <2>1, <2>4, SkillTypes, TagTakenAway
<1>2. QED
  BY <1>1, CatalogTyped, PTL

-----------------------------------------------------------------------------
(* The two walks *)

(* Both walks stay in order: the repositories come after all local skills, *)
(* and one is left before the next is entered.                             *)
InOrder ==
  /\ repo # None \/ unvisited # Repos => walked = Len(local)
  /\ repo \notin unvisited
  /\ repo # None => at <= Len(external[repo])

(* The external skills looked at so far. *)
WalkedOf(r) == 1 .. (IF r = repo THEN at ELSE Len(external[r]))

(* The names taken are those listed, and a visible skill that was looked   *)
(* at has its name among them.                                             *)
Caught ==
  /\ seenNames = Listed
  /\ \A i \in 1 .. walked : Visible(local[i]) => local[i].name \in seenNames
  /\ \A r \in Repos \ unvisited : \A j \in WalkedOf(r) :
       Visible(external[r][j]) => external[r][j].name \in seenNames

VisibleNames ==
  {s.name : s \in {s \in ToSet(local) \cup UNION {ToSet(external[r]) : r \in Repos} : Visible(s)}}

Unique ==
  \A i, j \in DOMAIN skills :
    i # j /\ skills[i].source = "external" => skills[i].name # skills[j].name

(* No external skill is listed before the repositories are walked, so that *)
(* no local one is appended after it.                                      *)
LocalsFirst ==
  walked < Len(local) => \A i \in DOMAIN skills : skills[i].source # "external"

CatalogInv ==
  TypeOK /\ InOrder /\ Caught /\ Listed \subseteq VisibleNames /\ Unique /\ LocalsFirst

(* What a skill's visibility depends on does not change.                   *)
LEMMA SameVisible ==
  ASSUME UNCHANGED input
  PROVE  /\ \A s : Visible(s)' <=> Visible(s)
         /\ VisibleNames' = VisibleNames
<1>1. role' = role /\ scope' = scope /\ local' = local /\ external' = external
  BY DEF input
<1>2. YamlTags' = YamlTags
  BY <1>1 DEF YamlTags, HasTags
<1>3. ASSUME NEW f PROVE MergedTags(f)' = MergedTags(f)
  BY <1>2 DEF MergedTags
<1>4. ASSUME NEW s PROVE Visible(s)' <=> Visible(s)
  BY <1>1, <1>2, <1>3 DEF Visible, Unfiltered, AgentScope, LosesOverlap, HasTags, RoleScope
<1>5. QED
  BY <1>1, <1>4 DEF VisibleNames

(* One more summary lists one more name.                                   *)
LEMMA ListsOneMore ==
  ASSUME skills \in Seq(Summary), NEW s \in Summary, skills' = Append(skills, s)
  PROVE  /\ Listed' = Listed \cup {s.name}
         /\ DOMAIN skills' = 1 .. Len(skills) + 1
         /\ DOMAIN skills = 1 .. Len(skills)
         /\ skills'[Len(skills) + 1] = s
         /\ \A i \in DOMAIN skills : skills'[i] = skills[i] /\ i \in DOMAIN skills'
<1>1. /\ DOMAIN skills' = 1 .. Len(skills) + 1 /\ DOMAIN skills = 1 .. Len(skills)
      /\ skills'[Len(skills) + 1] = s /\ Len(skills) \in Nat
      /\ \A i \in DOMAIN skills : skills'[i] = skills[i]
  OBVIOUS
<1>2. \A i \in DOMAIN skills' : i \in DOMAIN skills \/ i = Len(skills) + 1
  BY <1>1
<1>3. \A i \in DOMAIN skills : i \in DOMAIN skills'
  BY <1>1
<1>4. Len(skills) + 1 \in DOMAIN skills'
  BY <1>1
<1>5. Listed' = Listed \cup {s.name}
  BY <1>1, <1>2, <1>3, <1>4 DEF Listed
<1>6. QED
  BY <1>1, <1>3, <1>5

(* Without a change of the catalog only the two walks can be disturbed.    *)
LEMMA ListKept ==
  ASSUME CatalogInv, TypeOK', UNCHANGED <<input, skills, seenNames>>,
         walked' = walked
  PROVE  /\ seenNames' = Listed' /\ Listed' \subseteq VisibleNames' /\ Unique' /\ LocalsFirst'
         /\ \A i \in 1 .. walked' : Visible(local[i]) => local[i].name \in seenNames'
<1>1. Listed' = Listed
  BY DEF Listed
<1>2. VisibleNames' = VisibleNames
  BY SameVisible
<1>3. Unique' /\ LocalsFirst'
  BY DEF CatalogInv, Unique, LocalsFirst, input
<1>4. QED
  BY <1>1, <1>2, <1>3 DEF CatalogInv, Caught

(* The invariant holds when a scan begins.                                 *)
LEMMA CatalogInit == Init => CatalogInv
<1> SUFFICES ASSUME Init PROVE CatalogInv
  OBVIOUS
<1>1. TypeOK
  BY TypeInit
<1>2. DOMAIN skills = {} /\ Listed = {} /\ seenNames = {} /\ walked = 0
  BY DEF Init, Listed
<1>3. InOrder
  BY NoneAssumption DEF Init, InOrder
<1>4. Caught
  BY <1>2 DEF Init, Caught
<1>5. QED
  BY <1>1, <1>2, <1>3, <1>4 DEF CatalogInv, Unique, LocalsFirst

(* A local skill that is visible is listed under its name.                 *)
LEMMA WalkLocalStep ==
  ASSUME CatalogInv, TypeOK', WalkLocal
  PROVE  CatalogInv'
<1> DEFINE s == local[walked + 1]
<1>1. /\ walked \in Nat /\ walked < Len(local) /\ walked' = walked + 1 /\ UNCHANGED input
      /\ repo' = repo /\ at' = at /\ unvisited' = unvisited
      /\ local' = local /\ external' = external
  BY FoundSeqs DEF WalkLocal, input, CatalogInv, TypeOK
<1>2. local \in Seq(Skills) /\ s \in Skills /\ s \in ToSet(local)
  BY <1>1, FoundSeqs DEF CatalogInv, TypeOK, ToSet
<1>3. repo = None /\ unvisited = Repos
  BY <1>1 DEF CatalogInv, InOrder
<1>4. InOrder'
  BY <1>1, <1>3 DEF InOrder, CatalogInv
<1>5. \A x : Visible(x)' <=> Visible(x)
  BY <1>1, SameVisible
<1>6. VisibleNames' = VisibleNames
  BY <1>1, SameVisible
<1>7. Visible(s) => s.name \in VisibleNames
  BY <1>2 DEF VisibleNames
<1>8. \A i \in 1 .. walked' : i \in 1 .. walked \/ i = walked + 1
  BY <1>1
<1>9. CASE Visible(s)
  <2> DEFINE sum == Summarised(s, "local")
  <2>1. sum \in Summary /\ sum.name = s.name /\ sum.source = "local"
    BY <1>2, SummaryType DEF CatalogInv, Summarised
  <2>2. skills' = Append(skills, sum) /\ seenNames' = seenNames \cup {s.name}
    BY <1>9 DEF WalkLocal
  <2> HIDE DEF s, sum
  <2>3. /\ Listed' = Listed \cup {s.name}
        /\ DOMAIN skills' = 1 .. Len(skills) + 1 /\ DOMAIN skills = 1 .. Len(skills)
        /\ skills'[Len(skills) + 1] = sum
        /\ \A i \in DOMAIN skills : skills'[i] = skills[i] /\ i \in DOMAIN skills'
    BY <2>1, <2>2, ListsOneMore DEF CatalogInv, TypeOK
  <2>4. Caught'
    <3>1. seenNames' = Listed'
      BY <2>2, <2>3 DEF CatalogInv, Caught
    <3>2. \A i \in 1 .. walked' : Visible(local[i]) => local[i].name \in seenNames'
      BY <1>8, <2>2 DEF CatalogInv, Caught, s
    <3>3. Repos \ unvisited' = {}
      BY <1>1, <1>3
    <3>4. QED
      BY <1>1, <1>5, <3>1, <3>2, <3>3 DEF Caught
  <2>5. \A i \in DOMAIN skills : skills[i].source # "external"
    BY <1>1 DEF CatalogInv, LocalsFirst
  <2>6. \A i \in DOMAIN skills' : skills'[i].source # "external"
    <3> SUFFICES ASSUME NEW i \in DOMAIN skills' PROVE skills'[i].source # "external"
      OBVIOUS
    <3>1. Len(skills) \in Nat
      BY DEF CatalogInv, TypeOK
    <3>2. i \in DOMAIN skills \/ i = Len(skills) + 1
      BY <2>3, <3>1
    <3>3. QED
      BY <2>1, <2>3, <2>5, <3>2
  <2>7. Unique' /\ LocalsFirst'
    BY <2>6 DEF Unique, LocalsFirst
  <2>8. Listed' \subseteq VisibleNames'
    BY <1>6, <1>7, <1>9, <2>3 DEF CatalogInv
  <2>9. QED
    BY <1>4, <2>4, <2>7, <2>8 DEF CatalogInv
<1>10. CASE ~Visible(s)
  <2>1. skills' = skills /\ seenNames' = seenNames
    BY <1>10 DEF WalkLocal
  <2>2. Listed' = Listed
    BY <2>1 DEF Listed
  <2>3. Caught'
    <3>1. \A i \in 1 .. walked' : Visible(local[i]) => local[i].name \in seenNames
      BY <1>8, <1>10 DEF CatalogInv, Caught
    <3>2. Repos \ unvisited' = {}
      BY <1>1, <1>3
    <3>3. QED
      BY <1>1, <1>5, <2>1, <2>2, <3>1, <3>2 DEF Caught, CatalogInv
  <2>4. Unique' /\ LocalsFirst'
    BY <1>1, <2>1 DEF Unique, LocalsFirst, CatalogInv
  <2>5. QED
    BY <1>4, <1>6, <2>2, <2>3, <2>4 DEF CatalogInv
<1>11. QED
  BY <1>9, <1>10

(* Entering and leaving a repository.                                      *)
LEMMA RepoStep ==
  ASSUME CatalogInv, TypeOK', (\E r \in Repos : EnterRepo(r)) \/ LeaveRepo
  PROVE  CatalogInv'
<1>1. UNCHANGED <<input, skills, seenNames>> /\ walked' = walked
  BY DEF EnterRepo, LeaveRepo
<1>2. /\ seenNames' = Listed' /\ Listed' \subseteq VisibleNames' /\ Unique' /\ LocalsFirst'
      /\ \A i \in 1 .. walked' : Visible(local[i]) => local[i].name \in seenNames'
  BY <1>1, ListKept
<1>3. local' = local /\ external' = external /\ seenNames' = seenNames
  BY <1>1 DEF input
<1>4. \A x : Visible(x)' <=> Visible(x)
  BY <1>1, SameVisible
<1>5. \A r \in Repos : external[r] \in Seq(Skills) /\ Len(external[r]) \in Nat
  BY FoundSeqs DEF CatalogInv, TypeOK
<1>6. CASE LeaveRepo
  <2>1. repo \in Repos /\ at = Len(external[repo]) /\ repo' = None /\ unvisited' = unvisited
    BY <1>6 DEF LeaveRepo, CatalogInv, TypeOK
  <2>2. \A r \in Repos : WalkedOf(r)' = WalkedOf(r)
    BY <1>3, <2>1, NoneAssumption DEF WalkedOf
  <2>3. Caught'
    <3>1. ASSUME NEW r \in Repos \ unvisited', NEW j \in WalkedOf(r)', Visible(external[r][j])
          PROVE  external[r][j].name \in seenNames'
      BY <1>3, <2>1, <2>2, <3>1 DEF Caught, CatalogInv
    <3>2. QED
      BY <1>2, <1>3, <1>4, <3>1 DEF Caught
  <2>4. InOrder'
    BY <1>1, <1>3, <2>1, NoneAssumption DEF InOrder, CatalogInv, TypeOK
  <2>5. QED
    BY <1>2, <2>3, <2>4 DEF CatalogInv
<1>7. ASSUME NEW r \in Repos, EnterRepo(r) PROVE CatalogInv'
  <2>1. /\ walked = Len(local) /\ repo = None /\ r \in unvisited /\ repo' = r /\ at' = 0
        /\ unvisited' = unvisited \ {r}
    BY <1>7 DEF EnterRepo
  <2>2. \A q \in Repos \ unvisited' : q = r \/ (q \in Repos \ unvisited /\ q # r /\ q # repo)
    BY <2>1, NoneAssumption
  <2>3. WalkedOf(r)' = {}
    BY <2>1 DEF WalkedOf
  <2>4. \A q \in Repos : q # r /\ q # repo => WalkedOf(q)' = WalkedOf(q)
    BY <1>3, <2>1 DEF WalkedOf
  <2>5. Caught'
    <3>1. ASSUME NEW q \in Repos \ unvisited', NEW j \in WalkedOf(q)', Visible(external[q][j])
          PROVE  external[q][j].name \in seenNames'
      BY <1>3, <2>2, <2>3, <2>4, <3>1 DEF Caught, CatalogInv
    <3>2. QED
      BY <1>2, <1>3, <1>4, <3>1 DEF Caught
  <2>6. InOrder'
    BY <1>1, <1>3, <1>5, <2>1 DEF InOrder, CatalogInv
  <2>7. QED
    BY <1>2, <2>5, <2>6 DEF CatalogInv
<1>8. QED
  BY <1>6, <1>7

(* An external skill that is visible is listed unless its name is taken.   *)
LEMMA WalkExternalStep ==
  ASSUME CatalogInv, TypeOK', WalkExternal
  PROVE  CatalogInv'
<1> DEFINE s == external[repo][at + 1]
<1>1. /\ repo \in Repos /\ repo # None /\ at \in Nat /\ at < Len(external[repo]) /\ at' = at + 1
      /\ repo' = repo /\ unvisited' = unvisited /\ walked' = walked /\ UNCHANGED input
      /\ local' = local /\ external' = external /\ walked = Len(local)
      /\ repo \notin unvisited
  BY DEF WalkExternal, input, CatalogInv, TypeOK, InOrder
<1>2. external[repo] \in Seq(Skills) /\ s \in Skills /\ s \in ToSet(external[repo])
  BY <1>1, FoundSeqs DEF CatalogInv, TypeOK, ToSet
<1>3. InOrder'
  BY <1>1, <1>2 DEF InOrder, CatalogInv
<1>4. \A x : Visible(x)' <=> Visible(x)
  BY <1>1, SameVisible
<1>5. VisibleNames' = VisibleNames
  BY <1>1, SameVisible
<1>6. Visible(s) => s.name \in VisibleNames
  BY <1>1, <1>2 DEF VisibleNames
<1>7. \A r \in Repos : \A i \in WalkedOf(r)' : i \in WalkedOf(r) \/ (r = repo /\ i = at + 1)
  BY <1>1 DEF WalkedOf
<1>8. seenNames \subseteq seenNames'
  BY DEF WalkExternal
<1>9. ASSUME Visible(s) => s.name \in seenNames', seenNames' = Listed' PROVE Caught'
  <2>1. \A i \in 1 .. walked' : Visible(local[i]) => local[i].name \in seenNames'
    BY <1>1, <1>8 DEF CatalogInv, Caught
  <2>2. ASSUME NEW r \in Repos \ unvisited, NEW j \in WalkedOf(r)', Visible(external[r][j])
        PROVE  external[r][j].name \in seenNames'
    <3>1. CASE r = repo /\ j = at + 1
      BY <1>9, <2>2, <3>1
    <3>2. CASE j \in WalkedOf(r)
      BY <1>8, <2>2, <3>2 DEF CatalogInv, Caught
    <3>3. QED
      BY <1>7, <3>1, <3>2
  <2>3. QED
    BY <1>1, <1>4, <1>9, <2>1, <2>2 DEF Caught
<1>10. LocalsFirst'
  BY <1>1, <1>2, FoundSeqs DEF LocalsFirst, CatalogInv, TypeOK
<1>11. CASE s.name \notin seenNames /\ Visible(s)
  <2> DEFINE sum == Summarised(s, "external")
  <2>1. sum \in Summary /\ sum.name = s.name
    BY <1>2, SummaryType DEF CatalogInv, Summarised
  <2>2. skills' = Append(skills, sum) /\ seenNames' = seenNames \cup {s.name}
    BY <1>11 DEF WalkExternal, Taken
  <2> HIDE DEF s, sum
  <2>3. /\ Listed' = Listed \cup {s.name}
        /\ DOMAIN skills' = 1 .. Len(skills) + 1 /\ DOMAIN skills = 1 .. Len(skills)
        /\ skills'[Len(skills) + 1] = sum
        /\ \A i \in DOMAIN skills : skills'[i] = skills[i] /\ i \in DOMAIN skills'
    BY <2>1, <2>2, ListsOneMore DEF CatalogInv, TypeOK
  <2>4. Caught'
    BY <1>9, <2>2, <2>3 DEF CatalogInv, Caught
  <2>5. \A i \in DOMAIN skills : skills[i].name # s.name
    BY <1>11 DEF CatalogInv, Caught, Listed
  <2>6. \A i \in DOMAIN skills' : i \in DOMAIN skills \/ i = Len(skills) + 1
    <3>1. Len(skills) \in Nat
      BY DEF CatalogInv, TypeOK
    <3>2. QED
      BY <2>3, <3>1
  <2>7. Unique'
    BY <2>1, <2>3, <2>5, <2>6 DEF Unique, CatalogInv
  <2>8. Listed' \subseteq VisibleNames'
    BY <1>5, <1>6, <1>11, <2>3 DEF CatalogInv
  <2>9. QED
    BY <1>3, <1>10, <2>4, <2>7, <2>8 DEF CatalogInv
<1>12. CASE s.name \in seenNames \/ ~Visible(s)
  <2>1. skills' = skills /\ seenNames' = seenNames
    BY <1>12 DEF WalkExternal, Taken
  <2>2. Listed' = Listed
    BY <2>1 DEF Listed
  <2>3. Caught'
    BY <1>9, <1>12, <2>1, <2>2 DEF CatalogInv, Caught
  <2>4. Unique'
    BY <2>1 DEF Unique, CatalogInv
  <2>5. QED
    BY <1>3, <1>5, <1>10, <2>2, <2>3, <2>4 DEF CatalogInv
<1>13. QED
  BY <1>11, <1>12

(* Every step of the walks preserves it.                                   *)
LEMMA CatalogStep == CatalogInv /\ [Next]_vars => CatalogInv'
<1> SUFFICES ASSUME CatalogInv, [Next]_vars PROVE CatalogInv'
  OBVIOUS
<1>1. TypeOK'
  BY TypeStep DEF CatalogInv
<1>2. CASE UNCHANGED vars
  <2>1. UNCHANGED <<input, skills, seenNames, walked, repo, at, unvisited>>
    BY <1>2 DEF vars
  <2>2. /\ seenNames' = Listed' /\ Listed' \subseteq VisibleNames' /\ Unique' /\ LocalsFirst'
        /\ \A i \in 1 .. walked' : Visible(local[i]) => local[i].name \in seenNames'
    BY <1>1, <2>1, ListKept
  <2>3. \A x : Visible(x)' <=> Visible(x)
    BY <2>1, SameVisible
  <2>4. InOrder' /\ \A r \in Repos : WalkedOf(r)' = WalkedOf(r)
    BY <2>1 DEF InOrder, WalkedOf, CatalogInv, input
  <2>5. Caught'
    BY <2>1, <2>2, <2>3, <2>4 DEF Caught, CatalogInv, input
  <2>6. QED
    BY <1>1, <2>2, <2>4, <2>5 DEF CatalogInv
<1>3. QED
  BY <1>1, <1>2, WalkLocalStep, RepoStep, WalkExternalStep DEF Next

(* EveryVisibleNameListed: for any skills under any names, in whatever     *)
(* order the manifest is walked, the finished catalog names exactly the    *)
(* skills that the role sees, and nothing else has the name of an external *)
(* skill.                                                                  *)
THEOREM VisibleNamesListed == Spec => []EveryVisibleNameListed
<1>1. ASSUME CatalogInv PROVE EveryVisibleNameListed
  <2>1. ASSUME Done PROVE VisibleNames \subseteq Listed
    <3> SUFFICES ASSUME NEW s \in ToSet(local) \cup UNION {ToSet(external[r]) : r \in Repos},
                        Visible(s)
                 PROVE  s.name \in Listed
      BY DEF VisibleNames
    <3>1. CASE s \in ToSet(local)
      <4>1. PICK i \in DOMAIN local : s = local[i]
        BY <3>1 DEF ToSet
      <4>2. i \in 1 .. walked
        BY <1>1, <2>1, FoundSeqs DEF CatalogInv, TypeOK, Done
      <4>3. QED
        BY <1>1, <4>1, <4>2 DEF CatalogInv, Caught
    <3>2. CASE \E r \in Repos : s \in ToSet(external[r])
      <4>1. PICK r \in Repos : \E i \in DOMAIN external[r] : s = external[r][i]
        BY <3>2 DEF ToSet
      <4>2. PICK i \in DOMAIN external[r] : s = external[r][i]
        BY <4>1
      <4>3. i \in WalkedOf(r) /\ r \notin unvisited
        BY <1>1, <2>1, FoundSeqs, NoneAssumption DEF CatalogInv, TypeOK, Done, WalkedOf
      <4>4. QED
        BY <1>1, <4>2, <4>3 DEF CatalogInv, Caught
    <3>3. QED
      BY <3>1, <3>2
  <2>2. QED
    BY <1>1, <2>1 DEF CatalogInv, Unique, EveryVisibleNameListed, VisibleNames
<1>2. QED
  BY <1>1, CatalogInit, CatalogStep, PTL DEF Spec
=============================================================================
