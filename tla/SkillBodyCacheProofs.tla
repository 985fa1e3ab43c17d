------------------------ MODULE SkillBodyCacheProofs ------------------------
(***************************************************************************)
(* For any files, limits and versions: a cached body that Get would return *)
(* is the one its file holds, provided callers Put only bodies that are    *)
(* still those of the file. Whatever they Put, the list and the map agree, *)
(* the byte counter is the sum of the sizes and both limits hold. The      *)
(* bytes are counted as the elements of a finite set, so that a put, a     *)
(* replacement and an eviction add and remove cardinalities.               *)
(***************************************************************************)
EXTENDS SkillBodyCache, SequenceTheorems, FiniteSetTheorems, TLAPS

(* What the invariant says of the entry of a path.                         *)
Sound(p, e) == /\ e \in Entry
               /\ e.time <= version[p]
               /\ ~StalePuts /\ present[p] /\ e.time = version[p]
                    => e.body = version[p]

(* The map, entry by entry.                                                *)
AllSound == /\ DOMAIN entry \subseteq Paths
            /\ entry = [p \in DOMAIN entry |-> entry[p]]
            /\ \A p \in DOMAIN entry : Sound(p, entry[p])

(* The rest of the invariant: the files, the Get under way and the bodies  *)
(* that callers hold.                                                      *)
RestOK == /\ version \in [Paths -> 0 .. MaxVersion]
          /\ present \in [Paths -> BOOLEAN]
          /\ reading \in Get \cup {None}
          /\ held \in [Paths -> Versions \cup {None}]
          /\ reading # None => reading.time <= version[reading.path]
          /\ Exists

(* The invariant is the conjunction of the two.                            *)
LEMMA Split == IInv <=> AllSound /\ RestOK
  BY DEF IInv, EntriesOK, Dated, Coherent, Fresh, Cached, AllSound, Sound, RestOK

(* The invariant is put together again.                                    *)
LEMMA Join == AllSound' /\ RestOK' => IInv'
  BY DEF IInv, EntriesOK, Dated, Coherent, Fresh, Cached, AllSound, Sound, RestOK

(* The entries after a step that stores one entry and evicts others.       *)
LEMMA StoreSound ==
  ASSUME NEW p \in Paths, NEW e, Sound(p, e), AllSound, Store(p, e), UNCHANGED files
  PROVE  AllSound'
  <1>1. /\ entry' = [q \in DOMAIN entry' |-> entry'[q]]
        /\ DOMAIN entry' \subseteq DOMAIN entry \cup {p}
        /\ \A q \in DOMAIN entry' : entry'[q] = IF q = p THEN e ELSE entry[q]
    BY DEF Store, EnforceLimits, With, Restrict
  <1>2. \A q \in DOMAIN entry' : Sound(q, entry'[q])
    BY <1>1 DEF AllSound
  <1> QED
    BY <1>1, <1>2 DEF AllSound, Sound, files

(* The entries after a step that removes some and leaves the files alone.  *)
LEMMA FewerSound ==
  ASSUME AllSound, NEW S, entry' = Restrict(entry, DOMAIN entry \ S), UNCHANGED files
  PROVE  AllSound'
  BY DEF AllSound, Sound, Restrict, files

(* A miss or an error removes at most the entry of its path.               *)
LEMMA FailSound ==
  ASSUME NEW p \in Paths, AllSound, Fail(p), UNCHANGED files
  PROVE  AllSound'
  <1>1. CASE Cached(p)
    BY <1>1, FewerSound DEF Fail, RemoveElement
  <1>2. CASE ~Cached(p)
    BY <1>2 DEF Fail, cache, AllSound, Sound, files
  <1> QED
    BY <1>1, <1>2

(* An empty cache is sound.                                                *)
LEMMA InitSound == Init => IInv
  <1> SUFFICES ASSUME Init PROVE AllSound /\ RestOK
    BY Split
  <1>1. AllSound
    BY DEF Init, AllSound
  <1>2. version \in [Paths -> 0 .. MaxVersion] /\ Exists
    BY VersionAssumption DEF Init, Exists
  <1>3. reading \in Get \cup {None} /\ held \in [Paths -> Versions \cup {None}]
    BY DEF Init
  <1> QED
    BY <1>1, <1>2, <1>3 DEF Init, RestOK

(* Get's look at the file, and its removal of a stale entry.               *)
LEMMA GetStatSound ==
  ASSUME IInv, NEW p \in Paths, GetStat(p)
  PROVE  IInv'
  <1>1. AllSound /\ RestOK /\ UNCHANGED files
    BY Split DEF GetStat
  <1>2. CASE ~present[p] /\ Fail(p) /\ UNCHANGED <<reading, held>>
    <2>1. AllSound'
      BY <1>1, <1>2, FailSound
    <2>2. RestOK'
      BY <1>1, <1>2 DEF RestOK, Exists, files
    <2> QED
      BY <2>1, <2>2, Join
  <1>3. CASE /\ present[p] /\ Fresh(p)
             /\ held' = [held EXCEPT ![p] = entry[p].body]
             /\ UNCHANGED <<entry, bytes, reading>>
    <2>1. entry[p].body \in Versions
      BY <1>1, <1>3 DEF Fresh, Cached, AllSound, Sound, Entry
    <2>2. RestOK'
      BY <1>1, <1>3, <2>1 DEF RestOK, Exists, files
    <2>3. AllSound'
      BY <1>1, <1>3 DEF AllSound, Sound, files
    <2> QED
      BY <2>2, <2>3, Join
  <1>4. CASE /\ present[p] /\ ~Fresh(p)
             /\ reading' = [path |-> p, time |-> version[p]]
             /\ UNCHANGED <<cache, held>>
    <2>1. version[p] \in Versions
      BY <1>1, <1>4, VersionAssumption DEF RestOK, Exists, Versions
    <2>2. RestOK'
      BY <1>1, <1>4, <2>1 DEF RestOK, Exists, files, Get, Versions
    <2>3. AllSound'
      BY <1>1, <1>4 DEF AllSound, Sound, files, cache
    <2> QED
      BY <2>2, <2>3, Join
  <1> QED
    BY <1>2, <1>3, <1>4 DEF GetStat

(* Get's read of the file and its return.                                  *)
LEMMA GetReadSound ==
  ASSUME IInv, GetRead
  PROVE  IInv'
  <1> DEFINE p == reading.path
             e == EntryOf(reading, version[p])
  <1>1. AllSound /\ RestOK /\ UNCHANGED files /\ reading' = None
    BY Split DEF GetRead
  <1>2. p \in Paths /\ reading.time \in Versions /\ reading.time <= version[p]
    BY <1>1 DEF GetRead, RestOK, Get
  <1>3. CASE present[p] /\ Store(p, e) /\ held' = [held EXCEPT ![p] = version[p]]
    <2>1. version[p] \in Versions
      BY <1>1, <1>2, <1>3, VersionAssumption DEF RestOK, Exists, Versions
    <2>2. Sound(p, e)
      BY <1>2, <2>1, VersionAssumption DEF Sound, EntryOf, Entry, Versions
    <2>3. AllSound'
      BY <1>1, <1>2, <1>3, <2>2, StoreSound
    <2>4. RestOK'
      BY <1>1, <1>2, <1>3, <2>1 DEF RestOK, Exists, files
    <2> QED
      BY <2>3, <2>4, Join
  <1>4. CASE Fail(p) /\ UNCHANGED held
    <2>1. AllSound'
      BY <1>1, <1>2, <1>4, FailSound
    <2>2. RestOK'
      BY <1>1, <1>4 DEF RestOK, Exists, files
    <2> QED
      BY <2>1, <2>2, Join
  <1> QED
    BY <1>3, <1>4 DEF GetRead

(* The one step that needs callers to put only what the file holds.        *)
LEMMA PutSound ==
  ASSUME IInv, NEW p \in Paths, Put(p)
  PROVE  IInv'
  <1> DEFINE e == [body |-> held[p], size |-> Size[held[p]],
                   time |-> IF present[p] THEN version[p] ELSE 0]
  <1>1. AllSound /\ RestOK /\ UNCHANGED <<files, reading, held>> /\ Store(p, e)
    BY Split DEF Put
  <1>2. held[p] \in Versions /\ (StalePuts \/ held[p] = version[p])
    BY <1>1 DEF Put, RestOK
  <1>3. Sound(p, e)
    BY <1>1, <1>2, VersionAssumption DEF Sound, Entry, Versions, RestOK, Exists
  <1>4. AllSound'
    BY <1>1, <1>3, StoreSound
  <1>5. RestOK'
    BY <1>1 DEF RestOK, Exists, files
  <1> QED
    BY <1>4, <1>5, Join

(* What others do to the files: a write makes every entry of its path old. *)
LEMMA FilesSound ==
  ASSUME IInv, NEW p \in Paths, Written(p) \/ Removed(p)
  PROVE  IInv'
  <1>1. AllSound /\ RestOK /\ UNCHANGED <<cache, reading, held>>
    BY Split DEF Written, Removed
  <1>2. /\ version' \in [Paths -> 0 .. MaxVersion]
        /\ present' \in [Paths -> BOOLEAN]
        /\ \A q \in Paths : version[q] <= version'[q]
        /\ \A q \in Paths : present'[q] =>
              \/ present[q] /\ version'[q] = version[q]
              \/ version[q] < version'[q]
    <2>1. CASE Written(p)
      <3>1. version[p] + 1 \in 0 .. MaxVersion
        BY <1>1, <2>1, VersionAssumption DEF Written, RestOK
      <3>2. /\ version' = [version EXCEPT ![p] = version[p] + 1]
            /\ present' = [present EXCEPT ![p] = TRUE]
        BY <2>1 DEF Written
      <3>3. version' \in [Paths -> 0 .. MaxVersion] /\ present' \in [Paths -> BOOLEAN]
        BY <1>1, <3>1, <3>2 DEF RestOK
      <3>4. ASSUME NEW q \in Paths
            PROVE  version'[q] = IF q = p THEN version[q] + 1 ELSE version[q]
        BY <1>1, <3>2 DEF RestOK
      <3>5. \A q \in Paths : q # p => present'[q] = present[q]
        BY <1>1, <3>2 DEF RestOK
      <3>6. \A q \in Paths : version[q] \in Nat
        BY <1>1, VersionAssumption DEF RestOK
      <3> QED
        BY <3>3, <3>4, <3>5, <3>6
    <2>2. CASE Removed(p)
      BY <1>1, <2>2, VersionAssumption DEF Removed, RestOK
    <2> QED
      BY <2>1, <2>2
  <1>3. RestOK'
    BY <1>1, <1>2 DEF RestOK, Exists, Get, Versions
  <1>4. AllSound'
    BY <1>1, <1>2 DEF AllSound, Sound, RestOK, cache, Entry
  <1> QED
    BY <1>3, <1>4, Join

(* Every step preserves the invariant of the bodies.                       *)
LEMMA NextSound ==
  ASSUME IInv, [Next]_vars
  PROVE  IInv'
  <1>1. ASSUME NEW p \in Paths, Invalidate(p)
        PROVE  IInv'
    <2>1. AllSound'
      BY <1>1, Split, FewerSound DEF Invalidate, RemoveElement
    <2>2. RestOK'
      BY <1>1, Split DEF Invalidate, RestOK, Exists, files
    <2> QED
      BY <2>1, <2>2, Join
  <1>2. ASSUME InvalidateAll
        PROVE  IInv'
    <2>1. AllSound'
      BY <1>2 DEF InvalidateAll, AllSound
    <2>2. RestOK'
      BY <1>2, Split DEF InvalidateAll, RestOK, Exists, files
    <2> QED
      BY <2>1, <2>2, Join
  <1>3. CASE UNCHANGED vars
    <2>1. AllSound'
      BY <1>3, Split DEF vars, files, cache, AllSound, Sound
    <2>2. RestOK'
      BY <1>3, Split DEF vars, files, RestOK, Exists
    <2> QED
      BY <2>1, <2>2, Join
  <1> QED
    BY <1>1, <1>2, <1>3, GetStatSound, GetReadSound, PutSound, FilesSound DEF Next

(* An entry that Get would return holds what the file holds, in every      *)
(* reachable state, although Get reads time and body in two steps          *)
(* (skill_cache.go:14-16, 53-101).                                         *)
THEOREM CacheCoherent ==
  ASSUME ~StalePuts
  PROVE  Spec => []Coherent
  <1>1. IInv /\ [Next]_vars => IInv'
    BY NextSound
  <1>2. IInv => Coherent
    BY DEF IInv
  <1> QED
    BY InitSound, <1>1, <1>2, PTL DEF Spec

(* A Get that returns without reading returns what the file holds.         *)
THEOREM GetCurrent ==
  ASSUME ~StalePuts
  PROVE  Spec => GetIsCurrent
  <1>1. IInv /\ [Next]_vars => IInv'
    BY NextSound
  <1>2. IInv => Serves
    <2> SUFFICES ASSUME IInv, NEW p \in Paths, GetStat(p), present[p], reading' = None
                 PROVE  held'[p] = version[p]
      BY DEF Serves
    <2>1. Fresh(p) /\ held' = [held EXCEPT ![p] = entry[p].body]
      <3>1. version[p] \in Versions
        BY VersionAssumption DEF IInv, EntriesOK, Exists, Versions
      <3>2. [path |-> p, time |-> version[p]] \in Get
        BY <3>1 DEF Get
      <3> QED
        BY <3>2, NoneAssumption DEF GetStat
    <2>2. Cached(p) /\ held \in [Paths -> Versions \cup {None}] /\ Coherent
      BY <2>1 DEF IInv, EntriesOK, Fresh
    <2> QED
      BY <2>1, <2>2 DEF Coherent, Cached
  <1> QED
    BY InitSound, <1>1, <1>2, PTL DEF Spec, GetIsCurrent

-----------------------------------------------------------------------------
(* The list.                                                               *)

(* A list of paths, each once.                                             *)
Once(list) == list \in Seq(Paths) /\ IsInjective(list)

(* Taking an element out of the list removes its path and no other.        *)
LEMMA TakeOut ==
  ASSUME NEW p \in Range(order), Once(order)
  PROVE  /\ Once(RemoveAt(order, Element(p)))
         /\ Range(RemoveAt(order, Element(p))) = Range(order) \ {p}
         /\ Len(RemoveAt(order, Element(p))) = Len(order) - 1
         /\ \A j \in 1 .. Len(order) : order[j] # p =>
              /\ j # Element(p)
              /\ order[j] = RemoveAt(order, Element(p))[IF j < Element(p) THEN j ELSE j - 1]
  <1> DEFINE i == Element(p)
             front == SubSeq(order, 1, i - 1)
             back == SubSeq(order, i + 1, Len(order))
             rest == RemoveAt(order, i)
  <1>1. DOMAIN order = 1 .. Len(order) /\ Len(order) \in Nat
    BY DEF Once
  <1>2. i \in 1 .. Len(order) /\ order[i] = p
    BY <1>1 DEF Range, Element
  <1>3. \A j \in 1 .. Len(order) : order[j] \in Paths
    BY DEF Once
  <1>4. /\ front \in Seq(Paths) /\ Len(front) = i - 1
        /\ \A j \in 1 .. i - 1 : front[j] = order[j]
    <2>1. i - 1 \in Int /\ \A j \in 1 .. i - 1 : order[j] \in Paths
      BY <1>1, <1>2, <1>3
    <2> HIDE DEF i
    <2>2. /\ front \in Seq(Paths)
          /\ Len(front) = IF 1 <= i - 1 THEN (i - 1) - 1 + 1 ELSE 0
          /\ \A j \in 1 .. (i - 1) - 1 + 1 : front[j] = order[1 + j - 1]
      BY <2>1, SubSeqProperties, SMT
    <2> HIDE DEF front
    <2>3. Len(front) = i - 1
      <3>1. i \in Int /\ 1 <= i
        BY <1>1, <1>2
      <3>2. Len(front) = IF 1 <= i - 1 THEN (i - 1) - 1 + 1 ELSE 0
        BY <2>2
      <3> QED
        BY <3>1, <3>2
    <2>4. ASSUME NEW j \in 1 .. i - 1
          PROVE  front[j] = order[j]
      <3>1. j \in 1 .. (i - 1) - 1 + 1 /\ 1 + j - 1 = j
        BY <1>1, <1>2
      <3> QED
        BY <2>2, <3>1
    <2> QED
      BY <2>2, <2>3, <2>4
  <1>5. /\ back \in Seq(Paths) /\ Len(back) = Len(order) - i
        /\ \A j \in 1 .. Len(order) - i : back[j] = order[i + j]
    <2>1. i + 1 \in Int /\ Len(order) \in Int /\ \A j \in i + 1 .. Len(order) : order[j] \in Paths
      BY <1>1, <1>2, <1>3
    <2> HIDE DEF i
    <2>2. /\ back \in Seq(Paths)
          /\ Len(back) = IF i + 1 <= Len(order) THEN Len(order) - (i + 1) + 1 ELSE 0
          /\ \A j \in 1 .. Len(order) - (i + 1) + 1 : back[j] = order[(i + 1) + j - 1]
      BY <2>1, SubSeqProperties, SMT
    <2> HIDE DEF back
    <2>3. Len(back) = Len(order) - i
      <3>1. i \in Int /\ Len(order) \in Int /\ i <= Len(order)
        BY <1>1, <1>2
      <3>2. Len(back) = IF i + 1 <= Len(order) THEN Len(order) - (i + 1) + 1 ELSE 0
        BY <2>2
      <3> QED
        BY <3>1, <3>2
    <2>4. ASSUME NEW j \in 1 .. Len(order) - i
          PROVE  back[j] = order[i + j]
      <3>1. j \in 1 .. Len(order) - (i + 1) + 1 /\ (i + 1) + j - 1 = i + j
        BY <1>1, <1>2
      <3> QED
        BY <2>2, <3>1
    <2> QED
      BY <2>2, <2>3, <2>4
  <1>6. rest = front \o back
    BY DEF RemoveAt
  <1> HIDE DEF i, front, back, rest
  <1>7. /\ rest \in Seq(Paths) /\ Len(rest) = Len(order) - 1
        /\ \A j \in 1 .. Len(order) - 1 : rest[j] = order[IF j < i THEN j ELSE j + 1]
    <2>1. /\ rest \in Seq(Paths)
          /\ Len(rest) = Len(front) + Len(back)
          /\ \A j \in 1 .. Len(front) + Len(back) :
                rest[j] = IF j <= Len(front) THEN front[j] ELSE back[j - Len(front)]
      BY <1>4, <1>5, <1>6, ConcatProperties
    <2>2. Len(rest) = Len(order) - 1
      BY <2>1, <1>1, <1>2, <1>4, <1>5
    <2>3. ASSUME NEW j \in 1 .. Len(order) - 1
          PROVE  rest[j] = order[IF j < i THEN j ELSE j + 1]
      <3>1. CASE j < i
        BY <3>1, <2>1, <1>1, <1>2, <1>4, <1>5, SMTT(30)
      <3>2. CASE ~(j < i)
        <4>1. j - (i - 1) \in 1 .. Len(order) - i /\ i + (j - (i - 1)) = j + 1
          BY <3>2, <1>1, <1>2
        <4>2. rest[j] = back[j - (i - 1)]
          BY <3>2, <2>1, <1>1, <1>2, <1>4, <1>5, SMTT(30)
        <4> QED
          BY <3>2, <4>1, <4>2, <1>5
      <3> QED
        BY <3>1, <3>2
    <2> QED
      BY <2>1, <2>2, <2>3
  <1>8. DOMAIN rest = 1 .. Len(order) - 1
    BY <1>7, <1>1
  <1>9. \A j, k \in 1 .. Len(order) : order[j] = order[k] => j = k
    BY <1>1 DEF Once, IsInjective
  <1>10. IsInjective(rest)
    <2> SUFFICES ASSUME NEW j \in 1 .. Len(order) - 1, NEW k \in 1 .. Len(order) - 1, rest[j] = rest[k]
                 PROVE  j = k
      BY <1>8 DEF IsInjective
    <2> QED
      BY <1>1, <1>2, <1>7, <1>9
  <1>11. Range(rest) \subseteq Range(order) \ {p}
    <2> SUFFICES ASSUME NEW j \in 1 .. Len(order) - 1
                 PROVE  rest[j] \in Range(order) \ {p}
      BY <1>8 DEF Range
    <2>1. PICK k \in 1 .. Len(order) : rest[j] = order[k] /\ k # i
      BY <1>1, <1>2, <1>7, SMTT(30)
    <2> QED
      BY <2>1, <1>1, <1>2, <1>9 DEF Range
  <1>12. Range(order) \ {p} \subseteq Range(rest)
    <2> SUFFICES ASSUME NEW k \in 1 .. Len(order), order[k] # p
                 PROVE  order[k] \in Range(rest)
      BY <1>1 DEF Range
    <2>1. CASE k < i
      <3>1. k \in 1 .. Len(order) - 1 /\ rest[k] = order[k]
        BY <2>1, <1>1, <1>2, <1>7
      <3> QED
        BY <3>1, <1>8 DEF Range
    <2>2. CASE k > i
      <3>1. k - 1 \in 1 .. Len(order) - 1 /\ rest[k - 1] = order[k]
        BY <2>2, <1>1, <1>2, <1>7
      <3> QED
        BY <3>1, <1>8 DEF Range
    <2> QED
      BY <2>1, <2>2, <1>1, <1>2
  <1>13. ASSUME NEW j \in 1 .. Len(order), order[j] # p
         PROVE  j # i /\ order[j] = rest[IF j < i THEN j ELSE j - 1]
    <2>1. j # i
      BY <1>2, <1>13
    <2>2. CASE j < i
      <3>1. j \in 1 .. Len(order) - 1
        BY <2>2, <1>1, <1>2
      <3> QED
        BY <2>1, <2>2, <3>1, <1>7
    <2>3. CASE j > i
      <3>1. j - 1 \in 1 .. Len(order) - 1 /\ ~(j - 1 < i) /\ (j - 1) + 1 = j /\ ~(j < i)
        BY <2>3, <1>1, <1>2
      <3> QED
        BY <2>1, <3>1, <1>7
    <2> QED
      BY <2>1, <2>2, <2>3, <1>1, <1>2
  <1> QED
    BY <1>7, <1>10, <1>11, <1>12, <1>13 DEF Once, i, rest

(* Putting a path that is not in a list at its end.                        *)
LEMMA PutLast ==
  ASSUME NEW list, Once(list), NEW p \in Paths, p \notin Range(list)
  PROVE  /\ Once(Append(list, p))
         /\ Range(Append(list, p)) = Range(list) \cup {p}
  <1> DEFINE more == Append(list, p)
  <1>1. /\ more \in Seq(Paths) /\ Len(list) \in Nat /\ Len(more) = Len(list) + 1
        /\ \A j \in 1 .. Len(list) : more[j] = list[j]
        /\ more[Len(list) + 1] = p
    BY AppendProperties DEF Once
  <1>2. DOMAIN list = 1 .. Len(list) /\ DOMAIN more = 1 .. Len(list) + 1
    BY <1>1 DEF Once
  <1> HIDE DEF more
  <1>3. Range(more) = Range(list) \cup {p}
    BY <1>1, <1>2 DEF Range
  <1>4. IsInjective(more)
    <2>1. \A j, k \in 1 .. Len(list) : list[j] = list[k] => j = k
      BY <1>2 DEF Once, IsInjective
    <2>2. \A j \in 1 .. Len(list) : list[j] # p
      BY <1>2 DEF Range
    <2> SUFFICES ASSUME NEW j \in 1 .. Len(list) + 1, NEW k \in 1 .. Len(list) + 1, more[j] = more[k]
                 PROVE  j = k
      BY <1>2 DEF IsInjective
    <2> QED
      BY <1>1, <2>1, <2>2
  <1> QED
    BY <1>1, <1>3, <1>4 DEF Once, more

(* A path that is used comes to the end, and the others stay.              *)
LEMMA TouchedOnce ==
  ASSUME NEW p \in Paths, Listed
  PROVE  Once(Touched(p)) /\ Range(Touched(p)) = DOMAIN entry \cup {p}
  <1>1. Once(order) /\ Range(order) = DOMAIN entry
    BY DEF Listed, ListMatchesMap, Once
  <1>2. CASE Cached(p)
    <2> DEFINE rest == RemoveAt(order, Element(p))
    <2>1. Once(rest) /\ Range(rest) = DOMAIN entry \ {p}
      BY <1>1, <1>2, TakeOut DEF Cached
    <2> HIDE DEF rest
    <2>2. Once(Append(rest, p)) /\ Range(Append(rest, p)) = (DOMAIN entry \ {p}) \cup {p}
      BY <2>1, PutLast
    <2>3. Touched(p) = Append(rest, p)
      BY <1>2 DEF Touched, rest
    <2> QED
      BY <2>2, <2>3
  <1>3. CASE ~Cached(p)
    <2>1. Touched(p) = Append(order, p)
      BY <1>3 DEF Touched
    <2> QED
      BY <1>1, <1>3, <2>1, PutLast DEF Cached
  <1> QED
    BY <1>2, <1>3

(* A list without its first n elements.                                    *)
LEMMA KeptOnce ==
  ASSUME NEW list, Once(list), NEW n \in 0 .. Len(list)
  PROVE  /\ Once(Kept(list, n))
         /\ Range(Kept(list, n)) = Range(list) \ Evicted(list, n)
         /\ Len(Kept(list, n)) = Len(list) - n
  <1> DEFINE rest == Kept(list, n)
  <1>1. DOMAIN list = 1 .. Len(list) /\ Len(list) \in Nat /\ \A j \in 1 .. Len(list) : list[j] \in Paths
    BY DEF Once
  <1>2. /\ rest \in Seq(Paths) /\ Len(rest) = Len(list) - n
        /\ \A j \in 1 .. Len(list) - n : rest[j] = list[n + j]
    <2>1. n + 1 \in Int /\ Len(list) \in Int /\ \A j \in n + 1 .. Len(list) : list[j] \in Paths
      BY <1>1
    <2>2. /\ rest \in Seq(Paths)
          /\ Len(rest) = IF n + 1 <= Len(list) THEN Len(list) - (n + 1) + 1 ELSE 0
          /\ \A j \in 1 .. Len(list) - (n + 1) + 1 : rest[j] = list[(n + 1) + j - 1]
      BY <2>1, SubSeqProperties, SMT DEF Kept
    <2> HIDE DEF rest
    <2>3. Len(rest) = Len(list) - n
      <3>1. n \in Int /\ Len(list) \in Int /\ n <= Len(list)
        BY <1>1
      <3>2. Len(rest) = IF n + 1 <= Len(list) THEN Len(list) - (n + 1) + 1 ELSE 0
        BY <2>2
      <3> QED
        BY <3>1, <3>2
    <2>4. ASSUME NEW j \in 1 .. Len(list) - n
          PROVE  rest[j] = list[n + j]
      <3>1. j \in 1 .. Len(list) - (n + 1) + 1 /\ (n + 1) + j - 1 = n + j
        BY <1>1
      <3> QED
        BY <2>2, <3>1
    <2> QED
      BY <2>2, <2>3, <2>4
  <1> HIDE DEF rest
  <1>3. DOMAIN rest = 1 .. Len(list) - n
    BY <1>1, <1>2
  <1>4. \A j, k \in 1 .. Len(list) : list[j] = list[k] => j = k
    BY <1>1 DEF Once, IsInjective
  <1>5. IsInjective(rest)
    <2> SUFFICES ASSUME NEW j \in 1 .. Len(list) - n, NEW k \in 1 .. Len(list) - n, rest[j] = rest[k]
                 PROVE  j = k
      BY <1>3 DEF IsInjective
    <2> QED
      BY <1>1, <1>2, <1>4
  <1>6. Range(rest) \subseteq Range(list) \ Evicted(list, n)
    <2> SUFFICES ASSUME NEW j \in 1 .. Len(list) - n
                 PROVE  list[n + j] \in Range(list) /\ list[n + j] \notin Evicted(list, n)
      BY <1>2, <1>3 DEF Range
    <2> QED
      BY <1>1, <1>4 DEF Range, Evicted
  <1>7. Range(list) \ Evicted(list, n) \subseteq Range(rest)
    <2> SUFFICES ASSUME NEW k \in 1 .. Len(list), list[k] \notin Evicted(list, n)
                 PROVE  list[k] \in Range(rest)
      BY <1>1 DEF Range
    <2>1. k > n
      BY <1>1 DEF Evicted
    <2>2. k - n \in 1 .. Len(list) - n /\ rest[k - n] = list[k]
      BY <2>1, <1>1, <1>2
    <2> QED
      BY <2>2, <1>3 DEF Range
  <1> QED
    BY <1>2, <1>5, <1>6, <1>7 DEF Once, rest

-----------------------------------------------------------------------------
(* The bytes.                                                              *)

(* One token for every byte of the entries of some paths.                  *)
Units(all, paths) == UNION {{p} \X (1 .. all[p].size) : p \in paths}

Sized(all, paths) == IsFiniteSet(paths) /\ \A p \in paths : all[p].size \in Nat

(* Bytes are counted one by one.                                           *)
LEMMA BytesUnits == \A all, paths : BytesOf(all, paths) = Cardinality(Units(all, paths))
  BY DEF BytesOf, Units

(* A byte is that of one path.                                             *)
LEMMA UnitsMember ==
  ASSUME NEW all, NEW S, NEW u
  PROVE  u \in Units(all, S) <=> \E p \in S : u \in {p} \X (1 .. all[p].size)
  BY DEF Units

(* The tokens of one entry.                                                *)
LEMMA OneBlock ==
  ASSUME NEW p, NEW n \in Nat
  PROVE  IsFiniteSet({p} \X (1 .. n)) /\ Cardinality({p} \X (1 .. n)) = n
  <1>1. IsFiniteSet({p}) /\ Cardinality({p}) = 1
    BY FS_Singleton
  <1>2. IsFiniteSet(1 .. n) /\ Cardinality(1 .. n) = IF 1 > n THEN 0 ELSE n - 1 + 1
    BY FS_Interval
  <1>3. Cardinality(1 .. n) = n
    BY <1>2
  <1>4. IsFiniteSet({p} \X (1 .. n))
    BY <1>1, <1>2, FS_Product
  <1>5. Cardinality({p} \X (1 .. n)) = 1 * n
    BY <1>1, <1>2, <1>3, FS_Product
  <1> QED
    BY <1>4, <1>5

(* Finitely many entries hold finitely many bytes.                         *)
LEMMA BytesFinite ==
  ASSUME NEW all, NEW S, Sized(all, S)
  PROVE  IsFiniteSet(Units(all, S)) /\ BytesOf(all, S) \in Nat
  <1> DEFINE F == [p \in S |-> {p} \X (1 .. all[p].size)]
             Blocks == {{p} \X (1 .. all[p].size) : p \in S}
  <1>1. F \in Surjection(S, Blocks)
    <2>1. F \in [S -> Blocks]
      OBVIOUS
    <2>2. \A b \in Blocks : \E p \in S : F[p] = b
      OBVIOUS
    <2> QED
      BY <2>1, <2>2 DEF Surjection
  <1>2. IsFiniteSet(Blocks)
    BY <1>1, FS_Surjection DEF Sized
  <1>3. ASSUME NEW b \in Blocks
        PROVE  IsFiniteSet(b)
    <2>1. PICK p \in S : b = {p} \X (1 .. all[p].size)
      OBVIOUS
    <2>2. all[p].size \in Nat
      BY DEF Sized
    <2> QED
      BY <2>1, <2>2, OneBlock
  <1>4. IsFiniteSet(UNION Blocks)
    BY <1>2, <1>3, FS_UNION
  <1>5. Units(all, S) = UNION Blocks
    BY DEF Units
  <1> QED
    BY <1>4, <1>5, BytesUnits, FS_CardinalityType

(* The bytes of two sets of entries.                                       *)
LEMMA BytesSplit ==
  ASSUME NEW all, NEW S, NEW T, Sized(all, S), Sized(all, T), S \cap T = {}
  PROVE  BytesOf(all, S \cup T) = BytesOf(all, S) + BytesOf(all, T)
  <1>1. Units(all, S \cup T) = Units(all, S) \cup Units(all, T)
    BY DEF Units
  <1>2. Units(all, S) \cap Units(all, T) = {}
    BY UnitsMember
  <1>3. IsFiniteSet(Units(all, S)) /\ IsFiniteSet(Units(all, T))
    BY BytesFinite
  <1>4. BytesOf(all, S) \in Nat /\ BytesOf(all, T) \in Nat
    BY BytesFinite
  <1>5. Cardinality(Units(all, S) \cup Units(all, T)) =
          Cardinality(Units(all, S)) + Cardinality(Units(all, T)) - Cardinality({})
    BY <1>2, <1>3, FS_Union
  <1>6. Cardinality({}) = 0
    BY FS_EmptySet
  <1> QED
    BY <1>1, <1>4, <1>5, <1>6, BytesUnits

(* One entry, and none.                                                    *)
LEMMA BytesOne ==
  ASSUME NEW all, NEW p, all[p].size \in Nat
  PROVE  BytesOf(all, {p}) = all[p].size /\ Sized(all, {p})
  <1>1. Units(all, {p}) = {p} \X (1 .. all[p].size)
    BY DEF Units
  <1>2. Cardinality({p} \X (1 .. all[p].size)) = all[p].size
    BY OneBlock
  <1>3. Sized(all, {p})
    BY FS_Singleton DEF Sized
  <1> QED
    BY <1>1, <1>2, <1>3, BytesUnits

(* No entries, no bytes.                                                   *)
LEMMA BytesNone == \A all : BytesOf(all, {}) = 0
  <1>1. \A all : Units(all, {}) = {}
    BY DEF Units
  <1> QED
    BY <1>1, BytesUnits, FS_EmptySet

(* Only the entries counted matter.                                        *)
LEMMA BytesAlike ==
  ASSUME NEW all, NEW more, NEW S, \A p \in S : all[p] = more[p]
  PROVE  BytesOf(all, S) = BytesOf(more, S)
  <1>1. Units(all, S) = Units(more, S)
    BY DEF Units
  <1> QED
    BY <1>1, BytesUnits

(* A list has finitely many paths, and so has a part of it.                *)
LEMMA RangeFinite ==
  ASSUME NEW list, Once(list), NEW S, S \subseteq Range(list)
  PROVE  IsFiniteSet(S)
  <1>1. DOMAIN list = 1 .. Len(list) /\ Len(list) \in Nat
    BY DEF Once
  <1>2. IsFiniteSet(DOMAIN list)
    BY <1>1, FS_Interval
  <1>3. list \in Surjection(DOMAIN list, Range(list))
    BY DEF Once, Surjection, Range
  <1>4. IsFiniteSet(Range(list))
    BY <1>2, <1>3, FS_Surjection
  <1> QED
    BY <1>4, FS_Subset

-----------------------------------------------------------------------------
(* The steps of the list and the counter.                                  *)

(* The list has every entry of the map once ...                            *)
LEMMA ListedOnce ==
  ASSUME Listed
  PROVE  Once(order) /\ Range(order) = DOMAIN entry
  BY DEF Listed, ListMatchesMap, Once

(* ... and a list that does agrees with the map.                           *)
LEMMA OnceListed ==
  ASSUME Once(order'), Range(order') = DOMAIN entry'
  PROVE  Listed'
  BY DEF Listed, ListMatchesMap, Once, IsInjective, Range

(* The entries are finitely many, each with a size.                        *)
LEMMA EntriesSized ==
  ASSUME EntriesOK, Listed
  PROVE  \A S \in SUBSET DOMAIN entry : Sized(entry, S)
  <1>1. \A S \in SUBSET DOMAIN entry : IsFiniteSet(S)
    BY ListedOnce, RangeFinite
  <1>2. \A p \in DOMAIN entry : entry[p].size \in Nat
    BY DEF EntriesOK, Entry
  <1> QED
    BY <1>1, <1>2 DEF Sized

(* What a step stores is counted in, and what it replaces is counted out.  *)
LEMMA StoreTotal ==
  ASSUME NEW p \in Paths, NEW e, e.size \in Nat, EntriesOK, Listed, BytesExact
  PROVE  /\ Sized(With(p, e), DOMAIN With(p, e))
         /\ Total(p, e.size) = BytesOf(With(p, e), DOMAIN With(p, e))
  <1> DEFINE all == With(p, e)
             total == Total(p, e.size)
             others == DOMAIN entry \ {p}
  <1>1. /\ DOMAIN all = others \cup {p} /\ others \cap {p} = {}
        /\ all[p] = e
        /\ \A q \in others : all[q] = entry[q]
    BY DEF With
  <1>2. total = bytes + e.size - (IF Cached(p) THEN entry[p].size ELSE 0)
    BY DEF Total
  <1> HIDE DEF all, total
  <1>3. IsFiniteSet(others) /\ Sized(entry, others) /\ BytesOf(entry, others) \in Nat
    <2>1. Sized(entry, others)
      BY EntriesSized
    <2> QED
      BY <2>1, BytesFinite DEF Sized
  <1>4. Sized(all, others)
    BY <1>1, <1>3 DEF Sized
  <1>5. Sized(all, {p}) /\ BytesOf(all, {p}) = e.size
    BY <1>1, BytesOne
  <1>6. Sized(all, DOMAIN all)
    <2>1. IsFiniteSet(DOMAIN all)
      BY <1>1, <1>3, FS_AddElement
    <2> QED
      BY <1>1, <1>4, <1>5, <2>1 DEF Sized
  <1>7. BytesOf(all, DOMAIN all) = BytesOf(all, others) + e.size
    BY <1>1, <1>4, <1>5, BytesSplit
  <1>8. BytesOf(all, others) = BytesOf(entry, others)
    BY <1>1, BytesAlike
  <1>9. CASE Cached(p)
    <2>1. entry[p].size \in Nat
      BY <1>9 DEF EntriesOK, Entry, Cached
    <2>2. bytes = BytesOf(entry, others) + entry[p].size
      <3>1. DOMAIN entry = others \cup {p}
        BY <1>9 DEF Cached
      <3>2. Sized(entry, {p}) /\ BytesOf(entry, {p}) = entry[p].size
        BY <2>1, BytesOne
      <3> QED
        BY <1>1, <1>3, <3>1, <3>2, BytesSplit DEF BytesExact
    <2> QED
      BY <1>2, <1>3, <1>6, <1>7, <1>8, <1>9, <2>1, <2>2 DEF all, total
  <1>10. CASE ~Cached(p)
    <2>1. others = DOMAIN entry
      BY <1>10 DEF Cached
    <2>2. bytes = BytesOf(entry, others)
      BY <2>1 DEF BytesExact
    <2> QED
      BY <1>2, <1>3, <1>6, <1>7, <1>8, <1>10, <2>2 DEF all, total
  <1> QED
    BY <1>9, <1>10

(* So are some of them.                                                    *)
LEMMA SizedSubset ==
  ASSUME NEW all, NEW S, Sized(all, S), NEW T, T \subseteq S
  PROVE  Sized(all, T)
  BY FS_Subset DEF Sized

(* The counter after a step that stores an entry and enforces the limits:  *)
(* what is evicted is what is taken off, and both limits hold.             *)
LEMMA StoreCounted ==
  ASSUME NEW p \in Paths, NEW e, e.size \in Nat, EntriesOK, Listed, BytesExact, Store(p, e)
  PROVE  Listed' /\ BytesExact' /\ LimitsHold'
  <1> DEFINE list == Touched(p)
             all == With(p, e)
             total == Total(p, e.size)
  <1>1. Once(list) /\ Range(list) = DOMAIN entry \cup {p}
    BY TouchedOnce
  <1>2. DOMAIN all = Range(list)
    BY <1>1 DEF With
  <1>3. Sized(all, DOMAIN all) /\ total = BytesOf(all, DOMAIN all)
    BY StoreTotal
  <1>4. PICK n \in 0 .. Len(list) :
          /\ n = Len(list) \/ Within(list, all, total, n)
          /\ order' = Kept(list, n)
          /\ entry' = Restrict(all, DOMAIN all \ Evicted(list, n))
          /\ bytes' = total - Freed(list, all, n)
    BY DEF Store, EnforceLimits
  <1> HIDE DEF list, all, total
  <1> DEFINE gone == Evicted(list, n)
             stay == DOMAIN all \ gone
  <1>7. gone \subseteq DOMAIN all
    <2>1. DOMAIN list = 1 .. Len(list) /\ Len(list) \in Nat
      BY <1>1 DEF Once
    <2> QED
      BY <2>1, <1>2 DEF Evicted, Range
  <1>8. /\ Once(order') /\ Range(order') = stay
        /\ Len(order') = Len(list) - n
    BY <1>1, <1>2, <1>4, KeptOnce
  <1>9. entry' = [q \in stay |-> all[q]]
    <2>1. DOMAIN all \cap stay = stay
      OBVIOUS
    <2> QED
      BY <2>1, <1>4 DEF Restrict
  <1> HIDE DEF gone
  <1>10. Listed'
    BY <1>8, <1>9, OnceListed
  <1>11. /\ bytes' = BytesOf(all, stay) /\ bytes' = total - BytesOf(all, gone)
         /\ bytes' \in Nat
    <2>1. Sized(all, stay) /\ Sized(all, gone)
      BY <1>3, <1>7, SizedSubset
    <2>2. DOMAIN all = stay \cup gone /\ stay \cap gone = {}
      BY <1>7
    <2>3. total = BytesOf(all, stay) + BytesOf(all, gone)
      BY <1>3, <2>1, <2>2, BytesSplit
    <2>4. BytesOf(all, stay) \in Nat /\ BytesOf(all, gone) \in Nat
      BY <2>1, BytesFinite
    <2>5. bytes' = total - BytesOf(all, gone)
      BY <1>4 DEF Freed, gone
    <2> QED
      BY <2>3, <2>4, <2>5
  <1>12. BytesExact'
    <2>1. BytesOf(all, stay) = BytesOf(entry', stay)
      BY <1>9, BytesAlike
    <2>2. DOMAIN entry' = stay
      BY <1>9
    <2> QED
      BY <1>11, <2>1, <2>2 DEF BytesExact, BytesOf
  <1>13. LimitsHold'
    <2>1. Len(list) \in Nat
      BY <1>1 DEF Once
    <2>2. CASE n = Len(list)
      <3>1. Range(list) \subseteq gone
        <4>1. DOMAIN list = 1 .. Len(list)
          BY <1>1 DEF Once
        <4> QED
          BY <4>1, <2>2 DEF gone, Evicted, Range
      <3>2. stay = {}
        BY <3>1, <1>2
      <3>3. BytesOf(all, stay) = 0
        BY <3>2, BytesNone
      <3>4. bytes' = 0 /\ Len(order') = 0
        BY <3>3, <1>8, <1>11, <2>1, <2>2
      <3> QED
        BY <3>4, LimitAssumption DEF LimitsHold
    <2>3. CASE Within(list, all, total, n)
      BY <2>1, <2>3, <1>8, <1>11 DEF Within, Freed, LimitsHold, gone
    <2> QED
      BY <2>2, <2>3, <1>4
  <1> QED
    BY <1>10, <1>12, <1>13

(* Removing an entry takes its size off the counter.                       *)
LEMMA RemoveCounted ==
  ASSUME NEW p, Cached(p), EntriesOK, Listed, BytesExact, LimitsHold, RemoveElement(p)
  PROVE  Listed' /\ BytesExact' /\ LimitsHold'
  <1> DEFINE others == DOMAIN entry \ {p}
  <1>1. Once(order) /\ p \in Range(order) /\ Range(order) = DOMAIN entry
    BY ListedOnce DEF Cached
  <1>2. /\ Once(order') /\ Range(order') = others
        /\ Len(order') = Len(order) - 1
    BY <1>1, TakeOut DEF RemoveElement
  <1>3. entry' = [q \in others |-> entry[q]] /\ bytes' = bytes - entry[p].size
    <2>1. DOMAIN entry \cap others = others
      OBVIOUS
    <2> QED
      BY <2>1 DEF RemoveElement, Restrict
  <1>4. Listed'
    BY <1>2, <1>3, OnceListed
  <1>5. /\ bytes = BytesOf(entry, others) + entry[p].size
        /\ entry[p].size \in Nat /\ BytesOf(entry, others) \in Nat
    <2>1. DOMAIN entry = others \cup {p} /\ others \cap {p} = {}
      BY DEF Cached
    <2>2. entry[p].size \in Nat
      BY DEF EntriesOK, Entry, Cached
    <2>3. Sized(entry, others) /\ BytesOf(entry, others) \in Nat
      BY EntriesSized, BytesFinite
    <2>4. Sized(entry, {p}) /\ BytesOf(entry, {p}) = entry[p].size
      BY <2>2, BytesOne
    <2> QED
      BY <2>1, <2>2, <2>3, <2>4, BytesSplit DEF BytesExact
  <1>6. BytesExact'
    <2>1. BytesOf(entry, others) = BytesOf(entry', others) /\ DOMAIN entry' = others
      BY <1>3, BytesAlike
    <2>2. bytes' = BytesOf(entry, others)
      BY <1>3, <1>5
    <2> QED
      BY <2>1, <2>2 DEF BytesExact, BytesOf
  <1>7. LimitsHold'
    <2>1. Len(order) \in Nat
      BY <1>1 DEF Once
    <2>2. bytes' <= bytes /\ bytes' \in Nat /\ bytes \in Nat
      BY <1>3, <1>5
    <2> QED
      BY <2>1, <2>2, <1>2, LimitAssumption DEF LimitsHold
  <1> QED
    BY <1>4, <1>6, <1>7

(* A step that leaves the cache alone keeps its counts.                    *)
LEMMA SameCounted ==
  ASSUME Listed, BytesExact, LimitsHold, UNCHANGED cache
  PROVE  Listed' /\ BytesExact' /\ LimitsHold'
  BY DEF cache, Listed, BytesExact, BytesOf, LimitsHold, ListMatchesMap, Range, IsInjective

(* A miss or an error.                                                     *)
LEMMA FailCounted ==
  ASSUME NEW p, EntriesOK, Listed, BytesExact, LimitsHold, Fail(p)
  PROVE  Listed' /\ BytesExact' /\ LimitsHold'
  <1>1. CASE Cached(p)
    BY <1>1, RemoveCounted DEF Fail
  <1>2. CASE ~Cached(p)
    BY <1>2, SameCounted DEF Fail
  <1> QED
    BY <1>1, <1>2

(* A Get that finds its entry fresh moves it and changes nothing else.     *)
LEMMA HitCounted ==
  ASSUME NEW p \in Paths, Listed, BytesExact, LimitsHold, Cached(p), order' = Touched(p),
         UNCHANGED <<entry, bytes>>
  PROVE  Listed' /\ BytesExact' /\ LimitsHold'
  <1>1. Once(order) /\ p \in Range(order)
    BY ListedOnce DEF Cached
  <1>2. Once(order') /\ Range(order') = DOMAIN entry'
    BY TouchedOnce DEF Cached
  <1>3. Listed'
    BY <1>2, OnceListed
  <1>4. Len(order') = Len(order)
    <2> DEFINE rest == RemoveAt(order, Element(p))
    <2>1. rest \in Seq(Paths) /\ Len(rest) = Len(order) - 1 /\ Len(order) \in Nat
      BY <1>1, TakeOut DEF Once
    <2>2. order' = Append(rest, p)
      BY DEF Touched
    <2> HIDE DEF rest
    <2> QED
      BY <2>1, <2>2, AppendProperties
  <1>5. BytesExact' /\ LimitsHold'
    BY <1>4 DEF BytesExact, BytesOf, LimitsHold
  <1> QED
    BY <1>3, <1>5

(* An empty cache.                                                         *)
LEMMA EmptyCounted ==
  ASSUME order' = <<>>, DOMAIN entry' = {}, bytes' = 0
  PROVE  Listed' /\ BytesExact' /\ LimitsHold'
  <1>1. Len(order') = 0 /\ DOMAIN order' = {} /\ order' \in Seq(Paths)
    OBVIOUS
  <1>2. BytesOf(entry', {}) = 0
    BY BytesNone
  <1>3. BytesExact'
    BY <1>2 DEF BytesExact, BytesOf
  <1>4. Listed' /\ LimitsHold'
    BY <1>1, LimitAssumption DEF Listed, LimitsHold, ListMatchesMap, Range, IsInjective
  <1> QED
    BY <1>3, <1>4

(* Every step keeps the list, the map and the counter in agreement and     *)
(* within both limits, whatever callers Put.                               *)
LEMMA NextCounted ==
  ASSUME CacheInv, [Next]_vars
  PROVE  Listed' /\ BytesExact' /\ LimitsHold'
  <1>1. EntriesOK /\ Listed /\ BytesExact /\ LimitsHold
    BY DEF CacheInv, IInv
  <1>2. ASSUME NEW p \in Paths, GetStat(p)
        PROVE  Listed' /\ BytesExact' /\ LimitsHold'
    <2>1. CASE Fail(p)
      BY <1>1, <2>1, FailCounted
    <2>2. CASE Fresh(p) /\ order' = Touched(p) /\ UNCHANGED <<entry, bytes, reading>>
      BY <1>1, <2>2, HitCounted DEF Fresh
    <2>3. CASE UNCHANGED cache
      BY <1>1, <2>3, SameCounted
    <2> QED
      BY <1>2, <2>1, <2>2, <2>3 DEF GetStat
  <1>3. ASSUME GetRead
        PROVE  Listed' /\ BytesExact' /\ LimitsHold'
    <2> DEFINE p == reading.path
               e == EntryOf(reading, version[p])
    <2>1. p \in Paths /\ reading.time \in Versions
      BY <1>1, <1>3 DEF GetRead, EntriesOK, Get
    <2>2. e.size \in Nat
      BY <2>1, VersionAssumption DEF EntryOf
    <2>3. CASE Store(p, e)
      BY <1>1, <2>1, <2>2, <2>3, StoreCounted
    <2>4. CASE Fail(p)
      BY <1>1, <2>4, FailCounted
    <2> QED
      BY <1>3, <2>3, <2>4 DEF GetRead
  <1>4. ASSUME NEW p \in Paths, Put(p)
        PROVE  Listed' /\ BytesExact' /\ LimitsHold'
    <2> DEFINE e == [body |-> held[p], size |-> Size[held[p]],
                     time |-> IF present[p] THEN version[p] ELSE 0]
    <2>1. Store(p, e) /\ held[p] \in Versions
      BY <1>1, <1>4 DEF Put, EntriesOK
    <2>2. e.size \in Nat
      BY <2>1, VersionAssumption
    <2> QED
      BY <1>1, <2>1, <2>2, StoreCounted
  <1>5. ASSUME NEW p \in Paths, Invalidate(p)
        PROVE  Listed' /\ BytesExact' /\ LimitsHold'
    BY <1>1, <1>5, RemoveCounted DEF Invalidate
  <1>6. ASSUME InvalidateAll
        PROVE  Listed' /\ BytesExact' /\ LimitsHold'
    <2>1. order' = <<>> /\ DOMAIN entry' = {} /\ bytes' = 0
      BY <1>6 DEF InvalidateAll
    <2> QED
      BY <2>1, EmptyCounted
  <1>7. ASSUME NEW p \in Paths, Written(p) \/ Removed(p)
        PROVE  Listed' /\ BytesExact' /\ LimitsHold'
    BY <1>1, <1>7, SameCounted DEF Written, Removed
  <1>8. CASE UNCHANGED vars
    BY <1>1, <1>8, SameCounted DEF vars
  <1> QED
    BY <1>2, <1>3, <1>4, <1>5, <1>6, <1>7, <1>8 DEF Next

(* The invariant of the list, the counter and the limits.                  *)
LEMMA CacheInvariant == Spec => []CacheInv
  <1>1. Init => CacheInv
    <2> SUFFICES ASSUME Init PROVE CacheInv
      OBVIOUS
    <2>1. order = <<>> /\ DOMAIN entry = {} /\ bytes = 0
      BY DEF Init
    <2>2. Len(order) = 0 /\ DOMAIN order = {} /\ order \in Seq(Paths)
      BY <2>1
    <2>3. BytesExact
      BY <2>1, BytesNone DEF BytesExact
    <2>4. Listed /\ LimitsHold
      BY <2>1, <2>2, LimitAssumption DEF Listed, LimitsHold, ListMatchesMap, Range, IsInjective
    <2> QED
      BY <2>3, <2>4, InitSound DEF CacheInv
  <1>2. CacheInv /\ [Next]_vars => CacheInv'
    BY NextSound, NextCounted DEF CacheInv
  <1> QED
    BY <1>1, <1>2, PTL DEF Spec

(* The state of the cache keeps its types, and the counter stays a natural *)
(* number, whatever callers Put.                                           *)
THEOREM CacheTyped == Spec => []TypeOK
  <1>1. CacheInv => TypeOK
    <2> SUFFICES ASSUME CacheInv PROVE TypeOK
      OBVIOUS
    <2>1. EntriesOK /\ Listed /\ BytesExact
      BY DEF CacheInv, IInv
    <2>2. bytes \in Nat
      BY <2>1, EntriesSized, BytesFinite DEF BytesExact
    <2> QED
      BY <2>1, <2>2 DEF TypeOK, Listed
  <1> QED
    BY <1>1, CacheInvariant, PTL

(* The list and the map hold the same paths, each once, whatever callers   *)
(* Put and whatever happens to the files (skill_cache.go:91-93, 180-187).  *)
THEOREM ListHolds == Spec => []ListMatchesMap
  <1>1. CacheInv => ListMatchesMap
    BY DEF CacheInv, Listed
  <1> QED
    BY <1>1, CacheInvariant, PTL

(* The counter is the sum of the sizes of the entries, through refreshes,  *)
(* evictions, removals and failed reads (skill_cache.go:75-78, 122-126).   *)
THEOREM BytesHold == Spec => []BytesExact
  <1>1. CacheInv => BytesExact
    BY DEF CacheInv
  <1> QED
    BY <1>1, CacheInvariant, PTL

(* Both limits hold in every reachable state (skill_cache.go:189-206).     *)
THEOREM LimitsAlwaysHold == Spec => []LimitsHold
  <1>1. CacheInv => LimitsHold
    BY DEF CacheInv
  <1> QED
    BY <1>1, CacheInvariant, PTL

-----------------------------------------------------------------------------
(* The order of eviction.                                                  *)

(* Of two elements that are not the one touched, the older one stays the   *)
(* older one.                                                              *)
LEMMA TouchedKeepsOrder ==
  ASSUME NEW p \in Paths, Listed, NEW i \in 1 .. Len(order), NEW j \in 1 .. Len(order),
         i < j, order[i] # p, order[j] # p
  PROVE  \E a, b \in 1 .. Len(Touched(p)) :
           a < b /\ Touched(p)[a] = order[i] /\ Touched(p)[b] = order[j]
  <1>1. Once(order) /\ Range(order) = DOMAIN entry
    BY ListedOnce
  <1>2. order \in Seq(Paths) /\ Len(order) \in Nat /\ DOMAIN order = 1 .. Len(order)
    BY <1>1 DEF Once
  <1>3. CASE Cached(p)
    <2> DEFINE rest == RemoveAt(order, Element(p))
               k == Element(p)
               a == IF i < k THEN i ELSE i - 1
               b == IF j < k THEN j ELSE j - 1
    <2>1. /\ rest \in Seq(Paths) /\ Len(rest) = Len(order) - 1
          /\ k # i /\ k # j /\ order[i] = rest[a] /\ order[j] = rest[b]
      BY <1>1, <1>3, TakeOut DEF Cached, Once
    <2>2. k \in 1 .. Len(order)
      <3>1. \E m \in DOMAIN order : order[m] = p
        BY <1>1, <1>3 DEF Cached, Range
      <3> QED
        BY <3>1, <1>2 DEF Element
    <2>3. Touched(p) = Append(rest, p)
      BY <1>3 DEF Touched
    <2> HIDE DEF rest, k
    <2>4. a \in 1 .. Len(rest) /\ b \in 1 .. Len(rest) /\ a < b
      BY <1>2, <2>1, <2>2, SMTT(30)
    <2> HIDE DEF a, b
    <2>5. /\ Len(Touched(p)) = Len(rest) + 1
          /\ Touched(p)[a] = rest[a] /\ Touched(p)[b] = rest[b]
      BY <2>1, <2>3, <2>4, AppendProperties
    <2>6. a \in 1 .. Len(Touched(p)) /\ b \in 1 .. Len(Touched(p))
      BY <2>1, <2>4, <2>5
    <2> QED
      BY <2>1, <2>4, <2>5, <2>6
  <1>4. CASE ~Cached(p)
    <2>1. Touched(p) = Append(order, p)
      BY <1>4 DEF Touched
    <2>2. /\ Len(Touched(p)) = Len(order) + 1
          /\ Touched(p)[i] = order[i] /\ Touched(p)[j] = order[j]
      BY <1>2, <2>1, AppendProperties
    <2>3. i \in 1 .. Len(Touched(p)) /\ j \in 1 .. Len(Touched(p))
      BY <1>2, <2>2
    <2> QED
      BY <2>2, <2>3
  <1> QED
    BY <1>3, <1>4

(* What leaves is older than what stays.                                   *)
LEMMA StoreOldest ==
  ASSUME NEW p \in Paths, NEW e, Listed, Store(p, e)
  PROVE  OldestGoFirst(p)
  <1> DEFINE list == Touched(p)
             all == With(p, e)
  <1>1. Once(list) /\ Range(list) = DOMAIN all /\ DOMAIN entry \subseteq DOMAIN all
    BY TouchedOnce DEF With
  <1>2. PICK n \in 0 .. Len(list) :
          entry' = Restrict(all, DOMAIN all \ Evicted(list, n))
    BY DEF Store, EnforceLimits
  <1>3. DOMAIN entry' = DOMAIN all \ Evicted(list, n)
    BY <1>2 DEF Restrict
  <1>4. DOMAIN list = 1 .. Len(list) /\ Len(list) \in Nat
    BY <1>1 DEF Once
  <1>5. Once(order) /\ Range(order) = DOMAIN entry
    BY ListedOnce
  <1>6. DOMAIN order = 1 .. Len(order) /\ Len(order) \in Nat
    BY <1>5 DEF Once
  <1> HIDE DEF all
  <1> SUFFICES ASSUME NEW i \in 1 .. Len(order), NEW j \in 1 .. Len(order),
                      order[i] \in DOMAIN entry', order[j] \notin DOMAIN entry',
                      ~(j < i), order[i] # p, order[j] # p
               PROVE  FALSE
    BY <1>6 DEF OldestGoFirst
  <1>7. i < j
    BY <1>6
  <1>8. PICK a, b \in 1 .. Len(list) : a < b /\ list[a] = order[i] /\ list[b] = order[j]
    BY <1>7, TouchedKeepsOrder
  <1> HIDE DEF list
  <1>9. order[j] \in Evicted(list, n)
    BY <1>1, <1>3, <1>5, <1>6 DEF Range
  <1>10. PICK c \in 1 .. n : list[c] = order[j]
    BY <1>9 DEF Evicted
  <1>11. c = b
    <2>1. c \in DOMAIN list /\ b \in DOMAIN list /\ list[c] = list[b]
      BY <1>4, <1>8, <1>10
    <2>2. \A x, y \in DOMAIN list : list[x] = list[y] => x = y
      BY <1>1 DEF Once, IsInjective
    <2>3. QED
      BY <2>1, <2>2
  <1>12. a \in 1 .. n
    BY <1>4, <1>8, <1>10, <1>11
  <1>13. order[i] \in Evicted(list, n)
    BY <1>8, <1>12 DEF Evicted
  <1> QED
    BY <1>3, <1>13

(* The last element that the limits took could not have stayed.            *)
LEMMA StoreForNeed ==
  ASSUME NEW p \in Paths, NEW e, e.size \in Nat, EntriesOK, Listed, BytesExact, Store(p, e)
  PROVE  LeavesForNeed(p)
  <1> DEFINE list == Touched(p)
             all == With(p, e)
             total == Total(p, e.size)
  <1> SUFFICES ASSUME NEW i \in 1 .. Len(order), p \in DOMAIN entry', order[i] # p,
                      order[i] \notin DOMAIN entry',
                      \A j \in i + 1 .. Len(order) : order[j] = p \/ order[j] \in DOMAIN entry'
               PROVE  \/ Capacity # 0 /\ Len(order') >= Capacity
                      \/ MaxBytes # 0 /\ bytes' + entry[order[i]].size > MaxBytes
    <2>1. DOMAIN order = 1 .. Len(order)
      BY ListedOnce DEF Once
    <2> QED
      BY <2>1 DEF LeavesForNeed
  <1>1. Once(list) /\ Range(list) = DOMAIN all
    BY TouchedOnce DEF With
  <1>2. DOMAIN list = 1 .. Len(list) /\ Len(list) \in Nat
    BY <1>1 DEF Once
  <1>3. Once(order) /\ Range(order) = DOMAIN entry /\ DOMAIN order = 1 .. Len(order)
        /\ Len(order) \in Nat
    BY ListedOnce DEF Once
  <1>4. PICK n \in 0 .. Len(list) :
          /\ \A k \in 0 .. n - 1 : ~Within(list, all, total, k)
          /\ order' = Kept(list, n)
          /\ entry' = Restrict(all, DOMAIN all \ Evicted(list, n))
          /\ bytes' = total - Freed(list, all, n)
    BY DEF Store, EnforceLimits
  <1>5. DOMAIN entry' = DOMAIN all \ Evicted(list, n)
    BY <1>4 DEF Restrict
  <1>6. /\ total = BytesOf(all, DOMAIN all) /\ Sized(all, DOMAIN all)
        /\ \A q \in DOMAIN entry : q # p => all[q] = entry[q]
    BY StoreTotal DEF With
  <1>7. order[i] \in DOMAIN entry /\ order[i] \in DOMAIN all
    BY <1>3 DEF Range, With
  <1> HIDE DEF all, total
  <1>8. PICK c \in 1 .. n : list[c] = order[i]
    BY <1>5, <1>7 DEF Evicted
  <1>9. n \in 1 .. Len(list) /\ c \in 1 .. Len(list)
    BY <1>2, <1>8
  <1>10. /\ list[n] \in DOMAIN all /\ list[n] \notin DOMAIN entry' /\ list[n] # p
    BY <1>1, <1>2, <1>5, <1>9 DEF Range, Evicted
  <1>11. list[n] = order[i]
    <2>1. PICK j \in 1 .. Len(order) : list[n] = order[j]
      BY <1>3, <1>10 DEF Range, With, all
    <2>2. CASE i < j
      <3>1. j \in i + 1 .. Len(order)
        BY <1>3, <2>2
      <3>2. QED
        BY <1>10, <2>1, <3>1
    <2>3. CASE j < i
      <3>1. PICK a, b \in 1 .. Len(list) : a < b /\ list[a] = order[j] /\ list[b] = order[i]
        BY <1>10, <2>1, <2>3, TouchedKeepsOrder
      <3> HIDE DEF list
      <3>2. a = n /\ b = c
        BY <1>1, <1>2, <1>8, <1>9, <2>1, <3>1 DEF Once, IsInjective
      <3>3. QED
        BY <1>2, <1>8, <3>1, <3>2
    <2>4. QED
      BY <1>3, <2>1, <2>2, <2>3
  <1> HIDE DEF list
  <1>12. /\ Freed(list, all, n) = Freed(list, all, n - 1) + entry[order[i]].size
         /\ Freed(list, all, n) \in Nat /\ Freed(list, all, n - 1) \in Nat
         /\ entry[order[i]].size \in Nat /\ total \in Nat
    <2> DEFINE rest == Evicted(list, n - 1)
               x == order[i]
    <2>1. Evicted(list, n) = rest \cup {x} /\ rest \cap {x} = {}
      <3>1. 1 .. n = (1 .. n - 1) \cup {n} /\ n \notin 1 .. n - 1
        BY <1>2, <1>9
      <3>2. \A a, b \in 1 .. Len(list) : list[a] = list[b] => a = b
        BY <1>1, <1>2 DEF Once, IsInjective
      <3>3. \A a \in 1 .. n - 1 : a \in 1 .. Len(list)
        BY <1>2, <1>9
      <3>4. QED
        BY <1>9, <1>11, <3>1, <3>2, <3>3 DEF Evicted
    <2>2. Evicted(list, n) \subseteq DOMAIN all
      <3>1. \A a \in 1 .. n : a \in DOMAIN list
        BY <1>2, <1>9
      <3>2. QED
        BY <1>1, <3>1 DEF Evicted, Range
    <2> HIDE DEF rest
    <2>3. Sized(all, rest) /\ Sized(all, {x}) /\ Sized(all, Evicted(list, n))
      <3>1. rest \subseteq DOMAIN all /\ {x} \subseteq DOMAIN all
        BY <2>1, <2>2
      <3>2. IsFiniteSet(rest) /\ IsFiniteSet({x}) /\ IsFiniteSet(Evicted(list, n))
        BY <1>6, <2>2, <3>1, FS_Subset DEF Sized
      <3>3. QED
        BY <1>6, <2>2, <3>1, <3>2 DEF Sized
    <2>4. BytesOf(all, rest \cup {x}) = BytesOf(all, rest) + BytesOf(all, {x})
      BY <2>1, <2>3, BytesSplit
    <2>5. BytesOf(all, {x}) = all[x].size /\ all[x].size \in Nat
      BY <2>3, BytesOne DEF Sized
    <2>6. all[x] = entry[x]
      BY <1>6, <1>7
    <2>7. /\ BytesOf(all, rest) \in Nat /\ BytesOf(all, Evicted(list, n)) \in Nat
          /\ total \in Nat
      BY <1>6, <2>3, BytesFinite
    <2>8. QED
      BY <2>1, <2>4, <2>5, <2>6, <2>7 DEF Freed, rest
  <1>13. Len(order') = Len(list) - n
    <2> DEFINE rest == SubSeq(list, n + 1, Len(list))
    <2>1. /\ n + 1 \in Int /\ Len(list) \in Int
          /\ \A j \in n + 1 .. Len(list) : list[j] \in Paths
      BY <1>1, <1>2, <1>9 DEF Once
    <2>2. Len(rest) = IF n + 1 <= Len(list) THEN Len(list) - (n + 1) + 1 ELSE 0
      BY <2>1, SubSeqProperties, SMT
    <2>3. order' = rest
      BY <1>4 DEF Kept
    <2> HIDE DEF rest
    <2>4. QED
      BY <1>2, <1>9, <2>2, <2>3
  <1>14. ~Within(list, all, total, n - 1)
    <2>1. n - 1 \in 0 .. n - 1
      BY <1>9
    <2>2. QED
      BY <1>4, <2>1
  <1>15. \/ Capacity # 0 /\ ~(Len(list) - (n - 1) <= Capacity)
         \/ MaxBytes # 0 /\ ~(total - Freed(list, all, n - 1) <= MaxBytes)
    BY <1>14 DEF Within
  <1>16. bytes' = total - Freed(list, all, n)
    BY <1>4
  <1> HIDE DEF Freed
  <1>17. CASE Capacity # 0 /\ ~(Len(list) - (n - 1) <= Capacity)
    BY <1>2, <1>9, <1>13, <1>17, LimitAssumption
  <1>18. CASE MaxBytes # 0 /\ ~(total - Freed(list, all, n - 1) <= MaxBytes)
    <2>1. bytes' + entry[order[i]].size = total - Freed(list, all, n - 1)
      BY <1>12, <1>16
    <2>2. total - Freed(list, all, n - 1) \in Int /\ MaxBytes \in Int
      BY <1>12, LimitAssumption
    <2>3. bytes' + entry[order[i]].size > MaxBytes
      BY <1>18, <2>1, <2>2
    <2>4. QED
      BY <1>18, <2>3
  <1> QED
    BY <1>15, <1>17, <1>18

(* A miss or an error removes nothing but the entry of its path.           *)
LEMMA FailOldest ==
  ASSUME NEW p, Listed, Fail(p)
  PROVE  OldestGoFirst(p) /\ LeavesForNeed(p)
  <1>1. DOMAIN entry \ {p} \subseteq DOMAIN entry'
    BY DEF Fail, RemoveElement, Restrict, cache
  <1>2. \A j \in DOMAIN order : order[j] \in DOMAIN entry
    BY ListedOnce DEF Range
  <1> QED
    BY <1>1, <1>2 DEF OldestGoFirst, LeavesForNeed

(* An entry that fits alone is never evicted to make room for itself.      *)
LEMMA NewestKept ==
  ASSUME CacheInv, GetRead
  PROVE  NewestStays
  <1> DEFINE p == reading.path
             e == EntryOf(reading, version[p])
             list == Touched(p)
             all == With(p, e)
             total == Total(p, e.size)
  <1> SUFFICES ASSUME held' # held, MaxBytes = 0 \/ Size[reading.time] <= MaxBytes
               PROVE  order' # <<>> /\ Last(order') = p
    BY DEF NewestStays
  <1>1. EntriesOK /\ Listed /\ BytesExact
    BY DEF CacheInv, IInv
  <1>2. p \in Paths /\ reading.time \in Versions
    BY <1>1 DEF GetRead, EntriesOK, Get
  <1>3. Store(p, e) /\ e.size = Size[reading.time] /\ e.size \in Nat
    BY <1>2, VersionAssumption DEF GetRead, EntryOf
  <1>4. Once(list) /\ Range(list) = DOMAIN all
    BY <1>1, <1>2, TouchedOnce DEF With
  <1>5. /\ Len(list) \in Nat \ {0} /\ list[Len(list)] = p /\ DOMAIN list = 1 .. Len(list)
    <2> DEFINE rest == IF Cached(p) THEN RemoveAt(order, Element(p)) ELSE order
    <2>1. rest \in Seq(Paths)
      <3>1. Once(order) /\ Range(order) = DOMAIN entry
        BY <1>1, ListedOnce
      <3> QED
        BY <3>1, TakeOut DEF Cached, Once
    <2>2. list = Append(rest, p)
      BY DEF Touched
    <2> HIDE DEF rest
    <2>3. Len(list) = Len(rest) + 1 /\ list[Len(rest) + 1] = p /\ Len(rest) \in Nat
      BY <1>2, <2>1, <2>2, AppendProperties
    <2> QED
      BY <1>4, <2>3 DEF Once
  <1>6. PICK n \in 0 .. Len(list) :
          /\ \A k \in 0 .. n - 1 : ~Within(list, all, total, k)
          /\ order' = Kept(list, n)
    BY <1>3 DEF Store, EnforceLimits
  <1>7. total = BytesOf(all, DOMAIN all) /\ Sized(all, DOMAIN all) /\ all[p] = e
    BY <1>1, <1>2, <1>3, StoreTotal DEF With
  <1> HIDE DEF e, list, all, total
  <1>8. Within(list, all, total, Len(list) - 1)
    <2> DEFINE gone == Evicted(list, Len(list) - 1)
    <2>1. DOMAIN all = gone \cup {p} /\ gone \cap {p} = {}
      <3>1. \A i, j \in 1 .. Len(list) : list[i] = list[j] => i = j
        BY <1>4, <1>5 DEF Once, IsInjective
      <3>2. p \notin gone
        BY <1>5, <3>1 DEF Evicted
      <3>3. gone \cup {p} \subseteq DOMAIN all
        BY <1>4, <1>5 DEF Evicted, Range
      <3>4. ASSUME NEW q \in DOMAIN all, q # p
            PROVE  q \in gone
        <4>1. PICK i \in 1 .. Len(list) : list[i] = q
          BY <1>4, <1>5, <3>4 DEF Range
        <4>2. i \in 1 .. Len(list) - 1
          BY <1>5, <3>4, <4>1
        <4> QED
          BY <4>1, <4>2 DEF Evicted
      <3> QED
        BY <3>2, <3>3, <3>4
    <2> HIDE DEF gone
    <2>2. Sized(all, gone) /\ Sized(all, {p})
      <3>1. IsFiniteSet(gone) /\ IsFiniteSet({p})
        BY <1>7, <2>1, FS_Subset DEF Sized
      <3> QED
        BY <1>7, <2>1, <3>1 DEF Sized
    <2>3. total = BytesOf(all, gone) + BytesOf(all, {p})
      BY <1>7, <2>1, <2>2, BytesSplit
    <2>4. BytesOf(all, {p}) = Size[reading.time] /\ BytesOf(all, {p}) \in Nat
      BY <1>3, <1>7, BytesOne
    <2>5. BytesOf(all, gone) \in Nat
      BY <2>2, BytesFinite
    <2>6. total - Freed(list, all, Len(list) - 1) = Size[reading.time]
      BY <2>3, <2>4, <2>5 DEF Freed, gone
    <2>7. Capacity = 0 \/ Len(list) - (Len(list) - 1) <= Capacity
      BY <1>5, LimitAssumption
    <2> QED
      BY <2>6, <2>7 DEF Within
  <1>9. n < Len(list)
    <2> SUFFICES ASSUME n = Len(list) PROVE FALSE
      BY <1>5
    <2>1. Len(list) - 1 \in 0 .. n - 1
      BY <1>5
    <2> QED
      BY <1>6, <1>8, <2>1
  <1>10. /\ order' \in Seq(Paths) /\ Len(order') = Len(list) - n
         /\ order'[Len(list) - n] = list[Len(list)]
    <2>1. /\ n + 1 \in Int /\ Len(list) \in Int
          /\ \A j \in n + 1 .. Len(list) : list[j] \in Paths
      BY <1>4, <1>5 DEF Once
    <2> DEFINE rest == SubSeq(list, n + 1, Len(list))
    <2>2. /\ rest \in Seq(Paths)
          /\ Len(rest) = IF n + 1 <= Len(list) THEN Len(list) - (n + 1) + 1 ELSE 0
          /\ \A j \in 1 .. Len(list) - (n + 1) + 1 : rest[j] = list[(n + 1) + j - 1]
      BY <2>1, SubSeqProperties, SMT
    <2>3. order' = rest
      BY <1>6 DEF Kept
    <2> HIDE DEF rest
    <2>4. /\ n + 1 <= Len(list) /\ Len(list) - (n + 1) + 1 = Len(list) - n
          /\ Len(list) - n \in 1 .. Len(list) - (n + 1) + 1
          /\ (n + 1) + (Len(list) - n) - 1 = Len(list)
      BY <1>5, <1>9
    <2> QED
      BY <2>2, <2>3, <2>4
  <1>11. Len(order') >= 1 /\ order'[Len(order')] = p
    BY <1>5, <1>9, <1>10
  <1> QED
    BY <1>10, <1>11 DEF Last

(* Entries leave from the old end and only when they have to, both limits  *)
(* hold after every step, and what was just read stays if it fits          *)
(* (skill_cache.go:78-80, 189-206).                                        *)
THEOREM OldestLeave == Spec => EvictsOldest
  <1> DEFINE A == /\ \A p \in Paths : Touches(p) => OldestGoFirst(p) /\ LeavesForNeed(p)
                  /\ LimitsHold'
                  /\ NewestStays
  <1>1. CacheInv /\ CacheInv' /\ [Next]_vars => [A]_vars
    <2> SUFFICES ASSUME CacheInv, CacheInv', [Next]_vars
                 PROVE  A
      OBVIOUS
    <2>1. EntriesOK /\ Listed /\ BytesExact
      BY DEF CacheInv, IInv
    <2>2. ASSUME NEW p \in Paths, Touches(p)
          PROVE  OldestGoFirst(p) /\ LeavesForNeed(p)
      <3>1. CASE Put(p)
        <4>1. PICK time : Store(p, [body |-> held[p], size |-> Size[held[p]], time |-> time])
              /\ held[p] \in Versions
          BY <2>1, <3>1 DEF Put, EntriesOK
        <4>2. Size[held[p]] \in Nat
          BY <4>1, VersionAssumption
        <4> QED
          BY <2>1, <4>1, <4>2, StoreOldest, StoreForNeed
      <3>2. CASE reading.path = p /\ GetRead
        <4>1. CASE Fail(p)
          BY <2>1, <4>1, FailOldest
        <4>2. CASE Store(p, EntryOf(reading, version[p]))
          <5>1. EntryOf(reading, version[p]).size \in Nat
            BY <2>1, <3>2, VersionAssumption DEF EntryOf, GetRead, EntriesOK, Get
          <5> QED
            BY <2>1, <4>2, <5>1, StoreOldest, StoreForNeed
        <4> QED
          BY <3>2, <4>1, <4>2 DEF GetRead
      <3> QED
        BY <2>2, <3>1, <3>2 DEF Touches
    <2>3. LimitsHold'
      BY DEF CacheInv
    <2>4. NewestStays
      BY NewestKept DEF NewestStays
    <2> QED
      BY <2>2, <2>3, <2>4
  <1> QED
    BY <1>1, CacheInvariant, PTL DEF Spec, EvictsOldest
=============================================================================
