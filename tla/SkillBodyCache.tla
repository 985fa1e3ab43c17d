--------------------------- MODULE SkillBodyCache ---------------------------
(***************************************************************************)
(* The LRU cache of SKILL.md bodies (catalog/skill_cache.go), bounded by a *)
(* number of entries and a number of bytes.  Its operations hold c.mu, so  *)
(* they do not overlap, but the files they look at are written and removed *)
(* by others: Get stats a file and reads it in two steps.                  *)
(*                                                                         *)
(* A file is its version: every write makes a new version, which stands    *)
(* for the new content and for its modification time.  The counters of     *)
(* hits and misses, which only Stats reads, are left out.                  *)
(***************************************************************************)
EXTENDS Integers, Sequences, SequencesExt

CONSTANTS Paths,       (* absolute paths of SKILL.md files                  *)
          None,        (* no body, no path                                  *)
          MaxVersion,  (* bound: the writes of one file                     *)
          Size,        (* the length of every version                       *)
          Capacity,    (* c.capacity, 0 for no bound                        *)
          MaxBytes,    (* c.maxBytes, 0 for no bound                        *)
          StalePuts    (* callers Put bodies that the file may have lost    *)

Versions == 1 .. MaxVersion

ASSUME VersionAssumption == MaxVersion \in Nat \ {0} /\ Size \in [Versions -> Nat]
ASSUME LimitAssumption == Capacity \in Nat /\ MaxBytes \in Nat
ASSUME PutAssumption == StalePuts \in BOOLEAN

VARIABLES
  version, \* the last version of each file; 0 if it was never written
  present, \* the file exists
  order,   \* c.ll: the cached paths, least recently used first
  entry,   \* c.entries: the cacheEntry of each cached path
  bytes,   \* c.bytes
  reading, \* the Get between its Stat and its ReadFile, or None
  held     \* the body the last successful Get of each path returned

files == <<version, present>>
cache == <<order, entry, bytes>>
vars == <<files, cache, reading, held>>

Entry == [body : Versions, time : 0 .. MaxVersion, size : Nat]
Get == [path : Paths, time : Versions]

ASSUME NoneAssumption == None \notin Get \cup Versions

EntriesOK ==
  /\ version \in [Paths -> 0 .. MaxVersion]
  /\ present \in [Paths -> BOOLEAN]
  /\ DOMAIN entry \subseteq Paths
  /\ entry \in [DOMAIN entry -> Entry]
  /\ reading \in Get \cup {None}
  /\ held \in [Paths -> Versions \cup {None}]

TypeOK == EntriesOK /\ order \in Seq(Paths) /\ bytes \in Nat

Init ==
  /\ present \in [Paths -> BOOLEAN]
  /\ version = [p \in Paths |-> IF present[p] THEN 1 ELSE 0]
  /\ order = <<>> /\ entry = [p \in {} |-> None] /\ bytes = 0
  /\ reading = None
  /\ held = [p \in Paths |-> None]

Cached(p) == p \in DOMAIN entry

-----------------------------------------------------------------------------
(* The cache *)

(* The list element that c.entries has for a path. *)
Element(p) == CHOOSE i \in DOMAIN order : order[i] = p

(* Mutant: a refreshed element keeps its place. *)
TouchedInPlace(p) == IF Cached(p) THEN order ELSE Append(order, p)

(* MoveToBack, or PushBack of a new element. *)
Touched(p) == Append(IF Cached(p) THEN RemoveAt(order, Element(p)) ELSE order, p)

(* Mutant: the element stays in the list. *)
RemoveFromMap(p) ==
  /\ order' = order
  /\ entry' = Restrict(entry, DOMAIN entry \ {p})
  /\ bytes' = bytes - entry[p].size

(* removeElement *)
RemoveElement(p) ==
  /\ order' = RemoveAt(order, Element(p))
  /\ entry' = Restrict(entry, DOMAIN entry \ {p})
  /\ bytes' = bytes - entry[p].size

(* The n elements at the front of a list. *)
Evicted(list, n) == {list[i] : i \in 1 .. n}

(* The bytes that the entries of some paths hold, counted one by one. *)
BytesOf(all, paths) == Cardinality(UNION {{p} \X (1 .. all[p].size) : p \in paths})

(* What the entries that go hold. *)
Freed(list, all, n) == BytesOf(all, Evicted(list, n))

(* Both bounds hold once the first n elements are gone. *)
Within(list, all, total, n) ==
  /\ Capacity = 0 \/ Len(list) - n <= Capacity
  /\ MaxBytes = 0 \/ total - Freed(list, all, n) <= MaxBytes

(* What is left. *)
Kept(list, n) == SubSeq(list, n + 1, Len(list))

(* enforceLimits: least recently used entries go until both bounds hold,   *)
(* or nothing is left.                                                     *)
EnforceLimits(list, all, total) ==
  \E n \in 0 .. Len(list) :
    /\ n = Len(list) \/ Within(list, all, total, n)
    /\ \A k \in 0 .. n - 1 : ~Within(list, all, total, k)
    /\ order' = Kept(list, n)
    /\ entry' = Restrict(all, DOMAIN all \ Evicted(list, n))
    /\ bytes' = total - Freed(list, all, n)

With(p, e) == [q \in DOMAIN entry \cup {p} |-> IF q = p THEN e ELSE entry[q]]

(* Mutant: the refreshed entry is counted on top of the one it replaces. *)
AddedTwice(p, size) == bytes + size

(* Mutant: only the replaced entry is taken off. *)
TakenOff(p, size) == bytes - (IF Cached(p) THEN entry[p].size ELSE size)

(* c.bytes with a new or refreshed entry of the path. *)
Total(p, size) == bytes + size - (IF Cached(p) THEN entry[p].size ELSE 0)

Store(p, e) == EnforceLimits(Touched(p), With(p, e), Total(p, e.size))

-----------------------------------------------------------------------------
(* The operations *)

Unlocked == reading = None

(* A miss or an error: nothing is returned and a cached entry goes.        *)
Fail(p) == IF Cached(p) THEN RemoveElement(p) ELSE UNCHANGED cache

(* The cached body may be returned: the file's time is the one it had.     *)
Fresh(p) == Cached(p) /\ entry[p].time = version[p]

(* Get, up to the Stat: a file that is gone, a fresh entry, or a file that *)
(* has to be read.                                                         *)
GetStat(p) ==
  /\ Unlocked
  /\ \/ /\ ~present[p]
        /\ Fail(p)
        /\ UNCHANGED <<reading, held>>
     \/ /\ present[p] /\ Fresh(p)
        /\ order' = Touched(p)
        /\ held' = [held EXCEPT ![p] = entry[p].body]
        /\ UNCHANGED <<entry, bytes, reading>>
     \/ /\ present[p] /\ ~Fresh(p)
        /\ reading' = [path |-> p, time |-> version[p]]
        /\ UNCHANGED <<cache, held>>
  /\ UNCHANGED files

(* Mutant: the file is read first and its time asked for afterwards. *)
EntryReadFirst(g, body) ==
  [body |-> g.time, time |-> body, size |-> Size[body]]

(* The modification time and the size stored are those of the Stat. *)
EntryOf(g, body) == [body |-> body, time |-> g.time, size |-> Size[g.time]]

(* Get, from the ReadFile on; the file may have changed, or be gone.       *)
GetRead ==
  /\ reading # None
  /\ LET p == reading.path IN
     \/ /\ present[p]
        /\ Store(p, EntryOf(reading, version[p]))
        /\ held' = [held EXCEPT ![p] = version[p]]
     \/ /\ Fail(p)
        /\ UNCHANGED held
  /\ reading' = None
  /\ UNCHANGED files

(* Put of a body the caller got before; a file that is gone has the zero   *)
(* time.                                                                   *)
Put(p) ==
  /\ Unlocked
  /\ held[p] # None
  /\ StalePuts \/ held[p] = version[p]
  /\ Store(p, [body |-> held[p], size |-> Size[held[p]],
               time |-> IF present[p] THEN version[p] ELSE 0])
  /\ UNCHANGED <<files, reading, held>>

Invalidate(p) ==
  /\ Unlocked
  /\ Cached(p)
  /\ RemoveElement(p)
  /\ UNCHANGED <<files, reading, held>>

InvalidateAll ==
  /\ Unlocked
  /\ order' = <<>> /\ entry' = [p \in {} |-> None] /\ bytes' = 0
  /\ UNCHANGED <<files, reading, held>>

-----------------------------------------------------------------------------
(* The files (external): written, also anew, and removed at any time.      *)

Written(p) ==
  /\ version[p] < MaxVersion
  /\ version' = [version EXCEPT ![p] = @ + 1]
  /\ present' = [present EXCEPT ![p] = TRUE]
  /\ UNCHANGED <<cache, reading, held>>

Removed(p) ==
  /\ present[p]
  /\ present' = [present EXCEPT ![p] = FALSE]
  /\ UNCHANGED <<version, cache, reading, held>>

Next ==
  \/ \E p \in Paths : GetStat(p) \/ Put(p) \/ Invalidate(p) \/ Written(p) \/ Removed(p)
  \/ GetRead
  \/ InvalidateAll

Spec == Init /\ [][Next]_vars

-----------------------------------------------------------------------------
(* The list and the map hold the same paths, each once, through refreshes, *)
(* failed reads and evictions (skill_cache.go:91-93, 180-187).             *)
ListMatchesMap == IsInjective(order) /\ Range(order) = DOMAIN entry

(* The byte counter is the sum of the sizes of the entries after any       *)
(* sequence of refreshes, evictions and removals, or the byte bound would  *)
(* evict too much or too little (skill_cache.go:75-78, 122-126, 184).      *)
BytesExact == bytes = BytesOf(entry, DOMAIN entry)

(* Both bounds. *)
LimitsHold == /\ Capacity = 0 \/ Len(order) <= Capacity
              /\ MaxBytes = 0 \/ bytes <= MaxBytes

(* "Entries are invalidated when the underlying file's modTime changes"    *)
(* (skill_cache.go:14-16): an entry that would be returned holds what the  *)
(* file holds, although the time and the body were read in two steps.      *)
Coherent == \A p \in DOMAIN entry : present[p] /\ Fresh(p) => entry[p].body = version[p]

Serves ==
  \A p \in Paths :
    GetStat(p) /\ present[p] /\ reading' = None => held'[p] = version[p]

(* A Get that returns without reading the file returns what the file holds *)
(* (skill_cache.go:53-84).                                                 *)
GetIsCurrent == [][Serves]_vars

(* The path whose entry a step stores or refreshes. *)
Touches(p) == Put(p) \/ (reading # None /\ reading.path = p /\ GetRead)

OldestGoFirst(p) ==
  \A i, j \in DOMAIN order :
    order[i] \in DOMAIN entry' /\ order[j] \notin DOMAIN entry'
      => j < i \/ p \in {order[i], order[j]}

(* The newest entry that left could not have stayed with those that did.   *)
LeavesForNeed(p) ==
  \A i \in DOMAIN order :
    /\ p \in DOMAIN entry' /\ order[i] # p /\ order[i] \notin DOMAIN entry'
    /\ \A j \in i + 1 .. Len(order) : order[j] = p \/ order[j] \in DOMAIN entry'
    => \/ Capacity # 0 /\ Len(order') >= Capacity
       \/ MaxBytes # 0 /\ bytes' + entry[order[i]].size > MaxBytes

NewestStays ==
  GetRead /\ held' # held /\ (MaxBytes = 0 \/ Size[reading.time] <= MaxBytes)
    => order' # <<>> /\ Last(order') = reading.path

(* Entries leave from the old end: of two entries that a step does not     *)
(* touch, the newer one leaves only if the older one does, and none leaves *)
(* that could have stayed.  Both bounds hold afterwards, and a body that   *)
(* fits is in the cache, as the newest: the limits never evict the entry   *)
(* they make room for (skill_cache.go:78-80, 94-95, 189-206).              *)
EvictsOldest ==
  [][/\ \A p \in Paths : Touches(p) => OldestGoFirst(p) /\ LeavesForNeed(p)
     /\ LimitsHold'
     /\ NewestStays]_vars

(* "capped by both entry count and total bytes" (skill_cache.go:14-15):    *)
(* the bodies themselves fit, not only the sizes that were counted.        *)
BodiesFit ==
  MaxBytes # 0 =>
    BytesOf([p \in DOMAIN entry |-> [size |-> Size[entry[p].body]]], DOMAIN entry) <= MaxBytes

(* What makes Coherent inductive: an entry never carries a time its file   *)
(* has not had yet, nor does the Get that is reading.                      *)
Dated ==
  /\ \A p \in DOMAIN entry : entry[p].time <= version[p]
  /\ reading # None => reading.time <= version[reading.path]

Exists == \A p \in Paths : present[p] => version[p] # 0

(* The types, and that a fresh entry is current if callers are.            *)
IInv == EntriesOK /\ Dated /\ Exists /\ (~StalePuts => Coherent)

(* The list, the map and the counter agree: with the types, this needs     *)
(* nothing of the callers.                                                 *)
Listed ==
  /\ order \in Seq(Paths)
  /\ ListMatchesMap

CacheInv == IInv /\ Listed /\ BytesExact /\ LimitsHold
=============================================================================
