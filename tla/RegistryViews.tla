---------------------------- MODULE RegistryViews ----------------------------
(***************************************************************************)
(* What a caller of the broker learns of the registry while others change  *)
(* it: MatchIntent (broker.go, intent/matcher.go), the server catalog      *)
(* (catalog/catalog.go), and the profile that ExportProfile writes and     *)
(* ImportProfile applies, also after a restart (broker.go, profile/).      *)
(* None of them is one critical section: names, entries and fields are     *)
(* read one after the other.                                               *)
(***************************************************************************)
EXTENDS Registry, IntentMatcher

CONSTANTS Reader,   (* the goroutine that asks                             *)
          Label,    (* the server name in a tool's summary; tools found    *)
                    (* over HTTP have None                                 *)
          Given,    (* the configurations that servers are given           *)
          Intents,  (* what MatchIntent is asked for                       *)
          Keys,     (* passphrases                                         *)
          MaxWrites (* bound on the changes others make                    *)

Tools == DOMAIN Label

ASSUME ToolAssumption == ToolLists \subseteq Seq(Tools) /\ None \notin Tools
ASSUME IntentAssumption == Tools \subseteq DOMAIN NameOf /\ Intents \subseteq Seq(Words)

(* Neither environment, which holds the URL of an HTTP server, nor         *)
(* description are exported.                                               *)
Exported(config) == [config EXCEPT !.env = FALSE, !.described = FALSE]

(* What is written out is the configuration of a server as well.           *)
ASSUME GivenAssumption ==
  /\ Given # {} /\ Given \subseteq Configs
  /\ \A c \in Configs : Exported(c) \in Configs

VARIABLES
  query,   \* the locals of the caller
  allowed, \* the servers its role can access
  archive, \* the profile exported last: it survives the broker
  writes,  \* changes made so far
  seen     \* history: what was the case at some time during the query

vars == <<registry, query, allowed, archive, writes, seen>>

Idle == [pc      |-> "idle",
         kind    |-> "none",  \* "match", "catalog", "expand", "export" or "import"
         intent  |-> <<>>,
         listed  |-> {},      \* the statuses List returned: <<name, running>>
         todo    |-> {},      \* names or entries not looked at yet
         name    |-> None,    \* the name in hand, ...
         at      |-> None,    \* its entry ...
         running |-> FALSE,   \* and its status
         rows    |-> {},      \* the catalog or profile so far
         found   |-> <<>>,    \* the tools collected
         best    |-> <<>>]    \* the match, if any

PCs == {"idle", "list", "next", "status", "first", "use", "count", "size",
        "fill", "snap", "register", "match", "done", "panic"}

CatalogRows == [name : Names, running : BOOLEAN, count : Nat]
ProfileRows == [name : Names, running : BOOLEAN, config : Configs, tools : ToolLists]

TypeOK ==
  /\ RegistryTypeOK /\ readers \subseteq {Reader}
  /\ allowed \subseteq Names
  /\ DOMAIN query = DOMAIN Idle /\ query.pc \in PCs
  /\ query.listed \subseteq Names \X BOOLEAN
  /\ query.todo \subseteq Names \cup Entries
  /\ query.name \in Names \cup {None} /\ query.at \in Entries \cup {None}
  /\ query.found \in Seq(Tools \cup {None}) /\ query.best \in Seq(Tools)
  /\ archive.rows \subseteq ProfileRows /\ archive.key \in Keys \cup {None}
  /\ query.rows \subseteq CatalogRows \cup ProfileRows

(* The histories when a query begins. *)
Now(touched) ==
  [was     |-> [n \in Names |-> {slot[n]} \ {None}], \* entries of a name
   states  |-> [e \in Entries |-> {entry[e]}],       \* states of an entry
   stayed  |-> Registered,  \* names registered all the time
   could   |-> allowed,     \* accessible at some time
   always  |-> allowed,     \* accessible all the time
   touched |-> touched]     \* changed by others since the broker started

(* Tools come from their own server, with its label or without one. *)
Offers(n) == {l \in ToolLists : \A i \in DOMAIN l : Label[l[i]] \in {n, None}}

Unused == NewEntry(CHOOSE c \in Given : TRUE)

(* Some servers are registered, run, and have reported tools. *)
Init ==
  /\ slot \in [Names -> Entries \cup {None}]
  /\ \A m, n \in Registered : slot[m] = slot[n] => m = n
  /\ entry \in [Entries -> EntryState]
  /\ \A n \in Registered : entry[slot[n]].config \in Given
                            /\ entry[slot[n]].tools \in Offers(n)
  /\ \A e \in Entries : e \notin {slot[n] : n \in Names} => entry[e] = Unused
  /\ readers = {} /\ allowed \in SUBSET Names
  /\ query = Idle /\ writes = 0
  /\ archive = [rows |-> {}, key |-> None]
  /\ seen = Now(Registered)

-----------------------------------------------------------------------------
(* The others: any operation on a name or on an entry it has, or had when  *)
(* the caller took hold of it.                                             *)
Held == {slot[n] : n \in Registered} \cup (({query.at} \cup query.todo) \cap Entries)

(* A new object is none that anyone may still hold. *)
Fresh == Entries \ (Held \cup UNION {seen.was[n] : n \in Names})

Write(n) ==
  \/ Unregister(n)
  \/ \E e \in Fresh, c \in Given : Register(n, e, c)
  \/ \E e \in Held \cap (seen.was[n] \cup {slot[n]}) :
       \/ \E c \in Given : SetConfig(e, c)
       \/ \E running \in BOOLEAN, l \in Offers(n) : SetRuntime(e, running, l)
       \/ \E l \in Offers(n) : SetTools(e, l)
       \/ ClearRuntime(e)

Observe(names) ==
  seen' = [was     |-> [n \in Names |-> seen.was[n] \cup ({slot'[n]} \ {None})],
           states  |-> [e \in Entries |-> seen.states[e] \cup {entry'[e]}],
           stayed  |-> {n \in seen.stayed : slot'[n] # None},
           could   |-> seen.could \cup allowed',
           always  |-> seen.always \cap allowed',
           touched |-> seen.touched \cup names]

Others ==
  /\ writes < MaxWrites /\ query.pc \notin {"idle", "done", "panic"}
  /\ writes' = writes + 1
  /\ \/ /\ UNCHANGED allowed
        /\ \E n \in Names : Write(n) /\ Observe({n})
     \/ /\ \E n \in Names : allowed' \in {allowed \cup {n}, allowed \ {n}}
        /\ UNCHANGED registry
        /\ Observe({})
  /\ UNCHANGED <<query, archive>>

(* The process ends, at any time, and a new broker has an empty registry.  *)
Restart ==
  /\ archive.rows # {}
  /\ slot' = [n \in Names |-> None]
  /\ entry' = [e \in Entries |-> Unused]
  /\ readers' = {} /\ query' = Idle
  /\ seen' = [Now({}) EXCEPT !.was = [n \in Names |-> {}], !.stayed = {},
                             !.states = [e \in Entries |-> {Unused}]]
  /\ UNCHANGED <<allowed, archive, writes>>

-----------------------------------------------------------------------------
At(pc) == query.pc = pc

(* Bound: one question is asked, or a profile is exported and then         *)
(* imported; the histories begin anew with every query.                    *)
Asks == At("idle") /\ archive.rows = {} /\ seen' = Now(seen.touched)
Reads == UNCHANGED <<registry, allowed, archive, writes, seen>>

(* GetAllTools copies the entries under the registry's lock ... *)
BeginMatch ==
  /\ Asks
  /\ \E i \in Intents :
       query' = [Idle EXCEPT !.pc = "snap", !.kind = "match", !.intent = i,
                             !.todo = {slot[n] : n \in Registered}]
  /\ UNCHANGED <<registry, allowed, archive, writes>>

(* Mutant: the lists are appended, not their elements. *)
SnapLists ==
  /\ At("snap") /\ query.kind = "match"
  /\ \/ \E e \in query.todo :
          query' = [query EXCEPT !.todo = @ \ {e}, !.found = Append(@, entry[e].tools)]
     \/ query.todo = {} /\ query' = [query EXCEPT !.pc = "match"]
  /\ Reads

(* ... and takes a Snapshot of each, in any order. *)
SnapTools ==
  /\ At("snap") /\ query.kind = "match"
  /\ \/ \E e \in query.todo :
          query' = [query EXCEPT !.todo = @ \ {e}, !.found = @ \o entry[e].tools]
     \/ query.todo = {} /\ query' = [query EXCEPT !.pc = "match"]
  /\ Reads

(* Mutant: the tools are not filtered by the role. *)
AnyTool(t) == TRUE

(* The filter asks for the server of the summary, and the matrix lets any  *)
(* role access a server it does not know, such as the empty name.          *)
Accessible(t) == Label[t] = None \/ Label[t] \in allowed

MatchIntent ==
  /\ At("match")
  /\ query' = [query EXCEPT !.pc = "done",
                 !.best = Match(query.intent, Keep(query.found, {t \in Tools : Accessible(t)}))]
  /\ Reads

-----------------------------------------------------------------------------
(* List holds the registry's lock and takes a Snapshot of each entry. *)
BeginList ==
  /\ Asks
  /\ \E kind \in {"catalog", "export"} :
       query' = [Idle EXCEPT !.pc = "list", !.kind = kind, !.todo = Registered]
  /\ RLock(Reader)
  /\ UNCHANGED <<allowed, archive, writes>>

ListOne ==
  /\ At("list")
  /\ \E n \in query.todo :
       query' = [query EXCEPT !.todo = @ \ {n},
                              !.listed = @ \cup {<<n, entry[slot[n]].running>>}]
  /\ Reads

ListEnds ==
  /\ At("list") /\ query.todo = {}
  /\ query' = [query EXCEPT !.pc = "next", !.todo = {s[1] : s \in query.listed}]
  /\ RUnlock(Reader)
  /\ UNCHANGED <<allowed, archive, writes, seen>>

(* Mutant: servers that do not run are skipped as well. *)
SkipsStopped(n) ==
  \/ slot[n] = None \/ ~entry[slot[n]].running
  \/ query.kind = "catalog" /\ n \notin allowed

(* A status is skipped when its name is gone, and by the catalog when the  *)
(* role cannot access it.                                                  *)
Skips(n) == slot[n] = None \/ (query.kind = "catalog" /\ n \notin allowed)

NextStatus ==
  /\ At("next") /\ query.kind # "import"
  /\ \E s \in query.listed :
       /\ s[1] \in query.todo
       /\ query' = IF Skips(s[1]) THEN [query EXCEPT !.todo = @ \ {s[1]}]
                   ELSE [query EXCEPT !.pc = IF query.kind = "catalog" THEN "status" ELSE "snap",
                                      !.todo = @ \ {s[1]}, !.name = s[1],
                                      !.at = slot[s[1]], !.running = s[2]]
  /\ Reads

(* ExportProfile writes the archive, signed if it is given a passphrase. *)
ViewEnds ==
  /\ At("next") /\ query.kind # "import" /\ query.todo = {}
  /\ query' = [query EXCEPT !.pc = "done"]
  /\ IF query.kind = "export"
     THEN \E k \in Keys \cup {None} : archive' = [rows |-> query.rows, key |-> k]
     ELSE UNCHANGED archive
  /\ UNCHANGED <<registry, allowed, writes, seen>>

(* ExpandServer lists the tools of one server. *)
BeginExpand ==
  /\ Asks
  /\ \E n \in Registered :
       query' = [Idle EXCEPT !.pc = "status", !.kind = "expand", !.name = n, !.at = slot[n]]
  /\ UNCHANGED <<registry, allowed, archive, writes>>

(* Like buildSummary it reads the entry without its lock: Process, ... *)
ReadStatus ==
  /\ At("status")
  /\ query' = [query EXCEPT !.pc = IF query.kind = "expand" THEN "size" ELSE "first",
                            !.running = entry[query.at].running]
  /\ Reads

(* ... the number of tools, for which it makes a slice, ... *)
ReadSize ==
  /\ At("size")
  /\ query' = [query EXCEPT !.pc = "fill",
                            !.found = [i \in DOMAIN entry[query.at].tools |-> None]]
  /\ Reads

(* ... and the tools it copies into the slice. *)
FillTools ==
  /\ At("fill")
  /\ LET tools == entry[query.at].tools
     IN  query' = IF Len(tools) > Len(query.found) THEN [query EXCEPT !.pc = "panic"]
                  ELSE [query EXCEPT !.pc = "done", !.found =
                          [i \in DOMAIN @ |-> IF i \in DOMAIN tools THEN tools[i] ELSE @[i]]]
  /\ Reads

(* buildSummary reads, for want of a description, whether there are tools, ... *)
ReadFirst ==
  /\ At("first")
  /\ query' = [query EXCEPT
       !.pc = IF entry[query.at].config.described \/ entry[query.at].tools = NoTools
              THEN "count" ELSE "use"]
  /\ Reads

(* ... the first of them, which may be gone by now, ... *)
UseFirst ==
  /\ At("use")
  /\ query' = [query EXCEPT !.pc = IF entry[query.at].tools = NoTools
                                   THEN "panic" ELSE "count"]
  /\ Reads

Reports(row) == query' = [query EXCEPT !.pc = "next", !.name = None, !.at = None,
                                       !.rows = @ \cup {row}]

(* ... and their number. *)
ReadCount ==
  /\ At("count")
  /\ Reports([name |-> query.name, running |-> query.running,
              count |-> Len(entry[query.at].tools)])
  /\ Reads

(* Mutant: the tools of a server that does not run are left out. *)
RowOfRunning(e) == [name |-> query.name, running |-> query.running,
                    config |-> Exported(entry[e].config),
                    tools |-> IF query.running THEN entry[e].tools ELSE NoTools]

RowOf(e) == [name |-> query.name, running |-> query.running,
             config |-> Exported(entry[e].config), tools |-> entry[e].tools]

(* ExportProfile takes a second Snapshot. *)
SnapEntry ==
  /\ At("snap") /\ query.kind = "export"
  /\ Reports(RowOf(query.at))
  /\ Reads

-----------------------------------------------------------------------------
(* ImportProfile checks the signature of a signed archive ... *)
Verifies(key) == archive.key = None \/ key = archive.key

BeginImport ==
  /\ query.pc \in {"idle", "done"} /\ archive.rows # {}
  /\ seen' = Now(seen.touched)
  /\ \E key \in Keys \cup {None} :
       query' = IF Verifies(key)
                THEN [Idle EXCEPT !.pc = "next", !.kind = "import", !.rows = archive.rows,
                                  !.todo = {row.name : row \in archive.rows}]
                ELSE [Idle EXCEPT !.pc = "done", !.kind = "import"]
  /\ UNCHANGED <<registry, allowed, archive, writes>>

(* ... and skips the names that are registered. *)
Skipped(n) == slot[n] # None

NextImport ==
  /\ At("next") /\ query.kind = "import"
  /\ \/ \E n \in query.todo \cap Names :
          query' = [query EXCEPT !.pc = IF Skipped(n) THEN @ ELSE "register",
                                 !.todo = @ \ {n}, !.name = n]
     \/ query.todo = {} /\ query' = [query EXCEPT !.pc = "done"]
  /\ Reads

(* Mutant: the last server of the archive is left out. *)
TakesOne(config) == config.transport = "stdio" /\ query.todo # {}

(* RegisterServer wants a command.  A stdio server has one; an HTTP server *)
(* has one or not, as its configuration gave it.                           *)
Takes(config) == config.transport = "stdio"

ImportOne ==
  /\ At("register")
  /\ query' = [query EXCEPT !.pc = "next", !.name = None]
  /\ \E row \in query.rows :
       /\ row.name = query.name
       /\ \/ \E e \in Fresh : Register(row.name, e, row.config)
          \/ ~Takes(row.config) /\ UNCHANGED registry
  /\ UNCHANGED <<allowed, archive, writes>>
  /\ Observe({})

-----------------------------------------------------------------------------
Query == \/ BeginMatch \/ SnapTools \/ MatchIntent
         \/ BeginList \/ ListOne \/ ListEnds \/ NextStatus \/ ViewEnds
         \/ BeginExpand \/ ReadStatus \/ ReadSize \/ FillTools
         \/ ReadFirst \/ UseFirst \/ ReadCount \/ SnapEntry
         \/ BeginImport \/ NextImport \/ ImportOne

Next == Query \/ Others \/ Restart

Spec == Init /\ [][Next]_vars

-----------------------------------------------------------------------------
Finished(kinds) == At("done") /\ query.kind \in kinds

(* A row is made of what was true of its name during the query: its        *)
(* configuration and tools of one state of one entry, its status of one,   *)
(* though others overwrite, remove and change entries between the reads    *)
(* (broker.go:769-789, catalog.go:99-206).                                 *)
RowsWereTrue ==
  /\ query.kind = "catalog" =>
       \A row \in query.rows : \E e \in seen.was[row.name] :
         /\ \E s \in seen.states[e] : s.running = row.running
         /\ \E s \in seen.states[e] : Len(s.tools) = row.count
  /\ query.kind = "export" =>
       \A row \in query.rows :
         /\ \E e \in seen.was[row.name] : \E s \in seen.states[e] :
              Exported(s.config) = row.config /\ s.tools = row.tools
         /\ \E e \in seen.was[row.name] : \E s \in seen.states[e] :
              s.running = row.running
  /\ Finished({"expand"}) =>
       \E s \in seen.states[query.at] : Range(query.found) \ {None} = Range(s.tools)

(* The catalog and the profile have a row for every server that was        *)
(* registered, and accessible, all the time, and for none that never was   *)
(* (registry.go:166-185, catalog.go:99-125, broker.go:769-789).            *)
ViewsAreComplete ==
  LET names == {row.name : row \in query.rows}
  IN  /\ Finished({"export"}) => seen.stayed \subseteq names
      /\ Finished({"catalog"}) => seen.stayed \cap seen.always \subseteq names
      /\ Finished({"export", "catalog"}) => \A n \in names : seen.was[n] # {}
      /\ Finished({"catalog"}) => names \subseteq seen.could

(* A tool that was offered all the time, by a server that was accessible   *)
(* all the time.                                                           *)
Steady(t) ==
  \E n \in seen.stayed, e \in Entries :
    /\ seen.was[n] = {e}
    /\ \A s \in seen.states[e] : t \in Range(s.tools)
    /\ Label[t] \in seen.always \cup {None}

(* No steady tool beats the match, and the match is not missed for want of *)
(* a score above the threshold: insertion, limit and threshold do not lose *)
(* it, nor does the order of the servers (matcher.go:44-93).               *)
MatchIsBest ==
  Finished({"match"}) =>
    LET Score(t) == ScoreTool(RemoveStopWords(query.intent), t)
    IN  \A t \in Tools : Steady(t) =>
          IF query.best = <<>> THEN ~AtLeast(Score(t), DefaultThreshold)
                               ELSE AtLeast(Score(query.best[1]), Score(t))

(* A match was offered during the query, by a server that the role could   *)
(* access during it if the tool names its server (broker.go:565-590).      *)
MatchIsAccessible ==
  \A i \in DOMAIN query.best :
    /\ \E n \in Names : \E e \in seen.was[n] : \E s \in seen.states[e] :
         query.best[i] \in Range(s.tools)
    /\ Label[query.best[i]] \in seen.could \cup {None}

(* After an import into a new broker every stdio server of the archive is  *)
(* registered as it was exported, unless others changed it                 *)
(* (broker.go:816-849).                                                    *)
ImportRestores ==
  Finished({"import"}) /\ query.rows = archive.rows =>
    \A row \in archive.rows :
      row.name \notin seen.touched /\ row.config.transport = "stdio" =>
        slot[row.name] # None /\ entry[slot[row.name]].config = row.config

-----------------------------------------------------------------------------
(* What comments say and the code does not do. *)

(* "callers MUST hold Lock/Unlock around read-modify-write sequences, or   *)
(* use Snapshot" (registry.go:17-18): the catalog finds the tool it tested *)
(* for, and the tools it made room for (catalog.go:128-172).               *)
CatalogFindsTools ==
  ~At("panic") /\ (Finished({"expand"}) => None \notin Range(query.found))

(* "only tools from servers accessible to that role are considered"        *)
(* (broker.go:566-567), whatever the transport.                            *)
OnlyAccessibleServers ==
  \A i \in DOMAIN query.best : \E n \in seen.could : \E e \in seen.was[n] :
    \E s \in seen.states[e] : query.best[i] \in Range(s.tools)

(* "If already registered, skip." (broker.go:832)                          *)
ImportSkips ==
  [][\A n \in Names : At("register") /\ ImportOne /\ slot[n] # None
                        => slot'[n] = slot[n]]_vars

(* Profiles capture the "active MCPs and their chosen transports"          *)
(* (profile.go:3): servers over HTTP are restored too.                     *)
EveryServerRestored ==
  Finished({"import"}) /\ query.rows = archive.rows =>
    \A row \in archive.rows : row.name \notin seen.touched => slot[row.name] # None

(* "J(A,B) = |A /\ B| / |A \/ B|" (matcher.go:175).                        *)
SimilarityIsJaccard ==
  \A i \in Intents, t \in Tools :
    LET a == StemTokens(RemoveStopWords(i))
        b == StemTokens(NameOf[t] \o RemoveStopWords(DescOf[t]))
    IN  /\ Intersection(a, b) = Cardinality(Range(a) \cap Range(b))
        /\ UnionSize(a, b) = Cardinality(Range(a) \cup Range(b))
=============================================================================
