------------------------- MODULE RegistryViewsProofs -------------------------
(***************************************************************************)
(* Proofs about RegistryViews: for any number of names, entries, tools and *)
(* changes by others, the rows of a catalog and of a profile were true and *)
(* none is missing that should be there. Then, for any words, what the     *)
(* matcher returns is the best of what it is given, and what MatchIntent   *)
(* returns was offered and accessible.                                     *)
(***************************************************************************)
EXTENDS RegistryViews, SequenceTheorems, FunctionTheorems, FiniteSetTheorems,
        WellFoundedInduction, Integers, TLAPS

(* The locals of the caller are a record with the fields of Idle.          *)
QFields == {"pc", "kind", "intent", "listed", "todo", "name", "at", "running",
            "rows", "found", "best"}
Shape == DOMAIN query = QFields /\ query = [f \in QFields |-> query[f]]

(* So is an entry, and its tools are one of the lists.                     *)
Whole(x) == /\ x = [config |-> x.config, running |-> x.running, tools |-> x.tools]
            /\ x.tools \in ToolLists

WorldOK == /\ slot \in [Names -> Entries \cup {None}]
           /\ DOMAIN entry = Entries /\ entry = [e \in Entries |-> entry[e]]
           /\ \A e \in Entries : Whole(entry[e])

(* The histories hold what is the case now.                                *)
History ==
  /\ \A n \in Names : /\ seen.was[n] \subseteq Entries
                      /\ slot[n] # None => slot[n] \in seen.was[n]
  /\ \A e \in Entries : entry[e] \in seen.states[e]
  /\ seen.stayed \subseteq Registered
  /\ seen.always \subseteq allowed /\ allowed \subseteq seen.could

(* What is asked for at each point.                                        *)
Kinds ==
  /\ query.pc = "match" => query.kind = "match"
  /\ query.pc \in {"size", "fill"} => query.kind = "expand"
  /\ query.pc = "register" => query.kind = "import"
  /\ query.pc = "status" => query.kind \in {"expand", "catalog"}
  /\ query.pc = "list" => query.kind \in {"catalog", "export"}
  /\ query.pc \in {"first", "use", "count"} => query.kind = "catalog"
  /\ query.pc = "snap" => query.kind \in {"match", "export"}
  /\ query.pc = "idle" => query.kind = "none"
  /\ query.pc = "next" => query.kind \in {"catalog", "export", "import"}

Views == {"catalog", "export"}
HasName == {"status", "first", "use", "count", "snap"}

(* Nobody removes a name while the list is made.                           *)
Listing == query.pc = "list" => readers # {} /\ query.todo \subseteq Registered

(* A status, and a row, that was true.                                     *)
WasStatus(n, b) ==
  n \in Names /\ \E e \in seen.was[n] : \E s \in seen.states[e] : s.running = b
WasCatalogRow(row) ==
  /\ row.name \in Names \cap seen.could
  /\ \E e \in seen.was[row.name] :
       /\ \E s \in seen.states[e] : s.running = row.running
       /\ \E s \in seen.states[e] : Len(s.tools) = row.count
WasProfileRow(row) ==
  /\ WasStatus(row.name, row.running)
  /\ \E e \in seen.was[row.name] : \E s \in seen.states[e] :
       Exported(s.config) = row.config /\ s.tools = row.tools

(* Everything a view has collected so far was true.                        *)
Collected ==
  query.kind \in Views =>
    /\ \A s \in query.listed : WasStatus(s[1], s[2])
    /\ query.kind = "catalog" => \A row \in query.rows : WasCatalogRow(row)
    /\ query.kind = "export" => \A row \in query.rows : WasProfileRow(row)

(* The name in hand, its entry and its status.                             *)
InHand ==
  query.kind \in Views /\ query.pc \in HasName =>
    /\ query.at \in Entries /\ query.name \in Names
    /\ query.at \in seen.was[query.name]
    /\ WasStatus(query.name, query.running)
    /\ query.kind = "catalog" => query.name \in seen.could
    /\ query.pc \in {"first", "use", "count"} =>
         \E s \in seen.states[query.at] : s.running = query.running

(* What is still to come, or there.                                        *)
Covered(n) == \/ n \in query.todo \/ \E row \in query.rows : row.name = n
              \/ query.pc \in HasName /\ n = query.name
              \/ query.pc = "list" /\ \E s \in query.listed : s[1] = n

(* The names a view must have.                                             *)
Wanted == IF query.kind = "export" THEN seen.stayed ELSE seen.stayed \cap seen.always

Complete ==
  query.kind \in Views =>
    /\ query.pc # "panic" => \A n \in Wanted : Covered(n)
    /\ query.pc = "done" => query.todo = {}

(* The tools ExpandServer copies.                                          *)
Expansion ==
  query.kind = "expand" =>
    /\ query.at \in Entries
    /\ query.pc = "fill" => query.found \in Seq({None})
    /\ query.pc = "done" => \E s \in seen.states[query.at] :
                              Range(query.found) \ {None} = Range(s.tools)

ViewInv == /\ Shape /\ WorldOK /\ History /\ Kinds /\ Listing
           /\ Collected /\ InHand /\ Complete /\ Expansion

(* What only depends on the locals and the histories.                      *)
Local == Kinds /\ Collected /\ InHand /\ Complete /\ Expansion

(* An idle caller has the fields of Idle.                                  *)
LEMMA IdleShape == ASSUME query' = Idle PROVE Shape'
BY DEF Shape, Idle, QFields

(* An idle caller holds nothing that could be wrong.                       *)
LEMMA IdleLocal == ASSUME query' = Idle PROVE Shape' /\ Local' /\ Listing'
<1>1. query'.pc = "idle" /\ query'.kind = "none"
  BY DEF Idle
<1>2. QED
  BY <1>1, IdleShape DEF Local, Kinds, Collected, InHand, Complete, Expansion, Views, Listing

(* The invariant holds when the broker starts.                             *)
LEMMA ViewInit == Init => ViewInv
<1> SUFFICES ASSUME Init PROVE ViewInv
  OBVIOUS
<1>1. Shape
  BY DEF Init, Shape, Idle, QFields
<1>2. WorldOK
  BY DEF Init, WorldOK, Whole, EntryState
<1>3. History
  BY DEF Init, History, Now, Registered
<1>4. query.pc = "idle" /\ query.kind = "none"
  BY DEF Init, Idle
<1>5. QED
  BY <1>1, <1>2, <1>3, <1>4
  DEF ViewInv, Kinds, Collected, InHand, Complete, Expansion, Views, Listing

(* The histories begin anew. *)
LEMMA NewHistory ==
  ASSUME ViewInv, NEW S, seen' = Now(S), UNCHANGED <<slot, entry, allowed>>
  PROVE  History'
BY DEF ViewInv, WorldOK, History, Now, Registered

(* What others do to the registry is observed. *)
LEMMA Observed ==
  ASSUME ViewInv, NEW S, Observe(S), slot' \in [Names -> Entries \cup {None}]
  PROVE  /\ History'
         /\ \A n \in Names : seen.was[n] \subseteq seen'.was[n]
         /\ \A e \in Entries : seen.states[e] \subseteq seen'.states[e]
         /\ seen'.stayed \subseteq seen.stayed
         /\ seen'.always \subseteq seen.always /\ seen.could \subseteq seen'.could
<1>1. /\ \A n \in Names : seen'.was[n] = seen.was[n] \cup ({slot'[n]} \ {None})
      /\ \A e \in Entries : seen'.states[e] = seen.states[e] \cup {entry'[e]}
      /\ seen'.stayed = {n \in seen.stayed : slot'[n] # None}
      /\ seen'.always = seen.always \cap allowed'
      /\ seen'.could = seen.could \cup allowed'
  BY DEF Observe
<1>2. QED
  BY <1>1 DEF ViewInv, History, Registered

(* Longer histories keep what was true of the locals.                      *)
LEMMA Longer ==
  ASSUME ViewInv, query' = query,
         \A n \in Names : seen.was[n] \subseteq seen'.was[n],
         \A e \in Entries : seen.states[e] \subseteq seen'.states[e],
         seen'.stayed \subseteq seen.stayed,
         seen'.always \subseteq seen.always, seen.could \subseteq seen'.could
  PROVE  Local'
<1>1. Kinds' /\ Expansion'
  BY DEF ViewInv, Kinds, Expansion
<1>2. \A n, b : WasStatus(n, b) => WasStatus(n, b)'
  BY DEF WasStatus, ViewInv, History
<1>3. \A row : WasCatalogRow(row) => WasCatalogRow(row)'
  BY DEF WasCatalogRow, ViewInv, History
<1>4. \A row : WasProfileRow(row) => WasProfileRow(row)'
  BY <1>2 DEF WasProfileRow, WasStatus, ViewInv, History
<1>5. Collected'
  BY <1>2, <1>3, <1>4 DEF ViewInv, Collected
<1>6. InHand'
  BY <1>2 DEF ViewInv, InHand
<1>7. Complete'
  BY DEF ViewInv, Complete, Wanted, Covered
<1>8. QED
  BY <1>1, <1>5, <1>6, <1>7 DEF Local

-----------------------------------------------------------------------------
(* The steps of others.                                                    *)

(* A status or tools set in a whole entry leave it whole.                  *)
LEMMA SetStatus ==
  ASSUME NEW x, Whole(x), NEW b
  PROVE  Whole([x EXCEPT !.running = b])
BY DEF Whole

(* A list set in a whole entry leaves it whole.                            *)
LEMMA SetList ==
  ASSUME NEW x, Whole(x), NEW l \in ToolLists
  PROVE  Whole([x EXCEPT !.tools = l])
BY DEF Whole

(* So do a status and a list set together.                                 *)
LEMMA SetBoth ==
  ASSUME NEW x, Whole(x), NEW b, NEW l \in ToolLists
  PROVE  Whole([x EXCEPT !.running = b, !.tools = l])
<1> DEFINE y == [x EXCEPT !.running = b]
<1>1. Whole(y)
  BY SetStatus
<1> HIDE DEF y
<1>3. Whole([y EXCEPT !.tools = l])
  BY <1>1, SetList
<1>4. QED
  BY <1>3 DEF y

(* An entry replaced by a whole one leaves the registry whole.             *)
LEMMA Rewritten ==
  ASSUME WorldOK, NEW e \in Entries, NEW r, Whole(r),
         entry' = [entry EXCEPT ![e] = r], slot' = slot
  PROVE  WorldOK'
<1>1. \A d \in Entries : entry'[d] = IF d = e THEN r ELSE entry[d]
  BY DEF WorldOK
<1>2. \A d \in Entries : Whole(entry'[d])
  BY <1>1 DEF WorldOK
<1>3. \A d \in Entries : Whole(entry[d])'
  BY <1>2 DEF Whole
<1>4. DOMAIN entry' = Entries /\ entry' = [d \in Entries |-> entry'[d]]
  BY DEF WorldOK
<1>5. QED
  BY <1>3, <1>4 DEF WorldOK

(* A change of the registry leaves entries that are whole.                 *)
LEMMA WriteWorld ==
  ASSUME ViewInv, NEW n \in Names, Write(n)
  PROVE  WorldOK'
<1>1. WorldOK /\ Held \subseteq Entries /\ Fresh \subseteq Entries
  BY DEF ViewInv, WorldOK, Held, Fresh, Registered
<1>2. \A l \in Offers(n) : l \in ToolLists
  BY DEF Offers
<1>3. CASE Unregister(n)
  BY <1>1, <1>3 DEF Unregister, WorldOK
<1>4. ASSUME NEW e \in Fresh, NEW c \in Given, Register(n, e, c)
      PROVE  WorldOK'
  BY <1>1, <1>4, NoToolsAssumption DEF Register, NewEntry, Whole, WorldOK
<1>5. ASSUME NEW e \in Held, NEW c \in Given, SetConfig(e, c)
      PROVE  WorldOK'
  <2> DEFINE r == [entry[e] EXCEPT !.config = c]
  <2>1. Whole(entry[e]) /\ e \in Entries
    BY <1>1 DEF WorldOK
  <2>2. Whole(r)
    BY <2>1 DEF Whole
  <2>3. entry' = [entry EXCEPT ![e] = r] /\ slot' = slot
    BY <1>5 DEF SetConfig
  <2>4. QED
    BY <1>1, <2>1, <2>2, <2>3, Rewritten
<1>6. ASSUME NEW e \in Held, NEW b \in BOOLEAN, NEW l \in Offers(n), SetRuntime(e, b, l)
      PROVE  WorldOK'
  <2> DEFINE r == [entry[e] EXCEPT !.running = b, !.tools = l]
  <2>1. Whole(entry[e]) /\ e \in Entries
    BY <1>1 DEF WorldOK
  <2>2. Whole(r)
    BY <2>1, <1>2, SetBoth
  <2>3. entry' = [entry EXCEPT ![e] = r] /\ slot' = slot
    BY <1>6 DEF SetRuntime
  <2>4. QED
    BY <1>1, <2>1, <2>2, <2>3, Rewritten
<1>7. ASSUME NEW e \in Held, NEW l \in Offers(n), SetTools(e, l)
      PROVE  WorldOK'
  <2> DEFINE r == [entry[e] EXCEPT !.tools = l]
  <2>1. Whole(entry[e]) /\ e \in Entries
    BY <1>1 DEF WorldOK
  <2>2. Whole(r)
    BY <2>1, <1>2 DEF Whole
  <2>3. entry' = [entry EXCEPT ![e] = r] /\ slot' = slot
    BY <1>7 DEF SetTools
  <2>4. QED
    BY <1>1, <2>1, <2>2, <2>3, Rewritten
<1>8. ASSUME NEW e \in Held, ClearRuntime(e)
      PROVE  WorldOK'
  <2> DEFINE r == [entry[e] EXCEPT !.running = FALSE]
  <2>1. Whole(entry[e]) /\ e \in Entries
    BY <1>1 DEF WorldOK
  <2>2. Whole(r)
    BY <2>1, SetStatus
  <2>3. entry' = [entry EXCEPT ![e] = r] /\ slot' = slot
    BY <1>8 DEF ClearRuntime
  <2>4. QED
    BY <1>1, <2>1, <2>2, <2>3, Rewritten
<1>9. QED
  BY <1>3, <1>4, <1>5, <1>6, <1>7, <1>8 DEF Write

(* Names are removed only while nobody holds the registry's lock.          *)
LEMMA WriteNames ==
  ASSUME ViewInv, NEW n \in Names, Write(n)
  PROVE  /\ readers' = readers
         /\ readers # {} => slot' = slot
BY DEF Write, Unregister, Register, SetConfig, SetRuntime, SetTools, ClearRuntime

(* What others do keeps the invariant.                                     *)
LEMMA OthersStep ==
  ASSUME ViewInv, Others
  PROVE  ViewInv'
<1>1. query' = query
  BY DEF Others
<1>2. CASE \E n \in Names : Write(n) /\ Observe({n})
  <2>1. PICK n \in Names : Write(n) /\ Observe({n})
    BY <1>2
  <2>2. WorldOK'
    BY <2>1, WriteWorld
  <2>3. slot' \in [Names -> Entries \cup {None}]
    BY <2>2 DEF WorldOK
  <2>4. History' /\ Local'
    BY <1>1, <2>1, <2>3, Observed, Longer
  <2>5. Shape'
    BY <1>1 DEF ViewInv, Shape
  <2>6. Listing'
    BY <1>1, <2>1, WriteNames DEF ViewInv, Listing, Registered
  <2>7. QED
    BY <2>2, <2>4, <2>5, <2>6 DEF ViewInv, Local
<1>3. CASE UNCHANGED registry /\ Observe({})
  <2>1. slot' = slot /\ entry' = entry /\ readers' = readers
    BY <1>3 DEF registry
  <2>2. WorldOK' /\ slot' \in [Names -> Entries \cup {None}]
    BY <2>1 DEF ViewInv, WorldOK
  <2>3. History' /\ Local'
    BY <1>1, <1>3, <2>2, Observed, Longer
  <2>4. Shape' /\ Listing'
    BY <1>1, <2>1 DEF ViewInv, Shape, Listing, Registered
  <2>5. QED
    BY <2>2, <2>3, <2>4 DEF ViewInv, Local
<1>4. QED
  BY <1>2, <1>3 DEF Others

(* A new broker. *)
LEMMA RestartStep ==
  ASSUME ViewInv, Restart
  PROVE  ViewInv'
<1>1. Shape' /\ Local' /\ Listing'
  BY IdleLocal DEF Restart
<1>2. WorldOK'
  BY NoToolsAssumption DEF Restart, WorldOK, Unused, NewEntry, Whole
<1>3. /\ slot' = [n \in Names |-> None] /\ entry' = [e \in Entries |-> Unused]
      /\ seen'.was = [n \in Names |-> {}] /\ seen'.stayed = {}
      /\ seen'.states = [e \in Entries |-> {Unused}]
      /\ seen'.always = allowed /\ seen'.could = allowed /\ allowed' = allowed
  BY DEF Restart, Now
<1>4. History'
  BY <1>3 DEF History, Registered
<1>5. QED
  BY <1>1, <1>2, <1>4 DEF ViewInv, Local

-----------------------------------------------------------------------------
(* The steps of the caller, for the locals.                                *)
Begun == Shape' /\ Local' /\ Listing'

(* A query of another kind collects nothing.                               *)
LEMMA Elsewhere ==
  ASSUME Shape', Kinds', query'.kind \in {"match", "import", "none"}
  PROVE  Begun
<1>1. query'.kind \notin Views /\ query'.kind # "expand" /\ query'.pc # "list"
  BY DEF Kinds, Views
<1>2. QED
  BY <1>1 DEF Begun, Local, Collected, InHand, Complete, Expansion, Listing

(* MatchIntent collects tools, not rows.                                   *)
LEMMA MatchStep ==
  ASSUME ViewInv, BeginMatch \/ SnapTools \/ MatchIntent
  PROVE  Begun
<1>1. Shape' /\ Kinds' /\ query'.kind = "match"
  <2>1. CASE BeginMatch
    <3>1. PICK i \in Intents :
            query' = [Idle EXCEPT !.pc = "snap", !.kind = "match", !.intent = i,
                                  !.todo = {slot[n] : n \in Registered}]
      BY <2>1 DEF BeginMatch
    <3>2. Shape' /\ query'.kind = "match" /\ query'.pc = "snap"
      BY <3>1 DEF Idle, Shape, QFields
    <3>3. QED
      BY <3>2 DEF Kinds
  <2>2. CASE SnapTools
    BY <2>2 DEF SnapTools, ViewInv, Shape, QFields, Kinds, At
  <2>3. CASE MatchIntent
    BY <2>3 DEF MatchIntent, ViewInv, Shape, QFields, Kinds, At
  <2>4. QED
    BY <2>1, <2>2, <2>3
<1>2. QED
  BY <1>1, Elsewhere

(* Nor does ImportProfile add to the rows.                                 *)
LEMMA ImportStep ==
  ASSUME ViewInv, BeginImport \/ NextImport \/ ImportOne
  PROVE  Begun
<1>1. Shape' /\ Kinds' /\ query'.kind = "import"
  <2>1. CASE BeginImport
    <3>1. PICK key \in Keys \cup {None} :
            query' = IF Verifies(key)
                     THEN [Idle EXCEPT !.pc = "next", !.kind = "import", !.rows = archive.rows,
                                       !.todo = {row.name : row \in archive.rows}]
                     ELSE [Idle EXCEPT !.pc = "done", !.kind = "import"]
      BY <2>1 DEF BeginImport
    <3>2. \/ query' = [Idle EXCEPT !.pc = "next", !.kind = "import", !.rows = archive.rows,
                                    !.todo = {row.name : row \in archive.rows}]
          \/ query' = [Idle EXCEPT !.pc = "done", !.kind = "import"]
      BY <3>1
    <3>3. Shape' /\ query'.kind = "import" /\ query'.pc \in {"next", "done"}
      BY <3>2 DEF Idle, Shape, QFields
    <3>4. QED
      BY <3>3 DEF Kinds
  <2>2. CASE NextImport
    <3>1. /\ query.kind = "import" /\ query.pc = "next"
          /\ \/ \E n \in query.todo \cap Names :
                  query' = [query EXCEPT !.pc = IF Skipped(n) THEN @ ELSE "register",
                                         !.todo = @ \ {n}, !.name = n]
             \/ query' = [query EXCEPT !.pc = "done"]
      BY <2>2 DEF NextImport, At
    <3>2. Shape
      BY DEF ViewInv
    <3>3. /\ Shape' /\ query'.kind = query.kind
          /\ query'.pc \in {query.pc, "register", "done"}
      BY <3>1, <3>2 DEF Shape, QFields
    <3>4. QED
      BY <3>1, <3>3 DEF Kinds
  <2>3. CASE ImportOne
    BY <2>3 DEF ImportOne, ViewInv, Shape, QFields, Kinds, At
  <2>4. QED
    BY <2>1, <2>2, <2>3
<1>2. QED
  BY <1>1, Elsewhere

(* ExpandServer.                                                           *)
LEMMA BeginExpandStep ==
  ASSUME ViewInv, BeginExpand
  PROVE  Begun
<1>1. /\ Shape' /\ query'.kind = "expand" /\ query'.pc = "status"
      /\ \E n \in Registered : query'.at = slot[n]
  BY DEF BeginExpand, Idle, Shape, QFields
<1>2. query'.at \in Entries
  BY <1>1 DEF Registered, ViewInv, WorldOK
<1>3. QED
  BY <1>1, <1>2 DEF Begun, Local, Kinds, Collected, InHand, Complete, Expansion, Listing, Views

(* It reads the status and makes room for the tools there are.             *)
LEMMA ExpandReads ==
  ASSUME ViewInv, query.kind = "expand", ReadStatus \/ ReadSize
  PROVE  Begun
<1>1. /\ Shape' /\ query'.kind = "expand" /\ query'.at = query.at
      /\ query'.pc \in {"size", "fill"}
  BY DEF ViewInv, Shape, QFields, ReadStatus, ReadSize, Kinds, At
<1>2. query'.pc = "fill" => query'.found \in Seq({None})
  <2>1. CASE ReadStatus
    BY <2>1 DEF ViewInv, Shape, QFields, ReadStatus
  <2>2. CASE ReadSize
    <3>1. entry[query.at].tools \in Seq(Tools)
      BY ToolAssumption DEF ViewInv, WorldOK, Whole, Expansion
    <3>2. query'.found = [i \in DOMAIN entry[query.at].tools |-> None]
      BY <2>2 DEF ViewInv, Shape, QFields, ReadSize
    <3>3. QED
      BY <3>1, <3>2
  <2>3. QED
    BY <2>1, <2>2
<1>3. QED
  BY <1>1, <1>2
  DEF ViewInv, Begun, Local, Kinds, Collected, InHand, Complete, Expansion, Listing, Views

(* The copy is the tools of one state of the entry.                        *)
LEMMA Copied ==
  ASSUME NEW tools \in Seq(Tools), NEW room \in Seq({None}), Len(tools) <= Len(room)
  PROVE  Range([i \in DOMAIN room |-> IF i \in DOMAIN tools THEN tools[i] ELSE room[i]])
           \ {None} = Range(tools)
<1> DEFINE copy == [i \in DOMAIN room |-> IF i \in DOMAIN tools THEN tools[i] ELSE room[i]]
<1>1. DOMAIN tools \subseteq DOMAIN room
  OBVIOUS
<1>2. \A i \in DOMAIN room \ DOMAIN tools : room[i] = None
  OBVIOUS
<1>3. \A i \in DOMAIN tools : tools[i] \in Tools /\ tools[i] # None
  BY ToolAssumption
<1>4. Range(copy) \ {None} \subseteq Range(tools)
  BY <1>2 DEF Range
<1>5. Range(tools) \subseteq Range(copy) \ {None}
  BY <1>1, <1>3 DEF Range
<1>6. QED
  BY <1>4, <1>5

(* It copies the tools, or panics.                                         *)
LEMMA FillStep ==
  ASSUME ViewInv, FillTools
  PROVE  Begun
<1> DEFINE tools == entry[query.at].tools
<1>1. query.kind = "expand" /\ query.at \in Entries /\ query.found \in Seq({None})
  BY DEF ViewInv, Kinds, Expansion, FillTools, At
<1>2. tools \in Seq(Tools)
  BY <1>1, ToolAssumption DEF ViewInv, WorldOK, Whole
<1>3. /\ Shape' /\ query'.kind = "expand" /\ query'.at = query.at
      /\ query'.pc \in {"panic", "done"}
  BY <1>1 DEF ViewInv, Shape, QFields, FillTools
<1>4. query'.pc = "done" =>
        /\ Len(tools) <= Len(query.found)
        /\ query'.found = [i \in DOMAIN query.found |->
                             IF i \in DOMAIN tools THEN tools[i] ELSE query.found[i]]
  BY <1>1, <1>2 DEF ViewInv, Shape, QFields, FillTools
<1>5. query'.pc = "done" => Range(query'.found) \ {None} = Range(tools)
  BY <1>1, <1>2, <1>4, Copied
<1>6. entry[query.at] \in seen'.states[query.at]
  BY <1>1 DEF ViewInv, History, FillTools, Reads
<1>7. Expansion'
  BY <1>1, <1>3, <1>5, <1>6 DEF Expansion
<1>8. QED
  BY <1>3, <1>7 DEF Begun, Local, Kinds, Collected, InHand, Complete, Listing, Views

-----------------------------------------------------------------------------
(* The catalog and the profile.                                            *)

(* What was true stays so while the histories do.                          *)
LEMMA Still ==
  ASSUME seen' = seen
  PROVE  /\ \A n, b : WasStatus(n, b) => WasStatus(n, b)'
         /\ \A row : WasCatalogRow(row) => WasCatalogRow(row)'
         /\ \A row : WasProfileRow(row) => WasProfileRow(row)'
BY DEF WasStatus, WasCatalogRow, WasProfileRow

(* List begins with every registered name.                                 *)
LEMMA BeginListStep ==
  ASSUME ViewInv, BeginList
  PROVE  Begun
<1>1. /\ Shape' /\ query'.pc = "list" /\ query'.kind \in Views
      /\ query'.listed = {} /\ query'.rows = {} /\ query'.todo = Registered
  BY DEF BeginList, Idle, Shape, QFields, Views
<1>2. slot' = slot /\ readers' # {} /\ seen'.stayed = Registered
  BY DEF BeginList, RLock, Asks, Now
<1>3. Listing'
  BY <1>1, <1>2 DEF Listing, Registered
<1>4. Complete'
  BY <1>1, <1>2 DEF Complete, Wanted, Covered
<1>5. QED
  BY <1>1, <1>3, <1>4 DEF Begun, Local, Kinds, Collected, InHand, HasName, Expansion, Views

(* A status in the list is one of the moment.                              *)
LEMMA ListOneStep ==
  ASSUME ViewInv, ListOne
  PROVE  Begun
<1>1. PICK n \in query.todo :
        query' = [query EXCEPT !.todo = @ \ {n},
                               !.listed = @ \cup {<<n, entry[slot[n]].running>>}]
  BY DEF ListOne
<1>2. query.pc = "list" /\ query.kind \in Views /\ seen' = seen
      /\ slot' = slot /\ readers' = readers
  BY DEF ListOne, ViewInv, Kinds, Views, At, Reads, registry
<1>3. /\ Shape' /\ query'.pc = "list" /\ query'.kind = query.kind
      /\ query'.todo = query.todo \ {n} /\ query'.rows = query.rows
      /\ query'.listed = query.listed \cup {<<n, entry[slot[n]].running>>}
  BY <1>1, <1>2 DEF ViewInv, Shape, QFields
<1>4. n \in Names /\ slot[n] \in Entries /\ slot[n] \in seen.was[n]
  BY <1>2 DEF ViewInv, Listing, Registered, WorldOK, History
<1>5. WasStatus(n, entry[slot[n]].running)
  BY <1>4 DEF WasStatus, ViewInv, History
<1>6. \A s \in query'.listed : WasStatus(s[1], s[2])
  BY <1>2, <1>3, <1>5 DEF ViewInv, Collected
<1>7. Collected'
  BY <1>2, <1>3, <1>6, Still DEF ViewInv, Collected
<1>8. <<n, entry[slot[n]].running>> \in query'.listed
      /\ <<n, entry[slot[n]].running>>[1] = n
  BY <1>3
<1>9. Complete'
  BY <1>2, <1>3, <1>8 DEF ViewInv, Complete, Wanted, Covered, HasName
<1>10. Listing'
  BY <1>2, <1>3 DEF ViewInv, Listing, Registered
<1>11. QED
  BY <1>2, <1>3, <1>7, <1>9, <1>10 DEF Begun, Local, Kinds, InHand, HasName, Expansion, Views

(* The list names what was registered.                                     *)
LEMMA ListEndsStep ==
  ASSUME ViewInv, ListEnds
  PROVE  Begun
<1>1. query.pc = "list" /\ query.kind \in Views /\ seen' = seen /\ query.todo = {}
  BY DEF ListEnds, ViewInv, Kinds, Views, At
<1>2. /\ Shape' /\ query'.pc = "next" /\ query'.kind = query.kind
      /\ query'.todo = {s[1] : s \in query.listed} /\ query'.rows = query.rows
      /\ query'.listed = query.listed
  BY DEF ListEnds, ViewInv, Shape, QFields
<1>3. Collected'
  BY <1>1, <1>2, Still DEF ViewInv, Collected
<1>4. Complete'
  BY <1>1, <1>2 DEF ViewInv, Complete, Wanted, Covered, HasName
<1>5. QED
  BY <1>1, <1>2, <1>3, <1>4 DEF Begun, Local, Kinds, InHand, HasName, Expansion, Views, Listing

(* A view ends when no name is left.                                       *)
LEMMA ViewEndsStep ==
  ASSUME ViewInv, ViewEnds
  PROVE  Begun
<1>1. query.pc = "next" /\ query.kind # "import" /\ seen' = seen /\ query.todo = {}
  BY DEF ViewEnds, At
<1>2. /\ Shape' /\ query'.pc = "done" /\ query'.kind = query.kind
      /\ query'.todo = {} /\ query'.rows = query.rows
      /\ query'.listed = query.listed
  BY <1>1 DEF ViewEnds, ViewInv, Shape, QFields
<1>3. Collected'
  BY <1>1, <1>2, Still DEF ViewInv, Collected
<1>4. Complete'
  BY <1>1, <1>2 DEF ViewInv, Complete, Wanted, Covered, HasName
<1>5. query.kind # "expand"
  BY <1>1 DEF ViewInv, Kinds
<1>6. QED
  BY <1>1, <1>2, <1>3, <1>4, <1>5 DEF Begun, Local, Kinds, InHand, HasName, Expansion, Views, Listing

(* A name is skipped only if the view may lack it.                         *)
LEMMA NextStatusStep ==
  ASSUME ViewInv, NextStatus
  PROVE  Begun
<1>1. PICK s \in query.listed :
        /\ s[1] \in query.todo
        /\ query' = IF Skips(s[1]) THEN [query EXCEPT !.todo = @ \ {s[1]}]
                    ELSE [query EXCEPT !.pc = IF query.kind = "catalog" THEN "status" ELSE "snap",
                                       !.todo = @ \ {s[1]}, !.name = s[1],
                                       !.at = slot[s[1]], !.running = s[2]]
  BY DEF NextStatus
<1>2. query.pc = "next" /\ query.kind \in Views /\ seen' = seen
  BY DEF NextStatus, ViewInv, Kinds, Views, At, Reads
<1>3. /\ Shape' /\ query'.kind = query.kind
      /\ query'.todo = query.todo \ {s[1]} /\ query'.rows = query.rows
      /\ query'.listed = query.listed
  BY <1>1, <1>2 DEF ViewInv, Shape, QFields
<1>4. Collected'
  BY <1>2, <1>3, Still DEF ViewInv, Collected
<1>5. WasStatus(s[1], s[2])
  BY <1>2 DEF ViewInv, Collected
<1>6. CASE Skips(s[1])
  <2>1. query'.pc = "next"
    BY <1>1, <1>2, <1>6 DEF ViewInv, Shape, QFields
  <2>2. s[1] \notin Wanted
    BY <1>2, <1>6 DEF Skips, Wanted, ViewInv, History, Registered
  <2>3. Complete'
    BY <1>2, <1>3, <2>1, <2>2 DEF ViewInv, Complete, Wanted, Covered, HasName
  <2>4. QED
    BY <1>2, <1>3, <1>4, <2>1, <2>3
    DEF Begun, Local, Kinds, InHand, HasName, Expansion, Views, Listing
<1>7. CASE ~Skips(s[1])
  <2>1. /\ query'.pc = IF query.kind = "catalog" THEN "status" ELSE "snap"
        /\ query'.name = s[1] /\ query'.at = slot[s[1]] /\ query'.running = s[2]
    BY <1>1, <1>2, <1>7 DEF ViewInv, Shape, QFields
  <2>2. /\ s[1] \in Names /\ slot[s[1]] \in Entries /\ slot[s[1]] \in seen.was[s[1]]
        /\ query.kind = "catalog" => s[1] \in seen.could
    BY <1>5, <1>7 DEF Skips, WasStatus, ViewInv, History, WorldOK
  <2>3. InHand'
    BY <1>2, <1>3, <1>5, <2>1, <2>2, Still DEF InHand, HasName, Views
  <2>4. Complete'
    BY <1>2, <1>3, <2>1 DEF ViewInv, Complete, Wanted, Covered, HasName, Views
  <2>5. QED
    BY <1>2, <1>3, <1>4, <2>1, <2>3, <2>4
    DEF Begun, Local, Kinds, Expansion, Views, Listing
<1>8. QED
  BY <1>6, <1>7

(* The catalog reads the status, and whether there is a first tool.        *)
LEMMA CatalogReads ==
  ASSUME ViewInv, query.kind = "catalog", ReadStatus \/ ReadFirst \/ UseFirst
  PROVE  Begun
<1>1. seen' = seen /\ query.pc \in {"status", "first", "use"}
  BY DEF ReadStatus, ReadFirst, UseFirst, Reads, At
<1>2. /\ Shape' /\ query'.kind = "catalog" /\ query'.todo = query.todo
      /\ query'.rows = query.rows /\ query'.listed = query.listed
      /\ query'.name = query.name /\ query'.at = query.at
      /\ query'.pc \in {"first", "use", "count", "panic"}
  BY DEF ReadStatus, ReadFirst, UseFirst, ViewInv, Shape, QFields
<1>3. /\ query.at \in Entries /\ query.name \in Names /\ query.at \in seen.was[query.name]
      /\ query.name \in seen.could /\ WasStatus(query.name, query.running)
      /\ query.pc # "status" => \E s \in seen.states[query.at] : s.running = query.running
  BY <1>1 DEF ViewInv, InHand, Views, HasName
<1>4. /\ \E s \in seen.states[query.at] : s.running = query'.running
      /\ WasStatus(query.name, query'.running)
  <2>1. CASE ReadStatus
    <3>1. query'.running = entry[query.at].running
      BY <2>1 DEF ReadStatus, ViewInv, Shape, QFields
    <3>2. entry[query.at] \in seen.states[query.at]
      BY <1>3 DEF ViewInv, History
    <3>3. QED
      BY <1>3, <3>1, <3>2 DEF WasStatus
  <2>2. CASE ReadFirst \/ UseFirst
    <3>1. query'.running = query.running /\ query.pc # "status"
      BY <2>2 DEF ReadFirst, UseFirst, ViewInv, Shape, QFields, At
    <3>2. QED
      BY <1>3, <3>1
  <2>3. QED
    BY <2>1, <2>2
<1>5. Collected'
  BY <1>1, <1>2, Still DEF ViewInv, Collected, Views
<1>6. InHand'
  BY <1>1, <1>2, <1>3, <1>4, Still DEF InHand, HasName, Views
<1>7. Complete'
  <2>1. query.pc \in HasName
    BY <1>1 DEF HasName
  <2>2. CASE query'.pc \in HasName
    BY <1>1, <1>2, <2>1, <2>2 DEF ViewInv, Complete, Wanted, Covered, HasName, Views
  <2>3. CASE query'.pc = "panic"
    BY <1>1, <1>2, <2>1, <2>3 DEF ViewInv, Complete, Wanted, Covered, HasName, Views
  <2>4. QED
    BY <1>2, <2>2, <2>3 DEF HasName
<1>8. QED
  BY <1>2, <1>5, <1>6, <1>7 DEF Begun, Local, Kinds, Expansion, Views, Listing

(* A row takes the place of the name in hand.                              *)
LEMMA ReportStep ==
  ASSUME ViewInv, NEW row, Reports(row), query.pc \in HasName, query.kind \in Views,
         seen' = seen, row.name = query.name,
         query.kind = "catalog" => WasCatalogRow(row),
         query.kind = "export" => WasProfileRow(row)
  PROVE  Begun
<1>1. /\ Shape' /\ query'.pc = "next" /\ query'.kind = query.kind
      /\ query'.todo = query.todo /\ query'.rows = query.rows \cup {row}
      /\ query'.listed = query.listed
  BY DEF Reports, ViewInv, Shape, QFields
<1>2. Collected'
  BY <1>1, Still DEF ViewInv, Collected
<1>3. Complete'
  BY <1>1 DEF ViewInv, Complete, Wanted, Covered, HasName
<1>4. QED
  BY <1>1, <1>2, <1>3 DEF Begun, Local, Kinds, InHand, HasName, Expansion, Views, Listing

(* A row of the catalog.                                                   *)
LEMMA ReadCountStep ==
  ASSUME ViewInv, ReadCount
  PROVE  Begun
<1> DEFINE row == [name |-> query.name, running |-> query.running,
                   count |-> Len(entry[query.at].tools)]
<1>1. Reports(row) /\ query.pc = "count" /\ query.kind = "catalog" /\ seen' = seen
  BY DEF ReadCount, Reads, At, ViewInv, Kinds
<1>2. /\ query.at \in Entries /\ query.name \in Names \cap seen.could
      /\ query.at \in seen.was[query.name]
      /\ \E s \in seen.states[query.at] : s.running = query.running
      /\ entry[query.at] \in seen.states[query.at]
  BY <1>1 DEF ViewInv, InHand, HasName, Views, History
<1>3. row.name = query.name /\ row.running = query.running
      /\ row.count = Len(entry[query.at].tools)
  OBVIOUS
<1> HIDE DEF row
<1>4. WasCatalogRow(row)
  BY <1>2, <1>3 DEF WasCatalogRow
<1>5. QED
  BY <1>1, <1>3, <1>4, ReportStep DEF HasName, Views

(* A row of the profile.                                                   *)
LEMMA SnapEntryStep ==
  ASSUME ViewInv, SnapEntry
  PROVE  Begun
<1> DEFINE row == RowOf(query.at)
<1>1. Reports(row) /\ query.pc = "snap" /\ query.kind = "export" /\ seen' = seen
  BY DEF SnapEntry, Reads, At
<1>2. /\ query.at \in Entries /\ WasStatus(query.name, query.running)
      /\ query.at \in seen.was[query.name]
      /\ entry[query.at] \in seen.states[query.at]
  BY <1>1 DEF ViewInv, InHand, HasName, Views, History
<1>3. row.name = query.name /\ row.running = query.running
      /\ row.config = Exported(entry[query.at].config)
      /\ row.tools = entry[query.at].tools
  BY DEF RowOf
<1> HIDE DEF row
<1>4. WasProfileRow(row)
  BY <1>2, <1>3 DEF WasProfileRow
<1>5. QED
  BY <1>1, <1>3, <1>4, ReportStep DEF HasName, Views

(* Every step of the caller keeps the local part of the invariant.         *)
LEMMA QueryLocal ==
  ASSUME ViewInv, Query
  PROVE  Begun
<1>1. CASE ReadStatus
  <2>1. query.kind \in {"expand", "catalog"}
    BY <1>1 DEF ReadStatus, At, ViewInv, Kinds
  <2>2. QED
    BY <1>1, <2>1, ExpandReads, CatalogReads
<1>2. CASE ReadSize
  <2>1. query.kind = "expand"
    BY <1>2 DEF ReadSize, At, ViewInv, Kinds
  <2>2. QED
    BY <1>2, <2>1, ExpandReads
<1>3. CASE ReadFirst \/ UseFirst
  <2>1. query.kind = "catalog"
    BY <1>3 DEF ReadFirst, UseFirst, At, ViewInv, Kinds
  <2>2. QED
    BY <1>3, <2>1, CatalogReads
<1>4. QED
  BY <1>1, <1>2, <1>3, MatchStep, ImportStep, BeginExpandStep, FillStep, BeginListStep,
     ListOneStep, ListEndsStep, NextStatusStep, ViewEndsStep, ReadCountStep, SnapEntryStep
  DEF Query

-----------------------------------------------------------------------------
(* The steps of the caller, for the registry and the histories.            *)

(* The histories hold what is the case while nothing changes.              *)
LEMMA Unmoved ==
  ASSUME ViewInv, slot' = slot, entry' = entry, allowed' = allowed, seen' = seen
  PROVE  History'
<1>1. History /\ Registered' = Registered
  BY DEF ViewInv, Registered
<1>2. QED
  BY <1>1 DEF History

(* An imported server is a new entry.                                      *)
LEMMA ImportWorld ==
  ASSUME ViewInv, ImportOne
  PROVE  WorldOK' /\ History'
<1>1. PICK row \in query.rows :
        /\ row.name = query.name
        /\ \/ \E e \in Fresh : Register(row.name, e, row.config)
           \/ ~Takes(row.config) /\ UNCHANGED registry
  BY DEF ImportOne
<1>2. WorldOK'
  <2>1. CASE UNCHANGED registry
    BY <2>1 DEF registry, ViewInv, WorldOK
  <2>2. CASE \E e \in Fresh : Register(row.name, e, row.config)
    <3>1. PICK e \in Entries : Register(row.name, e, row.config)
      BY <2>2 DEF Fresh
    <3>2. QED
      BY <3>1, NoToolsAssumption DEF Register, NewEntry, Whole, ViewInv, WorldOK
  <2>3. QED
    BY <1>1, <2>1, <2>2
<1>3. slot' \in [Names -> Entries \cup {None}] /\ Observe({})
  BY <1>2 DEF WorldOK, ImportOne
<1>4. QED
  BY <1>2, <1>3, Observed

(* Every step of the caller keeps the registry whole and the histories right. *)
LEMMA QueryWorld ==
  ASSUME ViewInv, Query
  PROVE  WorldOK' /\ History'
<1>1. CASE ImportOne
  BY <1>1, ImportWorld
<1>2. CASE Query /\ ~ImportOne
  <2>1. slot' = slot /\ entry' = entry /\ allowed' = allowed
    BY <1>2
    DEF Query, Reads, registry, BeginMatch, SnapTools, MatchIntent, BeginList, RLock, ListOne,
        ListEnds, RUnlock, NextStatus, ViewEnds, BeginExpand, ReadStatus, ReadSize, FillTools,
        ReadFirst, UseFirst, ReadCount, SnapEntry, BeginImport, NextImport
  <2>2. seen' = seen \/ seen' = Now(seen.touched)
    BY <1>2
    DEF Query, Reads, Asks, BeginMatch, SnapTools, MatchIntent, BeginList, ListOne,
        ListEnds, NextStatus, ViewEnds, BeginExpand, ReadStatus, ReadSize, FillTools,
        ReadFirst, UseFirst, ReadCount, SnapEntry, BeginImport, NextImport
  <2>3. WorldOK'
    BY <2>1 DEF ViewInv, WorldOK
  <2>4. CASE seen' = seen
    BY <2>1, <2>3, <2>4, Unmoved
  <2>5. CASE seen' = Now(seen.touched)
    BY <2>1, <2>3, <2>5, NewHistory
  <2>6. QED
    BY <2>2, <2>3, <2>4, <2>5
<1>3. QED
  BY <1>1, <1>2

(* Every step keeps the invariant.                                         *)
LEMMA ViewStep == ViewInv /\ [Next]_vars => ViewInv'
<1>1. ASSUME ViewInv, Query PROVE ViewInv'
  BY <1>1, QueryLocal, QueryWorld DEF ViewInv, Begun, Local
<1>2. ASSUME ViewInv, UNCHANGED vars PROVE ViewInv'
  <2>1. /\ slot' = slot /\ entry' = entry /\ readers' = readers /\ query' = query
        /\ allowed' = allowed /\ seen' = seen
    BY <1>2 DEF vars, registry
  <2>2. Local'
    BY <1>2, <2>1, Longer
  <2>3. Shape' /\ WorldOK' /\ Listing'
    BY <1>2, <2>1 DEF ViewInv, Shape, WorldOK, Listing, Registered
  <2>4. History'
    BY <1>2, <2>1, Unmoved
  <2>5. QED
    BY <2>2, <2>3, <2>4 DEF ViewInv, Local
<1>3. QED
  BY <1>1, <1>2, OthersStep, RestartStep DEF Next

(* So it holds in every state.                                             *)
LEMMA ViewHolds == Spec => []ViewInv
BY ViewInit, ViewStep, PTL DEF Spec

-----------------------------------------------------------------------------
(* RowsWereTrue: for any number of servers and entries, however often      *)
(* others register, remove and change them, each row of a catalog or of a  *)
(* profile, and the tools ExpandServer returns, were true of the name      *)
(* during the query.                                                       *)
THEOREM RowsHold == Spec => []RowsWereTrue
<1>1. ViewInv => RowsWereTrue
  BY DEF ViewInv, Collected, Expansion, RowsWereTrue, WasCatalogRow, WasProfileRow, WasStatus,
         Views, Finished, At
<1>2. QED
  BY <1>1, ViewHolds, PTL

(* ViewsAreComplete: a catalog and a profile have a row for every server   *)
(* that was registered, and accessible, all the time, and for none that    *)
(* never was.                                                              *)
THEOREM ViewsHold == Spec => []ViewsAreComplete
<1>1. ASSUME ViewInv PROVE ViewsAreComplete
  <2> DEFINE names == {row.name : row \in query.rows}
  <2>1. Finished(Views) => \A n \in Wanted : n \in names
    BY <1>1 DEF ViewInv, Complete, Covered, Finished, At, HasName
  <2>2. Finished(Views) => \A n \in names : seen.was[n] # {}
    BY <1>1 DEF ViewInv, Collected, WasCatalogRow, WasProfileRow, WasStatus, Finished, Views
  <2>3. Finished({"catalog"}) => names \subseteq seen.could
    BY <1>1 DEF ViewInv, Collected, WasCatalogRow, Finished, Views
  <2>4. QED
    BY <2>1, <2>2, <2>3 DEF ViewsAreComplete, Wanted, Views, Finished
<1>2. QED
  BY <1>1, ViewHolds, PTL

-----------------------------------------------------------------------------
(* What an import restores.                                                *)

Distinct(rows) == \A r1, r2 \in rows : r1.name = r2.name => r1 = r2

(* No entry has had two names.                                             *)
Apart == \A m, n \in Names : m # n => seen.was[m] \cap seen.was[n] = {}

(* A name that nobody else has changed stands for nothing, or for what an  *)
(* import put there.                                                       *)
Restored(n) == \E row \in archive.rows : row.name = n /\ entry[slot[n]].config = row.config
Untouched == \A n \in Names : n \notin seen.touched => slot[n] = None \/ Restored(n)

(* The archive has one row for a name, and is written once.                *)
Archived ==
  /\ Distinct(archive.rows)
  /\ \A row \in archive.rows : row.name \in Names
  /\ query.kind = "export" /\ query.pc # "done" => archive.rows = {}

(* A name has no row while it is still to be looked at, or in hand.        *)
Exporting ==
  query.kind = "export" =>
    /\ Distinct(query.rows)
    /\ query.pc = "list" => query.rows = {}
    /\ query.pc \in {"next", "snap"} => \A row \in query.rows : row.name \notin query.todo
    /\ query.pc = "snap" => /\ query.name \notin query.todo
                             /\ \A row \in query.rows : row.name # query.name

(* A server of the archive is still to be looked at, in hand, or there.    *)
Pending(n) == \/ n \in query.todo
              \/ query.pc = "register" /\ query.name = n
              \/ slot[n] # None
Importing ==
  query.kind = "import" =>
    /\ query.pc \in {"next", "register"} => query.rows = archive.rows
    /\ query.pc = "done" => query.todo = {}
    /\ query.pc = "register" => query.name \in Names
    /\ query.rows = archive.rows =>
         \A row \in archive.rows :
           row.name \notin seen.touched /\ Takes(row.config) => Pending(row.name)

RestoreInv == ViewInv /\ Apart /\ Untouched /\ Archived /\ Exporting /\ Importing

(* At first there is no archive, and what is registered counts as changed. *)
LEMMA RestoreInit == Init => RestoreInv
<1> SUFFICES ASSUME Init PROVE RestoreInv
  OBVIOUS
<1>1. query.kind = "none" /\ archive.rows = {}
  BY DEF Init, Idle
<1>2. Archived /\ Exporting /\ Importing
  BY <1>1 DEF Archived, Distinct, Exporting, Importing
<1>3. seen.was = [n \in Names |-> {slot[n]} \ {None}] /\ seen.touched = Registered
  BY DEF Init, Now
<1>4. Apart
  <2>1. \A m, n \in Registered : slot[m] = slot[n] => m = n
    BY DEF Init
  <2>2. \A n \in Names : seen.was[n] = {slot[n]} \ {None}
    BY <1>3
  <2>3. QED
    BY <2>1, <2>2 DEF Apart, Registered
<1>5. Untouched
  BY <1>3 DEF Untouched, Registered
<1>6. QED
  BY <1>2, <1>4, <1>5, ViewInit DEF RestoreInv

(* A write to a name leaves the configurations of the other names alone.   *)
LEMMA WriteOther ==
  ASSUME RestoreInv, NEW n \in Names, Write(n), NEW m \in Names, m # n, slot[m] # None
  PROVE  slot'[m] = slot[m] /\ entry'[slot[m]].config = entry[slot[m]].config
<1>1. /\ WorldOK /\ History /\ Apart /\ slot[m] \in seen.was[m] /\ slot[m] \in Held
      /\ slot[m] \in Entries /\ slot[m] \notin seen.was[n] /\ slot[m] # slot[n]
  BY DEF RestoreInv, ViewInv, WorldOK, History, Apart, Held, Registered
<1>2. CASE Unregister(n)
  BY <1>1, <1>2 DEF Unregister, WorldOK
<1>3. CASE \E e \in Fresh, c \in Given : Register(n, e, c)
  BY <1>1, <1>3 DEF Register, Fresh, WorldOK
<1>4. CASE \E e \in Held \cap (seen.was[n] \cup {slot[n]}) :
             \/ \E c \in Given : SetConfig(e, c)
             \/ \E running \in BOOLEAN, l \in Offers(n) : SetRuntime(e, running, l)
             \/ \E l \in Offers(n) : SetTools(e, l)
             \/ ClearRuntime(e)
  <2>1. PICK e \in Held \cap (seen.was[n] \cup {slot[n]}) :
             \/ \E c \in Given : SetConfig(e, c)
             \/ \E running \in BOOLEAN, l \in Offers(n) : SetRuntime(e, running, l)
             \/ \E l \in Offers(n) : SetTools(e, l)
             \/ ClearRuntime(e)
    BY <1>4
  <2>2. e # slot[m]
    BY <1>1
  <2>3. slot' = slot /\ \E r : entry' = [entry EXCEPT ![e] = r]
    BY <2>1 DEF SetConfig, SetRuntime, SetTools, ClearRuntime
  <2>4. entry'[slot[m]] = entry[slot[m]]
    BY <1>1, <2>2, <2>3 DEF WorldOK
  <2>5. QED
    BY <2>3, <2>4
<1>5. QED
  BY <1>2, <1>3, <1>4 DEF Write

(* And gives the name no entry that another one has had.                   *)
LEMMA WriteApart ==
  ASSUME RestoreInv, NEW n \in Names, Write(n), Observe({n})
  PROVE  Apart'
<1>1. \A m \in Names : seen'.was[m] = seen.was[m] \cup ({slot'[m]} \ {None})
  BY DEF Observe
<1>2. \A m \in Names : m # n => slot'[m] = slot[m]
  BY DEF RestoreInv, ViewInv, WorldOK, Write, Unregister, Register, SetConfig, SetRuntime,
         SetTools, ClearRuntime
<1>3. slot'[n] \in {None, slot[n]} \cup Fresh
  BY DEF RestoreInv, ViewInv, WorldOK, Write, Unregister, Register, SetConfig, SetRuntime,
         SetTools, ClearRuntime
<1>4. \A m \in Names : slot[m] # None => slot[m] \in seen.was[m]
  BY DEF RestoreInv, ViewInv, History
<1>5. \A m \in Names : Fresh \cap seen.was[m] = {}
  BY DEF Fresh
<1>6. \A m \in Names : m # n => seen'.was[m] = seen.was[m]
  <2> SUFFICES ASSUME NEW m \in Names, m # n PROVE seen'.was[m] = seen.was[m]
    OBVIOUS
  <2>1. seen'.was[m] = seen.was[m] \cup ({slot[m]} \ {None})
    BY <1>1, <1>2
  <2>2. QED
    BY <1>4, <2>1
<1>7. seen'.was[n] \subseteq seen.was[n] \cup Fresh
  BY <1>1, <1>3, <1>4
<1>8. QED
  BY <1>5, <1>6, <1>7 DEF RestoreInv, Apart

(* What depends on the locals and the archive only.                        *)
LEMMA LocalsKept ==
  ASSUME RestoreInv, query' = query, archive' = archive
  PROVE  Archived' /\ Exporting'
BY DEF RestoreInv, Archived, Exporting

(* Others change names, which then count as changed, or the access.        *)
LEMMA OthersRestore ==
  ASSUME RestoreInv, Others
  PROVE  RestoreInv'
<1>1. query' = query /\ archive' = archive /\ ViewInv'
  BY OthersStep DEF Others, RestoreInv
<1>2. Archived' /\ Exporting'
  BY <1>1, LocalsKept
<1>3. CASE \E n \in Names : Write(n) /\ Observe({n})
  <2>1. PICK n \in Names : Write(n) /\ Observe({n})
    BY <1>3
  <2>2. Apart'
    BY <2>1, WriteApart
  <2>3. seen'.touched = seen.touched \cup {n}
    BY <2>1 DEF Observe
  <2>4. ASSUME NEW m \in Names, m # n, slot[m] = None
        PROVE  slot'[m] = None
    BY <2>1, <2>4 DEF RestoreInv, ViewInv, WorldOK, Write, Unregister, Register, SetConfig,
       SetRuntime, SetTools, ClearRuntime
  <2>5. ASSUME NEW m \in Names, m # n, slot[m] # None
        PROVE  slot'[m] = slot[m] /\ entry'[slot[m]].config = entry[slot[m]].config
    BY <2>1, <2>5, WriteOther
  <2>6. Untouched'
    <3> SUFFICES ASSUME NEW m \in Names, m \notin seen'.touched, slot'[m] # None
                 PROVE  Restored(m)'
      BY DEF Untouched
    <3>1. m # n /\ slot[m] # None /\ Restored(m)
      BY <2>3, <2>4 DEF RestoreInv, Untouched
    <3>2. QED
      BY <1>1, <2>5, <3>1 DEF Restored
  <2>7. Importing'
    <3> SUFFICES ASSUME query.kind = "import", query.rows = archive.rows, NEW row \in archive.rows,
                        row.name \notin seen'.touched, Takes(row.config)
                 PROVE  Pending(row.name)'
      BY <1>1 DEF RestoreInv, Importing
    <3>1. row.name \in Names /\ row.name # n /\ Pending(row.name)
      BY <2>3 DEF RestoreInv, Importing, Archived
    <3>2. QED
      BY <1>1, <2>5, <3>1 DEF Pending
  <2>8. QED
    BY <1>1, <1>2, <2>2, <2>6, <2>7 DEF RestoreInv
<1>4. CASE UNCHANGED registry /\ Observe({})
  <2>1. slot' = slot /\ entry' = entry /\ seen'.touched = seen.touched
    BY <1>4 DEF registry, Observe
  <2>2. \A n \in Names : seen'.was[n] = seen.was[n]
    <3> SUFFICES ASSUME NEW n \in Names PROVE seen'.was[n] = seen.was[n]
      OBVIOUS
    <3>1. seen'.was[n] = seen.was[n] \cup ({slot[n]} \ {None})
      BY <1>4, <2>1 DEF Observe
    <3>2. QED
      BY <3>1 DEF RestoreInv, ViewInv, History
  <2>3. Apart'
    BY <2>2 DEF RestoreInv, Apart
  <2>4. Untouched' /\ Importing'
    BY <1>1, <2>1 DEF RestoreInv, Untouched, Restored, Importing, Pending
  <2>5. QED
    BY <1>1, <1>2, <2>3, <2>4 DEF RestoreInv
<1>5. QED
  BY <1>3, <1>4 DEF Others

(* A new broker has no names, and nobody has changed them.                 *)
LEMMA RestartRestore ==
  ASSUME RestoreInv, Restart
  PROVE  RestoreInv'
<1>1. query'.kind = "none" /\ archive' = archive /\ ViewInv'
  BY RestartStep DEF Restart, RestoreInv, Idle
<1>2. slot' = [n \in Names |-> None] /\ seen'.was = [n \in Names |-> {}]
  BY DEF Restart, Now
<1>3. QED
  BY <1>1, <1>2 DEF RestoreInv, Apart, Untouched, Archived, Exporting, Importing

(* Questions leave the registry, its history and the archive alone.        *)
LEMMA AskingKeeps ==
  ASSUME RestoreInv, slot' = slot, entry' = entry,
         seen' = seen \/ seen' = Now(seen.touched)
  PROVE  /\ Apart' /\ seen'.touched = seen.touched
         /\ archive' = archive \/ archive.rows = {} => Untouched'
<1>1. seen'.touched = seen.touched
  BY DEF Now
<1>2. Apart'
  <2>1. CASE seen' = seen
    BY <2>1 DEF RestoreInv, Apart
  <2>2. CASE seen' = Now(seen.touched)
    <3>1. \A n \in Names : seen'.was[n] = {slot[n]} \ {None}
      BY <2>2 DEF Now
    <3>2. \A n \in Names : slot[n] # None => slot[n] \in seen.was[n]
      BY DEF RestoreInv, ViewInv, History
    <3>3. QED
      BY <3>1, <3>2 DEF RestoreInv, Apart
  <2>3. QED
    BY <2>1, <2>2
<1>3. archive' = archive \/ archive.rows = {} => Untouched'
  BY <1>1 DEF RestoreInv, Untouched, Restored
<1>4. QED
  BY <1>1, <1>2, <1>3

(* Only the export and the import have to do with the archive.             *)
LEMMA OtherKinds ==
  ASSUME RestoreInv, query'.kind \notin {"export", "import"}, archive' = archive
  PROVE  Archived' /\ Exporting' /\ Importing'
BY DEF RestoreInv, Archived, Exporting, Importing

(* The other questions.                                                    *)
LEMMA OtherQuestions ==
  ASSUME RestoreInv,
         \/ BeginMatch \/ SnapTools \/ MatchIntent \/ BeginExpand \/ ReadStatus
         \/ ReadSize \/ FillTools \/ ReadFirst \/ UseFirst \/ ReadCount
  PROVE  Archived' /\ Exporting' /\ Importing'
<1>1. archive' = archive
  BY DEF BeginMatch, SnapTools, MatchIntent, BeginExpand, ReadStatus, ReadSize, FillTools,
         ReadFirst, UseFirst, ReadCount, Reads
<1>2. query'.kind \in {"match", "expand", "catalog"}
  <2>1. CASE BeginMatch \/ BeginExpand
    BY <2>1 DEF BeginMatch, BeginExpand, Idle
  <2>2. CASE SnapTools \/ MatchIntent
    BY <2>2 DEF SnapTools, MatchIntent, RestoreInv, ViewInv, Shape, QFields, Kinds, At
  <2>3. CASE ReadStatus \/ ReadSize \/ ReadFirst \/ UseFirst
    BY <2>3 DEF ReadStatus, ReadSize, ReadFirst, UseFirst, RestoreInv, ViewInv, Shape, QFields,
       Kinds, At
  <2>4. CASE FillTools \/ ReadCount
    BY <2>4 DEF FillTools, ReadCount, Reports, RestoreInv, ViewInv, Shape, QFields, Kinds, At
  <2>5. QED
    BY <2>1, <2>2, <2>3, <2>4
<1>3. QED
  BY <1>1, <1>2, OtherKinds

(* The profile gets one row for a name.                                    *)
LEMMA ExportRestore ==
  ASSUME RestoreInv,
         BeginList \/ ListOne \/ ListEnds \/ NextStatus \/ ViewEnds \/ SnapEntry
  PROVE  Archived' /\ Exporting' /\ Importing'
<1>1. CASE BeginList
  <2>1. /\ query'.kind # "import" /\ query'.pc = "list" /\ query'.rows = {}
        /\ archive' = archive /\ archive.rows = {}
    BY <1>1 DEF BeginList, Asks, Idle
  <2>2. QED
    BY <2>1 DEF Archived, Exporting, Importing, Distinct
<1>2. CASE ListOne \/ ListEnds
  <2>1. /\ query'.kind = query.kind /\ query.kind # "import" /\ query.pc = "list"
        /\ query'.pc \in {"list", "next"} /\ query'.rows = query.rows /\ archive' = archive
    BY <1>2 DEF ListOne, ListEnds, Reads, At, RestoreInv, ViewInv, Kinds, Shape, QFields
  <2>2. QED
    BY <2>1 DEF RestoreInv, Archived, Exporting, Importing
<1>3. CASE NextStatus
  <2>1. PICK s \in query.listed :
          /\ s[1] \in query.todo
          /\ query' = IF Skips(s[1]) THEN [query EXCEPT !.todo = @ \ {s[1]}]
                      ELSE [query EXCEPT !.pc = IF query.kind = "catalog" THEN "status" ELSE "snap",
                                         !.todo = @ \ {s[1]}, !.name = s[1],
                                         !.at = slot[s[1]], !.running = s[2]]
    BY <1>3 DEF NextStatus
  <2>2. query.pc = "next" /\ query.kind # "import" /\ archive' = archive
    BY <1>3 DEF NextStatus, At, Reads
  <2>3. /\ query'.kind = query.kind /\ query'.rows = query.rows
        /\ query'.todo = query.todo \ {s[1]}
        /\ \/ query'.pc = "next"
           \/ query'.pc = "snap" /\ query'.name = s[1]
           \/ query.kind = "catalog"
    BY <2>1, <2>2 DEF RestoreInv, ViewInv, Shape, QFields
  <2>4. QED
    BY <2>1, <2>2, <2>3 DEF RestoreInv, Archived, Exporting, Importing
<1>4. CASE ViewEnds
  <2>1. /\ query'.kind = query.kind /\ query.kind # "import" /\ query.pc = "next"
        /\ query'.pc = "done" /\ query'.rows = query.rows
    BY <1>4 DEF ViewEnds, At, RestoreInv, ViewInv, Shape, QFields
  <2>2. CASE query.kind = "export"
    <3>1. archive'.rows = query.rows
      BY <1>4, <2>2 DEF ViewEnds
    <3>2. \A row \in query.rows : row.name \in Names
      BY <2>2 DEF RestoreInv, ViewInv, Collected, Views, WasProfileRow, WasStatus
    <3>3. QED
      BY <2>1, <2>2, <3>1, <3>2 DEF RestoreInv, Archived, Exporting, Importing
  <2>3. CASE query.kind # "export"
    BY <1>4, <2>1, <2>3, OtherKinds DEF ViewEnds
  <2>4. QED
    BY <2>2, <2>3
<1>5. CASE SnapEntry
  <2> DEFINE row == RowOf(query.at)
  <2>1. /\ query'.kind = "export" /\ query.kind = "export" /\ query.pc = "snap"
        /\ query'.pc = "next" /\ query'.todo = query.todo
        /\ query'.rows = query.rows \cup {row} /\ archive' = archive
    BY <1>5 DEF SnapEntry, Reports, Reads, At, RestoreInv, ViewInv, Shape, QFields
  <2>2. row.name = query.name
    BY DEF RowOf
  <2> HIDE DEF row
  <2>3. QED
    BY <2>1, <2>2 DEF RestoreInv, Archived, Exporting, Importing, Distinct
<1>6. QED
  BY <1>1, <1>2, <1>3, <1>4, <1>5

(* The import looks at every row of the archive.                           *)
LEMMA ImportLocals ==
  ASSUME RestoreInv, BeginImport \/ NextImport
  PROVE  Archived' /\ Exporting' /\ Importing'
<1>1. CASE BeginImport
  <2>1. archive' = archive /\ query'.kind = "import" /\ archive.rows # {}
    BY <1>1 DEF BeginImport, Idle
  <2>2. \/ /\ query'.pc = "next" /\ query'.rows = archive.rows
           /\ query'.todo = {row.name : row \in archive.rows}
        \/ query'.pc = "done" /\ query'.rows = {} /\ query'.todo = {}
    BY <1>1 DEF BeginImport, Idle
  <2>3. QED
    BY <2>1, <2>2 DEF RestoreInv, Archived, Exporting, Importing, Pending
<1>2. CASE NextImport
  <2>1. /\ archive' = archive /\ slot' = slot /\ seen' = seen
        /\ query.pc = "next" /\ query.kind = "import" /\ query.rows = archive.rows
    BY <1>2 DEF NextImport, Reads, registry, At, RestoreInv, Importing
  <2>2. query'.kind = "import" /\ query'.rows = query.rows
    BY <1>2, <2>1 DEF NextImport, RestoreInv, ViewInv, Shape, QFields
  <2>3. CASE \E n \in query.todo \cap Names :
               query' = [query EXCEPT !.pc = IF Skipped(n) THEN @ ELSE "register",
                                      !.todo = @ \ {n}, !.name = n]
    <3>1. PICK n \in query.todo \cap Names :
               query' = [query EXCEPT !.pc = IF Skipped(n) THEN @ ELSE "register",
                                      !.todo = @ \ {n}, !.name = n]
      BY <2>3
    <3>2. /\ query'.todo = query.todo \ {n} /\ query'.name = n
          /\ query'.pc = IF Skipped(n) THEN "next" ELSE "register"
      BY <2>1, <3>1 DEF RestoreInv, ViewInv, Shape, QFields
    <3>3. \A m : Pending(m) => Pending(m)'
      BY <2>1, <3>2 DEF Pending, Skipped
    <3>4. QED
      BY <2>1, <2>2, <3>2, <3>3 DEF RestoreInv, Archived, Exporting, Importing
  <2>4. CASE query.todo = {} /\ query' = [query EXCEPT !.pc = "done"]
    <3>1. query'.todo = {} /\ query'.pc = "done"
      BY <2>4 DEF RestoreInv, ViewInv, Shape, QFields
    <3>2. \A m : Pending(m) => Pending(m)'
      BY <2>1, <2>4 DEF Pending
    <3>3. QED
      BY <2>1, <2>2, <3>1, <3>2 DEF RestoreInv, Archived, Exporting, Importing
  <2>5. QED
    BY <1>2, <2>3, <2>4 DEF NextImport
<1>3. QED
  BY <1>1, <1>2

(* A server of the archive is registered with the configuration it has     *)
(* there, under a new entry.                                               *)
LEMMA ImportOneRestore ==
  ASSUME RestoreInv, ImportOne
  PROVE  Apart' /\ Untouched' /\ Archived' /\ Exporting' /\ Importing'
<1>1. /\ query.pc = "register" /\ query.kind = "import" /\ query.rows = archive.rows
      /\ query.name \in Names /\ archive' = archive /\ Observe({})
  BY DEF ImportOne, At, RestoreInv, ViewInv, Kinds, Importing
<1>2. /\ query'.kind = "import" /\ query'.pc = "next" /\ query'.rows = query.rows
      /\ query'.todo = query.todo
  BY <1>1 DEF ImportOne, RestoreInv, ViewInv, Shape, QFields
<1>3. PICK row \in archive.rows :
        /\ row.name = query.name
        /\ \/ \E e \in Fresh : Register(row.name, e, row.config)
           \/ ~Takes(row.config) /\ UNCHANGED registry
  BY <1>1 DEF ImportOne
<1>4. /\ seen'.touched = seen.touched
      /\ \A n \in Names : seen'.was[n] = seen.was[n] \cup ({slot'[n]} \ {None})
  BY <1>1 DEF Observe
<1>5. /\ slot \in [Names -> Entries \cup {None}]
      /\ \A n \in Names : slot[n] # None => slot[n] \in seen.was[n]
  BY DEF RestoreInv, ViewInv, WorldOK, History
<1>6. Archived' /\ Exporting'
  BY <1>1, <1>2 DEF RestoreInv, Archived, Exporting
<1>7. CASE \E e \in Fresh : Register(row.name, e, row.config)
  <2>1. PICK e \in Fresh : Register(row.name, e, row.config)
    BY <1>7
  <2>2. /\ slot' = [slot EXCEPT ![row.name] = e]
        /\ entry' = [entry EXCEPT ![e] = NewEntry(row.config)]
        /\ e \in Entries /\ e # None /\ row.name \in Names
    BY <1>1, <1>3, <2>1, NoneAssumption DEF Register, Fresh
  <2>3. \A n \in Names : e \notin seen.was[n] /\ (slot[n] # None => slot[n] # e)
    <3>1. \A n \in Names : e \notin seen.was[n]
      BY <2>1 DEF Fresh
    <3>2. QED
      BY <1>5, <3>1
  <2>4. \A n \in Names : seen'.was[n] = IF n = row.name THEN seen.was[n] \cup {e} ELSE seen.was[n]
    <3> SUFFICES ASSUME NEW n \in Names
                 PROVE  seen'.was[n] = IF n = row.name THEN seen.was[n] \cup {e} ELSE seen.was[n]
      OBVIOUS
    <3>1. slot'[n] = IF n = row.name THEN e ELSE slot[n]
      BY <1>5, <2>2
    <3>2. seen'.was[n] = seen.was[n] \cup ({slot'[n]} \ {None})
      BY <1>4
    <3>3. QED
      BY <1>5, <2>2, <3>1, <3>2
  <2>5. Apart'
    <3> SUFFICES ASSUME NEW m \in Names, NEW n \in Names, m # n
                 PROVE  seen'.was[m] \cap seen'.was[n] = {}
      BY DEF Apart
    <3>1. seen.was[m] \cap seen.was[n] = {}
      BY DEF RestoreInv, Apart
    <3>2. CASE m = row.name
      <4>1. seen'.was[m] = seen.was[m] \cup {e} /\ seen'.was[n] = seen.was[n]
        BY <2>4, <3>2
      <4>2. QED
        BY <2>3, <3>1, <4>1
    <3>3. CASE m # row.name
      <4>1. /\ seen'.was[m] = seen.was[m]
            /\ seen'.was[n] = seen.was[n] \/ seen'.was[n] = seen.was[n] \cup {e}
        BY <2>4, <3>3
      <4>2. QED
        BY <2>3, <3>1, <4>1
    <3>4. QED
      BY <3>2, <3>3
  <2>6. entry'[e].config = row.config
    BY <2>2 DEF NewEntry, RestoreInv, ViewInv, WorldOK
  <2>7. Untouched'
    <3> SUFFICES ASSUME NEW n \in Names, n \notin seen.touched, slot'[n] # None
                 PROVE  Restored(n)'
      BY <1>4 DEF Untouched
    <3>1. CASE n = row.name
      BY <1>1, <1>3, <1>5, <2>2, <2>6, <3>1 DEF Restored
    <3>2. CASE n # row.name
      <4>1. slot'[n] = slot[n] /\ slot[n] # e /\ slot[n] # None /\ slot[n] \in Entries
        BY <1>5, <2>2, <2>3, <3>2
      <4>2. entry'[slot[n]] = entry[slot[n]]
        BY <2>2, <4>1 DEF RestoreInv, ViewInv, WorldOK
      <4>3. QED
        BY <1>1, <4>1, <4>2 DEF RestoreInv, Untouched, Restored
    <3>3. QED
      BY <3>1, <3>2
  <2>8. Importing'
    <3> SUFFICES ASSUME NEW r \in archive.rows, r.name \notin seen.touched, Takes(r.config)
                 PROVE  Pending(r.name)'
      BY <1>1, <1>2, <1>4 DEF Importing
    <3>1. r.name \in Names /\ Pending(r.name)
      BY <1>1 DEF RestoreInv, Archived, Importing
    <3>2. slot'[r.name] = IF r.name = row.name THEN e ELSE slot[r.name]
      BY <1>5, <2>2, <3>1
    <3>3. QED
      BY <1>2, <1>3, <2>2, <3>1, <3>2 DEF Pending
  <2>9. QED
    BY <1>6, <2>5, <2>7, <2>8
<1>8. CASE ~Takes(row.config) /\ UNCHANGED registry
  <2>1. slot' = slot /\ entry' = entry
    BY <1>8 DEF registry
  <2>2. \A n \in Names : seen'.was[n] = seen.was[n]
    <3> SUFFICES ASSUME NEW n \in Names PROVE seen'.was[n] = seen.was[n]
      OBVIOUS
    <3>1. seen'.was[n] = seen.was[n] \cup ({slot[n]} \ {None})
      BY <1>4, <2>1
    <3>2. QED
      BY <1>5, <3>1
  <2>3. Apart'
    BY <2>2 DEF RestoreInv, Apart
  <2>4. Untouched'
    BY <1>1, <1>4, <2>1 DEF RestoreInv, Untouched, Restored
  <2>5. Importing'
    <3> SUFFICES ASSUME NEW r \in archive.rows, r.name \notin seen.touched, Takes(r.config)
                 PROVE  Pending(r.name)'
      BY <1>1, <1>2, <1>4 DEF Importing
    <3>1. Pending(r.name)
      BY <1>1 DEF RestoreInv, Importing
    <3>2. r.name # row.name
      BY <1>8 DEF RestoreInv, Archived, Distinct
    <3>3. QED
      BY <1>2, <1>3, <2>1, <3>1, <3>2 DEF Pending
  <2>6. QED
    BY <1>6, <2>3, <2>4, <2>5
<1>9. QED
  BY <1>3, <1>7, <1>8

(* Every step keeps the invariant.                                         *)
LEMMA RestoreStep == RestoreInv /\ [Next]_vars => RestoreInv'
<1> SUFFICES ASSUME RestoreInv, [Next]_vars PROVE RestoreInv'
  OBVIOUS
<1>1. ViewInv'
  BY ViewStep DEF RestoreInv
<1>2. CASE Query /\ ~ImportOne
  <2>1. slot' = slot /\ entry' = entry
    BY <1>2
    DEF Query, Reads, registry, BeginMatch, SnapTools, MatchIntent, BeginList, RLock, ListOne,
        ListEnds, RUnlock, NextStatus, ViewEnds, BeginExpand, ReadStatus, ReadSize, FillTools,
        ReadFirst, UseFirst, ReadCount, SnapEntry, BeginImport, NextImport
  <2>2. seen' = seen \/ seen' = Now(seen.touched)
    BY <1>2
    DEF Query, Reads, Asks, BeginMatch, SnapTools, MatchIntent, BeginList, ListOne,
        ListEnds, NextStatus, ViewEnds, BeginExpand, ReadStatus, ReadSize, FillTools,
        ReadFirst, UseFirst, ReadCount, SnapEntry, BeginImport, NextImport
  <2>3. archive' = archive \/ archive.rows = {}
    <3>1. CASE ViewEnds
      BY <3>1 DEF ViewEnds, At, RestoreInv, Archived
    <3>2. CASE ~ViewEnds
      BY <1>2, <3>2
      DEF Query, Reads, BeginMatch, SnapTools, MatchIntent, BeginList, ListOne,
          ListEnds, NextStatus, BeginExpand, ReadStatus, ReadSize, FillTools,
          ReadFirst, UseFirst, ReadCount, SnapEntry, BeginImport, NextImport
    <3>3. QED
      BY <3>1, <3>2
  <2>4. Apart' /\ Untouched'
    BY <2>1, <2>2, <2>3, AskingKeeps
  <2>5. Archived' /\ Exporting' /\ Importing'
    BY <1>2, OtherQuestions, ExportRestore, ImportLocals DEF Query
  <2>6. QED
    BY <1>1, <2>4, <2>5 DEF RestoreInv
<1>3. CASE ImportOne
  BY <1>1, <1>3, ImportOneRestore DEF RestoreInv
<1>4. CASE UNCHANGED vars
  <2>1. /\ slot' = slot /\ entry' = entry /\ query' = query
        /\ archive' = archive /\ seen' = seen
    BY <1>4 DEF vars, registry
  <2>2. Archived' /\ Exporting' /\ Apart' /\ Untouched'
    BY <2>1, LocalsKept, AskingKeeps
  <2>3. Importing'
    BY <2>1 DEF RestoreInv, Importing, Pending
  <2>4. QED
    BY <1>1, <2>2, <2>3 DEF RestoreInv
<1>5. QED
  BY <1>2, <1>3, <1>4, OthersRestore, RestartRestore DEF Next

(* ImportRestores: for any number of servers and any changes by others,    *)
(* and wherever the broker is restarted, an import that ends has put every *)
(* stdio server of the archive that nobody else changed in its place, with *)
(* the configuration the archive has.                                      *)
THEOREM RestoresServers == Spec => []ImportRestores
<1>1. ASSUME RestoreInv PROVE ImportRestores
  <2> SUFFICES ASSUME query.pc = "done", query.kind = "import", query.rows = archive.rows,
                      NEW row \in archive.rows, row.name \notin seen.touched,
                      row.config.transport = "stdio"
               PROVE  slot[row.name] # None /\ entry[slot[row.name]].config = row.config
    BY DEF ImportRestores, Finished, At
  <2>1. row.name \in Names /\ Takes(row.config)
    BY <1>1 DEF RestoreInv, Archived, Takes
  <2>2. slot[row.name] # None
    BY <1>1, <2>1 DEF RestoreInv, Importing, Pending
  <2>3. Restored(row.name)
    BY <1>1, <2>1, <2>2 DEF RestoreInv, Untouched
  <2>4. QED
    BY <1>1, <2>2, <2>3 DEF RestoreInv, Archived, Distinct, Restored
<1>2. QED
  BY <1>1, RestoreInit, RestoreStep, PTL DEF Spec

-----------------------------------------------------------------------------
(* Induction and recursion                                                 *)

(* A set of numbers with 0 and the successor of each of its members has    *)
(* every natural number: a least one that it has not could not exist.      *)
LEMMA SetInduction ==
  ASSUME NEW S, 0 \in S, \A n \in Nat : n \in S => n + 1 \in S
  PROVE  Nat \subseteq S
<1> DEFINE R == OpToRel(<, Nat)
           T == Nat \ S
<1>1. IsWellFoundedOn(R, Nat)
  BY NatLessThanWellFounded, Zenon
<1>2. \A x, y \in Nat : x < y => <<x, y>> \in R
  BY DEF OpToRel
<1> HIDE DEF R
<1> SUFFICES ASSUME T # {} PROVE FALSE
  OBVIOUS
<1>3. T \subseteq Nat
  OBVIOUS
<1>4. PICK m \in T : \A y \in T : ~ (<<y, m>> \in R)
  BY <1>1, <1>3, WFMin
<1>5. m \in Nat /\ m # 0
  OBVIOUS
<1>6. m - 1 \in Nat /\ m - 1 < m /\ (m - 1) + 1 = m
  BY <1>5
<1>7. m - 1 \notin T
  BY <1>2, <1>4, <1>5, <1>6
<1>8. QED
  BY <1>6, <1>7

(* A recursion along a sequence has a solution: it is extended by one      *)
(* value at a time.                                                        *)
Solution(out, A, base, Step, n) ==
  /\ out \in [0 .. n -> A] /\ out[0] = base
  /\ \A i \in 1 .. n : out[i] = Step[<<i, out[i - 1]>>]

(* A recursion over 1 .. n has a solution: the induction builds one that   *)
(* is one longer.                                                          *)
LEMMA RecursionExists ==
  ASSUME NEW A, NEW base \in A, NEW n \in Nat, NEW Step, Step \in [(1 .. n) \X A -> A]
  PROVE  \E out : Solution(out, A, base, Step, n)
<1> DEFINE Solves(out, m) == Solution(out, A, base, Step, m)
           G == {m \in Nat : m <= n => \E out : Solves(out, m)}
<1>1. 0 \in G
  <2>1. Solves([i \in 0 .. 0 |-> base], 0)
    BY DEF Solution
  <2>2. QED
    BY <2>1
<1>2. ASSUME NEW m \in Nat, m \in G PROVE m + 1 \in G
  <2> SUFFICES ASSUME m + 1 <= n PROVE \E out : Solves(out, m + 1)
    OBVIOUS
  <2>1. PICK out : Solves(out, m)
    BY <1>2
  <2> DEFINE last == Step[<<m + 1, out[m]>>]
             more == [i \in 0 .. m + 1 |-> IF i = m + 1 THEN last ELSE out[i]]
  <2>2. out[m] \in A /\ m + 1 \in 1 .. n
    BY <2>1 DEF Solution
  <2>3. last \in A
    BY <2>2
  <2> HIDE DEF last
  <2>4. more \in [0 .. m + 1 -> A] /\ more[0] = base /\ more[m + 1] = last
    BY <2>1, <2>3 DEF Solution
  <2>5. \A i \in 0 .. m : more[i] = out[i]
    OBVIOUS
  <2> HIDE DEF more
  <2>6. ASSUME NEW i \in 1 .. m + 1 PROVE more[i] = Step[<<i, more[i - 1]>>]
    <3>1. CASE i = m + 1
      <4>1. i - 1 = m /\ m \in 0 .. m
        BY <3>1
      <4>2. more[i - 1] = out[m]
        BY <2>5, <4>1
      <4>3. QED
        BY <2>4, <3>1, <4>2 DEF last
    <3>2. CASE i # m + 1
      <4>1. i \in 1 .. m /\ i \in 0 .. m /\ i - 1 \in 0 .. m
        BY <3>2
      <4>2. QED
        BY <2>1, <2>5, <4>1 DEF Solution
    <3>3. QED
      BY <3>1, <3>2
  <2>7. QED
    BY <2>4, <2>6 DEF Solution
<1>3. Nat \subseteq G
  <2> HIDE DEF G
  <2>1. QED
    BY <1>1, <1>2, SetInduction
<1>4. QED
  BY <1>3

-----------------------------------------------------------------------------
(* The matcher *)

(* kept[i] is what is kept of the first i elements.                        *)
Keeps(kept, seq, set) ==
  kept = [i \in 0 .. Len(seq) |->
            IF i = 0 THEN <<>>
            ELSE IF seq[i] \in set THEN Append(kept[i - 1], seq[i]) ELSE kept[i - 1]]

(* What Keep returns is the last value of such a recursion.                *)
LEMMA KeepLast ==
  ASSUME NEW A, NEW seq \in Seq(A), NEW set
  PROVE  \E kept : Keeps(kept, seq, set) /\ Keep(seq, set) = kept[Len(seq)]
<1> DEFINE n == Len(seq)
           Step == [p \in (1 .. n) \X Seq(A) |->
                      IF seq[p[1]] \in set THEN Append(p[2], seq[p[1]]) ELSE p[2]]
<1>1. n \in Nat /\ <<>> \in Seq(A)
  OBVIOUS
<1>2. Step \in [(1 .. n) \X Seq(A) -> Seq(A)]
  OBVIOUS
<1>3. \A i \in 1 .. n, s \in Seq(A) :
        Step[<<i, s>>] = IF seq[i] \in set THEN Append(s, seq[i]) ELSE s
  OBVIOUS
<1> HIDE DEF Step
<1>4. PICK kept \in [0 .. n -> Seq(A)] :
        kept[0] = <<>> /\ \A i \in 1 .. n : kept[i] = Step[<<i, kept[i - 1]>>]
  <2> DEFINE B == Seq(A)
  <2>1. <<>> \in B /\ n \in Nat /\ Step \in [(1 .. n) \X B -> B]
    BY <1>1, <1>2
  <2> HIDE DEF B, n
  <2>2. \E out : Solution(out, B, <<>>, Step, n)
    BY <2>1, RecursionExists, Zenon
  <2>3. QED
    BY <2>2 DEF B, Solution
<1>5. \A i \in 0 .. n :
        kept[i] = IF i = 0 THEN <<>>
                  ELSE IF seq[i] \in set THEN Append(kept[i - 1], seq[i]) ELSE kept[i - 1]
  <2>1. ASSUME NEW i \in 1 .. n
        PROVE  kept[i] = IF seq[i] \in set THEN Append(kept[i - 1], seq[i]) ELSE kept[i - 1]
    <3>1. i - 1 \in 0 .. n
      OBVIOUS
    <3>2. QED
      BY <1>3, <1>4, <3>1
  <2>2. \A i \in 0 .. n : i = 0 \/ (i # 0 /\ i \in 1 .. n)
    OBVIOUS
  <2>3. QED
    BY <1>4, <2>1, <2>2
<1>6. kept = [i \in 0 .. n |-> kept[i]]
  OBVIOUS
<1>7. Keeps(kept, seq, set)
  BY <1>5, <1>6 DEF Keeps
<1>8. QED
  BY <1>7, Zenon DEF Keep, Keeps

(* The copy has the elements that pass the test, and no others.            *)
LEMMA Kept ==
  ASSUME NEW A, NEW seq \in Seq(A), NEW set
  PROVE  /\ Keep(seq, set) \in Seq(A)
         /\ Range(Keep(seq, set)) = Range(seq) \cap set
<1> DEFINE n == Len(seq)
<1>1. PICK kept : Keeps(kept, seq, set) /\ Keep(seq, set) = kept[n]
  BY KeepLast
<1>2. /\ kept[0] = <<>>
      /\ \A i \in Nat : i + 1 <= n =>
           kept[i + 1] = IF seq[i + 1] \in set THEN Append(kept[i], seq[i + 1]) ELSE kept[i]
  <2>1. kept[0] = <<>>
    BY <1>1 DEF Keeps
  <2>2. ASSUME NEW i \in Nat, i + 1 <= n
        PROVE  kept[i + 1] = IF seq[i + 1] \in set THEN Append(kept[i], seq[i + 1]) ELSE kept[i]
    <3>1. i + 1 \in 0 .. n /\ i + 1 # 0 /\ (i + 1) - 1 = i
      BY <2>2
    <3>2. QED
      BY <1>1, <3>1 DEF Keeps
  <2>3. QED
    BY <2>1, <2>2
<1> DEFINE Right(i) == /\ kept[i] \in Seq(A)
                       /\ Range(kept[i]) = {seq[j] : j \in 1 .. i} \cap set
           G == {i \in Nat : i <= n => Right(i)}
<1>3. 0 \in G
  <2>1. Range(<<>>) = {} /\ <<>> \in Seq(A)
    BY DEF Range
  <2>2. 1 .. 0 = {}
    OBVIOUS
  <2>3. QED
    BY <1>2, <2>1, <2>2
<1>4. ASSUME NEW i \in Nat, i \in G PROVE i + 1 \in G
  <2> SUFFICES ASSUME i + 1 <= n PROVE Right(i + 1)
    OBVIOUS
  <2>1. Right(i)
    BY <1>4
  <2>2. seq[i + 1] \in A
    OBVIOUS
  <2>3. {seq[j] : j \in 1 .. i + 1} = {seq[j] : j \in 1 .. i} \cup {seq[i + 1]}
    OBVIOUS
  <2>4. \A s \in Seq(A), x \in A : Append(s, x) \in Seq(A) /\ Range(Append(s, x)) = Range(s) \cup {x}
    <3> SUFFICES ASSUME NEW s \in Seq(A), NEW x \in A
                 PROVE  Range(Append(s, x)) = Range(s) \cup {x}
      OBVIOUS
    <3>1. /\ DOMAIN Append(s, x) = 1 .. Len(s) + 1 /\ DOMAIN s = 1 .. Len(s) /\ Len(s) \in Nat
          /\ Append(s, x)[Len(s) + 1] = x
          /\ \A j \in 1 .. Len(s) : Append(s, x)[j] = s[j]
      OBVIOUS
    <3>2. \A j \in 1 .. Len(s) + 1 : j \in 1 .. Len(s) \/ j = Len(s) + 1
      BY <3>1
    <3>3. \A j \in 1 .. Len(s) : j \in 1 .. Len(s) + 1
      BY <3>1
    <3>4. Len(s) + 1 \in 1 .. Len(s) + 1
      BY <3>1
    <3>5. QED
      BY <3>1, <3>2, <3>3, <3>4 DEF Range
  <2>5. kept[i + 1] = IF seq[i + 1] \in set THEN Append(kept[i], seq[i + 1]) ELSE kept[i]
    BY <1>2
  <2>6. CASE seq[i + 1] \in set
    <3>1. /\ kept[i + 1] \in Seq(A)
          /\ Range(kept[i + 1]) = Range(kept[i]) \cup {seq[i + 1]}
      BY <2>1, <2>2, <2>4, <2>5, <2>6
    <3>2. QED
      BY <2>1, <2>3, <2>6, <3>1
  <2>7. CASE seq[i + 1] \notin set
    BY <2>1, <2>3, <2>5, <2>7
  <2>8. QED
    BY <2>6, <2>7
<1> HIDE DEF G
<1>5. Nat \subseteq G
  BY <1>3, <1>4, SetInduction
<1>6. Right(n)
  <2>1. n \in Nat /\ n <= n
    OBVIOUS
  <2>2. n \in G
    BY <1>5, <2>1
  <2> HIDE DEF Right, n
  <2>3. QED
    BY <2>1, <2>2 DEF G
<1>7. Range(seq) = {seq[j] : j \in 1 .. n}
  BY DEF Range
<1>8. QED
  BY <1>1, <1>6, <1>7

(* A text has finitely many words.                                         *)
LEMMA RangeFinite ==
  ASSUME NEW A, NEW seq \in Seq(A)
  PROVE  IsFiniteSet(Range(seq)) /\ IsFiniteSet(DOMAIN seq) /\ Cardinality(DOMAIN seq) = Len(seq)
<1>1. DOMAIN seq = 1 .. Len(seq) /\ Len(seq) \in Nat /\ seq \in [1 .. Len(seq) -> A]
  OBVIOUS
<1>2. IsFiniteSet(1 .. Len(seq)) /\ Cardinality(1 .. Len(seq)) = Len(seq)
  BY <1>1, FS_Interval
<1>3. seq \in Surjection(1 .. Len(seq), Range(seq))
  BY <1>1, Fun_RangeProperties
<1>4. QED
  BY <1>1, <1>2, <1>3, FS_Surjection

(* Scores are fractions.                                                   *)
Fractions == Nat \X (Nat \ {0})

(* Some token is left, unless there is none.                               *)
LEMMA StopWordsRemoved ==
  ASSUME NEW tokens \in Seq(Words)
  PROVE  RemoveStopWords(tokens) \in Seq(Words) /\ (RemoveStopWords(tokens) = <<>> => tokens = <<>>)
<1>1. Keep(tokens, Range(tokens) \ StopWords) \in Seq(Words)
  BY Kept
<1>2. QED
  BY <1>1 DEF RemoveStopWords

(* The two counts of jaccardSimilarity: the divisor is not 0 when tokens   *)
(* are shared.                                                             *)
LEMMA IntersectionType ==
  ASSUME NEW A, NEW a \in Seq(A), NEW b \in Seq(A)
  PROVE  /\ Intersection(a, b) \in 0 .. Len(b)
         /\ UnionSize(a, b) \in Nat
         /\ Intersection(a, b) # 0 => UnionSize(a, b) # 0
         /\ a = <<>> => Intersection(a, b) = 0
<1> DEFINE I == {i \in DOMAIN b : b[i] \in Range(a)}
<1>1. /\ IsFiniteSet(Range(a)) /\ IsFiniteSet(DOMAIN b) /\ Cardinality(DOMAIN b) = Len(b)
      /\ Len(b) \in Nat
  BY RangeFinite
<1>2. IsFiniteSet(I) /\ Cardinality(I) <= Len(b)
  BY <1>1, FS_Subset
<1>3. Cardinality(I) \in Nat /\ Cardinality(Range(a)) \in Nat
  BY <1>1, <1>2, FS_CardinalityType
<1>4. Cardinality(I) # 0 => Range(a) # {}
  BY FS_EmptySet
<1>5. Range(a) # {} => Cardinality(Range(a)) # 0
  BY <1>1, FS_EmptySet
<1>6. a = <<>> => Range(a) = {}
  BY DEF Range
<1>7. Intersection(a, b) = Cardinality(I)
  BY DEF Intersection
<1> HIDE DEF I
<1>8. UnionSize(a, b) = Cardinality(Range(a)) + Len(b) - Cardinality(I)
  BY <1>7 DEF UnionSize
<1>9. QED
  BY <1>1, <1>2, <1>3, <1>4, <1>5, <1>6, <1>7, <1>8

(* The matches of the name are counted.                                    *)
LEMMA NameMatchesType ==
  ASSUME NEW A, NEW tokens \in Seq(A), NEW name
  PROVE  NameMatches(tokens, name) \in Nat
<1> DEFINE Exact == {i \in DOMAIN tokens : tokens[i] \in Range(name)}
<1>1. IsFiniteSet(DOMAIN tokens)
  BY RangeFinite
<1>2. IsFiniteSet(Exact)
  BY <1>1, FS_Subset
<1>3. Cardinality(Exact) \in Nat
  BY <1>2, FS_CardinalityType
<1> HIDE DEF Exact
<1>4. \E k \in {0, 1} : NameMatches(tokens, name) = Cardinality(Exact) + k
  BY Zenon DEF NameMatches, Exact
<1>5. QED
  BY <1>3, <1>4

(* A score is a fraction, and 0 for no tokens.                             *)
LEMMA ScoreType ==
  ASSUME NEW tokens \in Seq(Words), NEW tool \in DOMAIN NameOf
  PROVE  /\ ScoreTool(tokens, tool) \in Fractions
         /\ tokens = <<>> => ScoreTool(tokens, tool) = <<0, 1>>
<1> DEFINE a == StemTokens(tokens)
           b == StemTokens(NameOf[tool] \o RemoveStopWords(DescOf[tool]))
           S == {Stem[w] : w \in Words}
           i == Intersection(a, b)
           u == UnionSize(a, b)
           m == NameMatches(tokens, NameOf[tool])
           s == <<20 * i + u * m, 20 * u>>
<1>1. \A text \in Seq(Words) : StemTokens(text) \in Seq(S) /\ Len(StemTokens(text)) = Len(text)
  BY DEF StemTokens
<1>2. NameOf[tool] \in Seq(Words) /\ RemoveStopWords(DescOf[tool]) \in Seq(Words)
  BY WordAssumption, StopWordsRemoved
<1>3. a \in Seq(S) /\ b \in Seq(S) /\ (tokens = <<>> => a = <<>>)
  <2>1. NameOf[tool] \o RemoveStopWords(DescOf[tool]) \in Seq(Words)
    BY <1>2
  <2>2. a \in Seq(S) /\ b \in Seq(S) /\ Len(a) = Len(tokens)
    BY <1>1, <2>1
  <2>3. QED
    BY <2>2
<1>4. m \in Nat
  BY NameMatchesType
<1>5. ScoreTool(tokens, tool) = IF i = 0 THEN <<0, 1>> ELSE IF AtLeast(s, <<1, 1>>) THEN <<1, 1>> ELSE s
  BY DEF ScoreTool
<1> HIDE DEF a, b, S
<1>6. i \in Nat /\ u \in Nat /\ (i # 0 => u # 0) /\ (a = <<>> => i = 0)
  <2>1. /\ i \in 0 .. Len(b) /\ u \in Nat /\ (i # 0 => u # 0) /\ (a = <<>> => i = 0)
    BY <1>3, IntersectionType
  <2>2. Len(b) \in Nat
    BY <1>3
  <2>3. QED
    BY <2>1, <2>2
<1> HIDE DEF i, u, m
<1>7. i # 0 => s \in Fractions
  <2>1. u * m \in Nat
    BY <1>4, <1>6
  <2>2. QED
    BY <1>6, <2>1 DEF Fractions
<1>8. <<0, 1>> \in Fractions /\ <<1, 1>> \in Fractions
  BY DEF Fractions
<1>9. QED
  BY <1>3, <1>5, <1>6, <1>7, <1>8

(* Scores are ordered, and none is below 0.                                *)
LEMMA AtLeastOrder ==
  ASSUME NEW x \in Fractions, NEW y \in Fractions, NEW z \in Fractions
  PROVE  /\ AtLeast(x, x)
         /\ AtLeast(x, y) \/ AtLeast(y, x)
         /\ AtLeast(x, y) /\ AtLeast(y, z) => AtLeast(x, z)
         /\ y[1] = 0 => AtLeast(x, y)
<1>1. /\ x[1] \in Nat /\ y[1] \in Nat /\ z[1] \in Nat
      /\ x[2] \in Nat /\ y[2] \in Nat /\ z[2] \in Nat /\ x[2] > 0 /\ y[2] > 0 /\ z[2] > 0
  BY DEF Fractions
<1>2. \A a, b, c, d, e, f \in Nat :
        b > 0 /\ d > 0 /\ f > 0 /\ a * d >= c * b /\ c * f >= e * d => a * f >= e * b
  <2> SUFFICES ASSUME NEW a \in Nat, NEW b \in Nat, NEW c \in Nat, NEW d \in Nat,
                      NEW e \in Nat, NEW f \in Nat, b > 0, d > 0, f > 0,
                      a * d >= c * b, c * f >= e * d
               PROVE  a * f >= e * b
    OBVIOUS
  <2>1. (a * d) * f >= (c * b) * f
    OBVIOUS
  <2>2. (c * f) * b >= (e * d) * b
    OBVIOUS
  <2>3. (a * f) * d >= (e * b) * d
    BY <2>1, <2>2
  <2>4. QED
    BY <2>3
<1>3. AtLeast(x, y) /\ AtLeast(y, z) => AtLeast(x, z)
  BY <1>1, <1>2 DEF AtLeast
<1>4. AtLeast(x, x) /\ (AtLeast(x, y) \/ AtLeast(y, x)) /\ (y[1] = 0 => AtLeast(x, y))
  BY <1>1 DEF AtLeast
<1>5. QED
  BY <1>3, <1>4

(* An element inserted into a sequence.                                    *)
LEMMA Inserted ==
  ASSUME NEW A, NEW s \in Seq(A), NEW e \in A, NEW p \in 1 .. Len(s) + 1
  PROVE  /\ InsertAt(s, p, e) \in Seq(A)
         /\ Len(InsertAt(s, p, e)) = Len(s) + 1
         /\ InsertAt(s, p, e)[p] = e
         /\ \A j \in 1 .. p - 1 : InsertAt(s, p, e)[j] = s[j]
         /\ \A j \in p + 1 .. Len(s) + 1 : InsertAt(s, p, e)[j] = s[j - 1]
<1> DEFINE front == SubSeq(s, 1, p - 1)
           back == SubSeq(s, p, Len(s))
           mid == front \o <<e>>
<1>1. Len(s) \in Nat /\ p \in Nat
  OBVIOUS
<1>2. /\ front \in Seq(A) /\ Len(front) = p - 1
      /\ \A j \in 1 .. p - 1 : front[j] = s[j]
  OBVIOUS
<1>3. /\ back \in Seq(A) /\ Len(back) = Len(s) - p + 1
      /\ \A j \in 1 .. Len(s) - p + 1 : back[j] = s[p + j - 1]
  OBVIOUS
<1> HIDE DEF front, back
<1>4. /\ mid \in Seq(A) /\ Len(mid) = p /\ mid[p] = e
      /\ \A j \in 1 .. p - 1 : mid[j] = s[j]
  BY <1>1, <1>2
<1>5. InsertAt(s, p, e) = mid \o back
  BY DEF InsertAt, front, back
<1> HIDE DEF mid
<1>6. /\ mid \o back \in Seq(A) /\ Len(mid \o back) = Len(s) + 1
      /\ \A j \in 1 .. p : (mid \o back)[j] = mid[j]
      /\ \A j \in p + 1 .. Len(s) + 1 : (mid \o back)[j] = back[j - p]
  BY <1>1, <1>3, <1>4
<1>7. \A j \in p + 1 .. Len(s) + 1 : (mid \o back)[j] = s[j - 1]
  <2> SUFFICES ASSUME NEW j \in p + 1 .. Len(s) + 1 PROVE back[j - p] = s[j - 1]
    BY <1>6
  <2>1. j - p \in 1 .. Len(s) - p + 1 /\ p + (j - p) - 1 = j - 1
    BY <1>1
  <2>2. QED
    BY <1>3, <2>1
<1>8. \A j \in 1 .. p - 1 : j \in 1 .. p
  BY <1>1
<1>9. p \in 1 .. p
  BY <1>1
<1>10. QED
  BY <1>4, <1>5, <1>6, <1>7, <1>8, <1>9

(* The numbers that a test which stays false lets pass are the first ones, *)
(* as many as they are.                                                    *)
LEMMA FirstOnes ==
  ASSUME NEW n \in Nat, NEW I, I \subseteq 1 .. n, \A j \in I : 1 .. j \subseteq I
  PROVE  I = 1 .. Cardinality(I)
<1> DEFINE H == {m \in Nat : 1 .. m \subseteq I}
<1>1. 0 \in H
  OBVIOUS
<1>2. n + 1 \notin H
  <2>1. n + 1 \in 1 .. n + 1 /\ n + 1 \notin 1 .. n
    OBVIOUS
  <2>2. QED
    BY <2>1
<1>3. \E m \in Nat : m \in H /\ m + 1 \notin H
  <2>1. n + 1 \in Nat
    OBVIOUS
  <2> HIDE DEF H
  <2>2. CASE \A m \in Nat : m \in H => m + 1 \in H
    BY <1>1, <1>2, <2>1, <2>2, SetInduction
  <2>3. QED
    BY <2>2
<1>4. PICK m \in Nat : m \in H /\ m + 1 \notin H
  BY <1>3
<1>5. m + 1 \notin I
  <2>1. \A i \in 1 .. m + 1 : i \in 1 .. m \/ i = m + 1
    OBVIOUS
  <2>2. QED
    BY <1>4, <2>1
<1>6. I = 1 .. m
  <2>1. ASSUME NEW j \in I PROVE j \in 1 .. m
    <3>1. j \in Nat /\ j >= 1
      OBVIOUS
    <3>2. CASE j > m
      <4>1. m + 1 \in 1 .. j
        BY <3>1, <3>2
      <4>2. QED
        BY <1>5, <4>1
    <3>3. QED
      BY <3>1, <3>2
  <2>2. QED
    BY <1>4, <2>1
<1>7. Cardinality(1 .. m) = m
  <2>1. Cardinality(1 .. m) = IF 1 > m THEN 0 ELSE m - 1 + 1
    BY FS_Interval
  <2>2. QED
    BY <2>1
<1>8. QED
  BY <1>6, <1>7

(* A list in the order of its scores, the best first.                      *)
Descending(tokens, s) ==
  \A j, k \in DOMAIN s :
    j <= k => AtLeast(ScoreTool(tokens, s[j]), ScoreTool(tokens, s[k]))

(* A match that moves up past those with a lower score stops behind all    *)
(* that have its score or a higher one: the order is kept.                 *)
LEMMA Placed ==
  ASSUME NEW tokens \in Seq(Words), NEW A, A \subseteq DOMAIN NameOf,
         NEW s \in Seq(A), NEW t \in A
  PROVE  /\ Place(tokens, s, t) \in Seq(A)
         /\ Range(Place(tokens, s, t)) = Range(s) \cup {t}
         /\ Descending(tokens, s) => Descending(tokens, Place(tokens, s, t))
<1> DEFINE Score(x) == ScoreTool(tokens, x)
           I == {i \in DOMAIN s : NotBelow(Score(s[i]), Score(t))}
           p == 1 + Cardinality(I)
           r == InsertAt(s, p, t)
<1>1. IsFiniteSet(DOMAIN s) /\ Cardinality(DOMAIN s) = Len(s) /\ Len(s) \in Nat
  BY RangeFinite
<1>2. IsFiniteSet(I) /\ Cardinality(I) <= Len(s)
  BY <1>1, FS_Subset
<1>3. Cardinality(I) \in Nat /\ (Cardinality(I) = 0 <=> I = {})
  BY <1>2, FS_CardinalityType, FS_EmptySet
<1>4. p \in 1 .. Len(s) + 1
  BY <1>1, <1>2, <1>3
<1>5. Place(tokens, s, t) = r
  BY DEF Place
<1>6. \A x \in A : Score(x) \in Fractions
  BY ScoreType
<1>7. I = {i \in DOMAIN s : AtLeast(Score(s[i]), Score(t))}
  BY DEF NotBelow
<1>8. DOMAIN s = 1 .. Len(s) /\ \A i \in 1 .. Len(s) : s[i] \in A
  OBVIOUS
<1>9. p - 1 = Cardinality(I)
  BY <1>3
<1> HIDE DEF I, p, Score
<1>10. /\ r \in Seq(A) /\ Len(r) = Len(s) + 1 /\ r[p] = t
       /\ \A j \in 1 .. p - 1 : r[j] = s[j]
       /\ \A j \in p + 1 .. Len(s) + 1 : r[j] = s[j - 1]
  BY <1>4, Inserted
<1> HIDE DEF r
<1>11. DOMAIN r = 1 .. Len(s) + 1
  BY <1>10
<1>12. \A j \in DOMAIN r : r[j] = t \/ \E i \in DOMAIN s : r[j] = s[i]
  <2> SUFFICES ASSUME NEW j \in 1 .. Len(s) + 1
               PROVE  r[j] = t \/ \E i \in 1 .. Len(s) : r[j] = s[i]
    BY <1>8, <1>11
  <2>1. CASE j \in 1 .. p - 1
    <3>1. j \in 1 .. Len(s)
      BY <1>1, <1>4, <2>1
    <3>2. QED
      BY <1>10, <2>1, <3>1
  <2>2. CASE j \in p + 1 .. Len(s) + 1
    <3>1. j - 1 \in 1 .. Len(s)
      BY <1>1, <1>4, <2>2
    <3>2. QED
      BY <1>10, <2>2, <3>1
  <2>3. CASE j = p
    BY <1>10, <2>3
  <2>4. QED
    BY <1>1, <1>4, <2>1, <2>2, <2>3
<1>13. \A i \in DOMAIN s : \E j \in DOMAIN r : r[j] = s[i]
  <2> SUFFICES ASSUME NEW i \in 1 .. Len(s) PROVE \E j \in 1 .. Len(s) + 1 : r[j] = s[i]
    BY <1>8, <1>11
  <2>1. CASE i < p
    <3>1. i \in 1 .. p - 1 /\ i \in 1 .. Len(s) + 1
      BY <1>1, <1>4, <2>1
    <3>2. QED
      BY <1>10, <3>1
  <2>2. CASE i >= p
    <3>1. i + 1 \in p + 1 .. Len(s) + 1 /\ i + 1 \in 1 .. Len(s) + 1 /\ (i + 1) - 1 = i
      BY <1>1, <1>4, <2>2
    <3>2. QED
      BY <1>10, <3>1
  <2>3. QED
    BY <1>4, <2>1, <2>2
<1>14. Range(r) = Range(s) \cup {t}
  BY <1>4, <1>10, <1>11, <1>12, <1>13 DEF Range
<1>15. ASSUME Descending(tokens, s), NEW j \in DOMAIN r, NEW k \in DOMAIN r, j <= k
       PROVE  AtLeast(Score(r[j]), Score(r[k]))
  <2>1. \A a, b \in 1 .. Len(s) : a <= b => AtLeast(Score(s[a]), Score(s[b]))
    BY <1>8, <1>15 DEF Descending, Score
  <2>2. I = 1 .. p - 1
    <3>1. ASSUME NEW b \in I, NEW a \in 1 .. b PROVE a \in I
      <4>1. b \in 1 .. Len(s) /\ a \in 1 .. Len(s) /\ a <= b
        BY <1>1, <1>7, <1>8
      <4>2. AtLeast(Score(s[a]), Score(s[b])) /\ AtLeast(Score(s[b]), Score(t))
        BY <1>7, <2>1, <4>1
      <4>3. s[a] \in A /\ s[b] \in A
        BY <1>8, <4>1
      <4>4. AtLeast(Score(s[a]), Score(t))
        BY <1>6, <4>2, <4>3, AtLeastOrder
      <4>5. QED
        BY <1>7, <1>8, <4>1, <4>4
    <3>2. I \subseteq 1 .. Len(s)
      BY <1>7, <1>8
    <3>3. QED
      BY <1>1, <1>9, <3>1, <3>2, FirstOnes
  <2>3. \A a \in 1 .. Len(s) : IF a < p THEN AtLeast(Score(s[a]), Score(t))
                                        ELSE AtLeast(Score(t), Score(s[a]))
    <3> SUFFICES ASSUME NEW a \in 1 .. Len(s)
                 PROVE  IF a < p THEN AtLeast(Score(s[a]), Score(t))
                                 ELSE AtLeast(Score(t), Score(s[a]))
      OBVIOUS
    <3>1. a < p <=> a \in I
      BY <1>1, <1>4, <2>2
    <3>2. a \in I <=> AtLeast(Score(s[a]), Score(t))
      BY <1>7, <1>8
    <3>3. AtLeast(Score(s[a]), Score(t)) \/ AtLeast(Score(t), Score(s[a]))
      BY <1>6, <1>8, AtLeastOrder
    <3>4. QED
      BY <3>1, <3>2, <3>3
  <2>4. AtLeast(Score(t), Score(t))
    BY <1>6, AtLeastOrder
  <2>5. j \in 1 .. Len(s) + 1 /\ k \in 1 .. Len(s) + 1
    BY <1>11
  <2>6. CASE k < p
    <3>1. j \in 1 .. p - 1 /\ k \in 1 .. p - 1 /\ j \in 1 .. Len(s) /\ k \in 1 .. Len(s)
      BY <1>1, <1>4, <1>15, <2>5, <2>6
    <3>2. QED
      BY <1>10, <1>15, <2>1, <3>1
  <2>7. CASE k = p
    <3>1. CASE j = p
      BY <1>10, <2>4, <2>7, <3>1
    <3>2. CASE j # p
      <4>1. j \in 1 .. p - 1 /\ j \in 1 .. Len(s) /\ j < p
        BY <1>1, <1>4, <1>15, <2>5, <2>7, <3>2
      <4>2. QED
        BY <1>10, <2>3, <2>7, <4>1
    <3>3. QED
      BY <3>1, <3>2
  <2>8. CASE k > p
    <3>1. /\ k \in p + 1 .. Len(s) + 1 /\ k - 1 \in 1 .. Len(s) /\ ~(k - 1 < p)
      BY <1>1, <1>4, <2>5, <2>8
    <3>2. r[k] = s[k - 1]
      BY <1>10, <3>1
    <3>3. CASE j < p
      <4>1. j \in 1 .. p - 1 /\ j \in 1 .. Len(s) /\ j <= k - 1
        BY <1>1, <1>4, <2>5, <2>8, <3>3
      <4>2. QED
        BY <1>10, <2>1, <3>1, <3>2, <4>1
    <3>4. CASE j = p
      BY <1>10, <2>3, <3>1, <3>2, <3>4
    <3>5. CASE j > p
      <4>1. j \in p + 1 .. Len(s) + 1 /\ j - 1 \in 1 .. Len(s) /\ j - 1 <= k - 1
        BY <1>1, <1>4, <1>15, <2>5, <3>5
      <4>2. QED
        BY <1>10, <2>1, <3>1, <3>2, <4>1
    <3>6. QED
      BY <1>4, <2>5, <3>3, <3>4, <3>5
  <2>9. QED
    BY <1>4, <2>5, <2>6, <2>7, <2>8
<1>16. Descending(tokens, s) => Descending(tokens, r)
  BY <1>15 DEF Descending, Score
<1>17. QED
  BY <1>5, <1>10, <1>14, <1>16

(* sorted[i] is the insertion of the first i tools that have a score.      *)
Sorts(sorted, tokens, tools) ==
  sorted = [i \in 0 .. Len(tools) |->
              IF i = 0 THEN <<>>
              ELSE IF ScoreTool(tokens, tools[i])[1] > 0
                   THEN Place(tokens, sorted[i - 1], tools[i]) ELSE sorted[i - 1]]

(* What Ranked returns is the last value of such a recursion.              *)
LEMMA RankedLast ==
  ASSUME NEW tokens \in Seq(Words), NEW A, A \subseteq DOMAIN NameOf, NEW tools \in Seq(A)
  PROVE  \E sorted : Sorts(sorted, tokens, tools) /\ Ranked(tokens, tools) = sorted[Len(tools)]
<1> DEFINE n == Len(tools)
           Scored(i) == ScoreTool(tokens, tools[i])[1] > 0
           Step == [p \in (1 .. n) \X Seq(A) |->
                      IF Scored(p[1]) THEN Place(tokens, p[2], tools[p[1]]) ELSE p[2]]
<1>1. n \in Nat /\ <<>> \in Seq(A)
  OBVIOUS
<1>2. \A i \in 1 .. n, s \in Seq(A) : Place(tokens, s, tools[i]) \in Seq(A)
  <2>1. \A i \in 1 .. n : tools[i] \in A
    OBVIOUS
  <2>2. QED
    BY <2>1, Placed
<1> HIDE DEF Scored
<1>3. Step \in [(1 .. n) \X Seq(A) -> Seq(A)]
  BY <1>2
<1>4. \A i \in 1 .. n, s \in Seq(A) :
        Step[<<i, s>>] = IF Scored(i) THEN Place(tokens, s, tools[i]) ELSE s
  OBVIOUS
<1> HIDE DEF Step
<1>5. PICK sorted \in [0 .. n -> Seq(A)] :
        sorted[0] = <<>> /\ \A i \in 1 .. n : sorted[i] = Step[<<i, sorted[i - 1]>>]
  <2> DEFINE B == Seq(A)
  <2>1. <<>> \in B /\ n \in Nat /\ Step \in [(1 .. n) \X B -> B]
    BY <1>1, <1>3
  <2> HIDE DEF B, n
  <2>2. \E out : Solution(out, B, <<>>, Step, n)
    BY <2>1, RecursionExists, Zenon
  <2>3. QED
    BY <2>2 DEF B, Solution
<1>6. \A i \in 0 .. n :
        sorted[i] = IF i = 0 THEN <<>>
                    ELSE IF Scored(i) THEN Place(tokens, sorted[i - 1], tools[i])
                    ELSE sorted[i - 1]
  <2>1. ASSUME NEW i \in 1 .. n
        PROVE  sorted[i] = IF Scored(i) THEN Place(tokens, sorted[i - 1], tools[i])
                           ELSE sorted[i - 1]
    <3>1. i - 1 \in 0 .. n
      OBVIOUS
    <3>2. QED
      BY <1>4, <1>5, <3>1
  <2>2. \A i \in 0 .. n : i = 0 \/ (i # 0 /\ i \in 1 .. n)
    OBVIOUS
  <2>3. QED
    BY <1>5, <2>1, <2>2
<1>7. sorted = [i \in 0 .. n |-> sorted[i]]
  OBVIOUS
<1>8. Sorts(sorted, tokens, tools)
  BY <1>6, <1>7 DEF Sorts, Scored
<1>9. QED
  BY <1>8, Zenon DEF Ranked, Sorts

(* The insertion has every tool with a score, the best first.              *)
LEMMA RankedBest ==
  ASSUME NEW tokens \in Seq(Words), NEW A, A \subseteq DOMAIN NameOf, NEW tools \in Seq(A)
  PROVE  /\ Ranked(tokens, tools) \in Seq(A)
         /\ Range(Ranked(tokens, tools)) =
              {t \in Range(tools) : ScoreTool(tokens, t)[1] > 0}
         /\ Descending(tokens, Ranked(tokens, tools))
<1> DEFINE n == Len(tools)
           Scored(t) == ScoreTool(tokens, t)[1] > 0
<1>1. PICK sorted : Sorts(sorted, tokens, tools) /\ Ranked(tokens, tools) = sorted[n]
  BY RankedLast
<1>2. /\ sorted[0] = <<>>
      /\ \A i \in Nat : i + 1 <= n =>
           sorted[i + 1] = IF Scored(tools[i + 1]) THEN Place(tokens, sorted[i], tools[i + 1])
                           ELSE sorted[i]
  <2>1. sorted[0] = <<>>
    BY <1>1 DEF Sorts
  <2>2. ASSUME NEW i \in Nat, i + 1 <= n
        PROVE  sorted[i + 1] = IF Scored(tools[i + 1])
                               THEN Place(tokens, sorted[i], tools[i + 1]) ELSE sorted[i]
    <3>1. i + 1 \in 0 .. n /\ i + 1 # 0 /\ (i + 1) - 1 = i
      BY <2>2
    <3>2. QED
      BY <1>1, <3>1 DEF Sorts
  <2>3. QED
    BY <2>1, <2>2
<1> HIDE DEF Scored
<1> DEFINE Right(i) == /\ sorted[i] \in Seq(A)
                       /\ Range(sorted[i]) = {t \in {tools[j] : j \in 1 .. i} : Scored(t)}
                       /\ Descending(tokens, sorted[i])
           G == {i \in Nat : i <= n => Right(i)}
<1>3. 0 \in G
  <2>1. Range(<<>>) = {} /\ <<>> \in Seq(A) /\ Descending(tokens, <<>>)
    BY DEF Range, Descending
  <2>2. 1 .. 0 = {}
    OBVIOUS
  <2>3. QED
    BY <1>2, <2>1, <2>2
<1>4. ASSUME NEW i \in Nat, i \in G PROVE i + 1 \in G
  <2> SUFFICES ASSUME i + 1 <= n PROVE Right(i + 1)
    OBVIOUS
  <2>1. Right(i)
    BY <1>4
  <2>2. tools[i + 1] \in A
    OBVIOUS
  <2>3. {tools[j] : j \in 1 .. i + 1} = {tools[j] : j \in 1 .. i} \cup {tools[i + 1]}
    OBVIOUS
  <2>4. sorted[i + 1] = IF Scored(tools[i + 1]) THEN Place(tokens, sorted[i], tools[i + 1])
                        ELSE sorted[i]
    BY <1>2
  <2>5. CASE Scored(tools[i + 1])
    <3>1. /\ sorted[i + 1] \in Seq(A)
          /\ Range(sorted[i + 1]) = Range(sorted[i]) \cup {tools[i + 1]}
          /\ Descending(tokens, sorted[i + 1])
      <4>1. sorted[i + 1] = Place(tokens, sorted[i], tools[i + 1])
        BY <2>4, <2>5
      <4>2. sorted[i] \in Seq(A) /\ Descending(tokens, sorted[i])
        BY <2>1
      <4> DEFINE s == sorted[i]
                 t == tools[i + 1]
      <4>3. s \in Seq(A) /\ t \in A /\ Descending(tokens, s)
        BY <2>2, <4>2
      <4> HIDE DEF s, t
      <4>4. /\ Place(tokens, s, t) \in Seq(A)
            /\ Range(Place(tokens, s, t)) = Range(s) \cup {t}
            /\ Descending(tokens, Place(tokens, s, t))
        BY <4>3, Placed
      <4>5. QED
        BY <4>1, <4>4 DEF s, t
    <3>2. QED
      BY <2>1, <2>3, <2>5, <3>1
  <2>6. CASE ~Scored(tools[i + 1])
    BY <2>1, <2>3, <2>4, <2>6
  <2>7. QED
    BY <2>5, <2>6
<1> HIDE DEF G
<1>5. Nat \subseteq G
  BY <1>3, <1>4, SetInduction
<1>6. Right(n)
  <2>1. n \in Nat /\ n <= n
    OBVIOUS
  <2>2. n \in G
    BY <1>5, <2>1
  <2> HIDE DEF Right, n
  <2>3. QED
    BY <2>1, <2>2 DEF G
<1>7. Range(tools) = {tools[j] : j \in 1 .. n}
  BY DEF Range
<1>8. QED
  BY <1>1, <1>6, <1>7 DEF Scored

(* MatchAll returns "all tools matching the intent, sorted by score        *)
(* descending, up to the given limit" (matcher.go:60-62): a tool with a    *)
(* score is missing only when there are limit others that it does not      *)
(* beat.                                                                   *)
THEOREM AllMatches ==
  ASSUME NEW intent \in Seq(Words), NEW A, A \subseteq DOMAIN NameOf, NEW tools \in Seq(A),
         NEW limit \in Nat
  PROVE  LET tokens == RemoveStopWords(intent)
             all == MatchAll(intent, tools, limit)
         IN  /\ all \in Seq(A) /\ Range(all) \subseteq Range(tools)
             /\ Descending(tokens, all)
             /\ limit > 0 => Len(all) <= limit
             /\ \A t \in Range(tools) :
                  ScoreTool(tokens, t)[1] > 0 =>
                    \/ t \in Range(all)
                    \/ /\ limit > 0 /\ Len(all) = limit
                       /\ \A k \in DOMAIN all :
                            AtLeast(ScoreTool(tokens, all[k]), ScoreTool(tokens, t))
<1> DEFINE tokens == RemoveStopWords(intent)
           sorted == Ranked(tokens, tools)
           all == MatchAll(intent, tools, limit)
           cut == limit > 0 /\ Len(sorted) > limit
<1>1. tokens \in Seq(Words)
  BY StopWordsRemoved
<1>2. all = IF tokens = <<>> THEN <<>>
            ELSE IF cut THEN SubSeq(sorted, 1, limit) ELSE sorted
  BY DEF MatchAll
<1> HIDE DEF tokens
<1>3. /\ sorted \in Seq(A) /\ Descending(tokens, sorted)
      /\ Range(sorted) = {t \in Range(tools) : ScoreTool(tokens, t)[1] > 0}
  BY <1>1, RankedBest
<1> HIDE DEF sorted, all
<1>4. CASE tokens = <<>>
  <2>1. ASSUME NEW t \in Range(tools) PROVE ScoreTool(tokens, t)[1] = 0
    <3>1. t \in DOMAIN NameOf
      BY DEF Range
    <3>2. ScoreTool(tokens, t) = <<0, 1>>
      BY <1>1, <1>4, <3>1, ScoreType
    <3>3. QED
      BY <3>2
  <2>2. all = <<>>
    BY <1>2, <1>4
  <2>3. QED
    BY <2>1, <2>2 DEF Range, Descending, all, tokens
<1>5. CASE tokens # <<>> /\ ~cut
  <2>1. all = sorted
    BY <1>2, <1>5
  <2>2. limit > 0 => Len(all) <= limit
    BY <1>3, <1>5, <2>1
  <2>3. QED
    BY <1>3, <2>1, <2>2 DEF all, tokens
<1>6. CASE tokens # <<>> /\ cut
  <2>1. all = SubSeq(sorted, 1, limit)
    BY <1>2, <1>6
  <2>2. /\ all \in Seq(A) /\ Len(all) = limit
        /\ \A k \in 1 .. limit : all[k] = sorted[k] /\ k \in DOMAIN sorted
    BY <1>3, <1>6, <2>1
  <2>3. DOMAIN all = 1 .. limit
    BY <2>2
  <2>4. Range(all) \subseteq Range(sorted)
    BY <2>2, <2>3 DEF Range
  <2>5. Descending(tokens, all)
    BY <1>3, <2>2, <2>3 DEF Descending
  <2>6. ASSUME NEW t \in Range(tools), ScoreTool(tokens, t)[1] > 0, t \notin Range(all)
        PROVE  \A k \in DOMAIN all : AtLeast(ScoreTool(tokens, all[k]), ScoreTool(tokens, t))
    <3>1. PICK i \in DOMAIN sorted : sorted[i] = t
      BY <1>3, <2>6 DEF Range
    <3>2. i \in Nat /\ i \in 1 .. Len(sorted)
      <4>1. DOMAIN sorted = 1 .. Len(sorted) /\ Len(sorted) \in Nat
        BY <1>3, LenProperties
      <4>2. QED
        BY <3>1, <4>1
    <3>3. i \notin 1 .. limit
      <4> SUFFICES ASSUME i \in 1 .. limit PROVE FALSE
        OBVIOUS
      <4>1. all[i] = t
        BY <2>2, <3>1
      <4>2. i \in DOMAIN all
        BY <2>3
      <4>3. t \in Range(all)
        BY <4>1, <4>2 DEF Range
      <4>4. QED
        BY <2>6, <4>3
    <3>4. \A k \in 1 .. limit : k \in Nat /\ k <= i
      BY <3>2, <3>3
    <3>5. ASSUME NEW k \in DOMAIN all
          PROVE  AtLeast(ScoreTool(tokens, all[k]), ScoreTool(tokens, t))
      <4>1. all[k] = sorted[k] /\ k \in DOMAIN sorted /\ k <= i
        BY <2>2, <2>3, <3>4, <3>5
      <4>2. AtLeast(ScoreTool(tokens, sorted[k]), ScoreTool(tokens, sorted[i]))
        BY <1>3, <3>1, <4>1 DEF Descending
      <4>3. QED
        BY <3>1, <4>1, <4>2
    <3>6. QED
      BY <3>5
  <2>7. QED
    BY <1>3, <1>6, <2>2, <2>4, <2>5, <2>6 DEF all, tokens
<1>7. QED
  BY <1>4, <1>5, <1>6

(* Match returns one of the tools; none of them beats it, and one is only  *)
(* missed when none reaches the threshold.                                 *)
LEMMA BestMatch ==
  ASSUME NEW intent \in Seq(Words), NEW A, A \subseteq DOMAIN NameOf, NEW tools \in Seq(A)
  PROVE  LET Score(t) == ScoreTool(RemoveStopWords(intent), t)
             best == Match(intent, tools)
         IN  /\ best \in Seq(A)
             /\ Range(best) \subseteq Range(tools)
             /\ \A t \in Range(tools) :
                  IF best = <<>> THEN ~AtLeast(Score(t), DefaultThreshold)
                                 ELSE AtLeast(Score(best[1]), Score(t))
<1> DEFINE tokens == RemoveStopWords(intent)
           Score(t) == ScoreTool(tokens, t)
           sorted == Ranked(tokens, tools)
           matches == MatchAll(intent, tools, 1)
           best == Match(intent, tools)
<1>1. tokens \in Seq(Words)
  BY StopWordsRemoved
<1>2. /\ matches = IF tokens = <<>> THEN <<>>
                   ELSE IF Len(sorted) > 1 THEN SubSeq(sorted, 1, 1) ELSE sorted
      /\ best = IF matches # <<>> /\ AtLeast(Score(matches[1]), DefaultThreshold)
                THEN matches ELSE <<>>
  BY DEF MatchAll, Match
<1> HIDE DEF tokens
<1>3. /\ sorted \in Seq(A) /\ Descending(tokens, sorted)
      /\ Range(sorted) = {t \in Range(tools) : Score(t)[1] > 0}
  BY <1>1, RankedBest
<1>4. \A t \in Range(tools) : t \in A /\ t \in DOMAIN NameOf
  BY DEF Range
<1>5. /\ \A t \in DOMAIN NameOf : Score(t) \in Fractions
      /\ tokens = <<>> => \A t \in DOMAIN NameOf : Score(t) = <<0, 1>>
  BY <1>1, ScoreType
<1>6. DefaultThreshold \in Fractions
  BY DEF DefaultThreshold, Fractions
<1> HIDE DEF Score, sorted, matches, best
<1>7. ASSUME NEW t \in Range(tools), Score(t)[1] = 0 PROVE ~AtLeast(Score(t), DefaultThreshold)
  BY <1>4, <1>5, <1>7 DEF AtLeast, DefaultThreshold, Fractions
<1>8. \A t \in Range(tools) : Score(t)[1] = 0 \/ Score(t)[1] > 0
  BY <1>4, <1>5 DEF Fractions
<1>9. CASE tokens = <<>> \/ sorted = <<>>
  <2>1. matches = <<>> /\ best = <<>>
    BY <1>2, <1>9
  <2>2. \A t \in Range(tools) : Score(t)[1] = 0
    <3>1. CASE tokens = <<>>
      BY <1>4, <1>5, <3>1
    <3>2. CASE sorted = <<>>
      BY <1>3, <1>8, <3>2 DEF Range
    <3>3. QED
      BY <1>9, <3>1, <3>2
  <2>3. QED
    BY <1>7, <2>1, <2>2 DEF Range, Score, best, tokens
<1>10. CASE tokens # <<>> /\ sorted # <<>>
  <2>1. /\ matches \in Seq(A) /\ Len(matches) = 1 /\ matches[1] = sorted[1]
        /\ 1 \in DOMAIN sorted
    <3>1. Len(sorted) \in Nat /\ Len(sorted) # 0 /\ DOMAIN sorted = 1 .. Len(sorted)
      BY <1>3, <1>10
    <3>2. /\ SubSeq(sorted, 1, 1) \in Seq(A) /\ Len(SubSeq(sorted, 1, 1)) = 1
          /\ SubSeq(sorted, 1, 1)[1] = sorted[1]
      BY <1>3, <3>1
    <3>3. CASE Len(sorted) > 1
      BY <1>2, <1>10, <3>1, <3>2, <3>3
    <3>4. CASE Len(sorted) = 1
      BY <1>2, <1>3, <1>10, <3>1, <3>4
    <3>5. QED
      BY <3>1, <3>3, <3>4
  <2>2. sorted[1] \in Range(sorted) /\ sorted[1] \in A
    BY <1>3, <2>1 DEF Range
  <2>3. ASSUME NEW t \in Range(tools) PROVE AtLeast(Score(sorted[1]), Score(t))
    <3>1. CASE Score(t)[1] > 0
      <4>1. PICK k \in DOMAIN sorted : sorted[k] = t
        BY <1>3, <3>1 DEF Range
      <4>2. 1 <= k
        BY <1>3
      <4>3. QED
        BY <1>3, <2>1, <4>1, <4>2 DEF Descending, Score
    <3>2. CASE Score(t)[1] = 0
      BY <1>4, <1>5, <2>2, <3>2, AtLeastOrder
    <3>3. QED
      BY <1>8, <3>1, <3>2
  <2>4. CASE AtLeast(Score(sorted[1]), DefaultThreshold)
    <3>1. best = matches
      BY <1>2, <2>1, <2>4
    <3>2. Range(best) = {sorted[1]}
      BY <2>1, <3>1 DEF Range
    <3>3. best # <<>> /\ best[1] = sorted[1] /\ best \in Seq(A)
      <4>1. matches # <<>>
        <5>1. Len(<<>>) # 1
          OBVIOUS
        <5>2. QED
          BY <2>1, <5>1
      <4>2. QED
        BY <2>1, <3>1, <4>1
    <3>4. QED
      BY <1>3, <2>2, <2>3, <3>2, <3>3 DEF Score, best, tokens
  <2>5. CASE ~AtLeast(Score(sorted[1]), DefaultThreshold)
    <3>1. best = <<>>
      BY <1>2, <2>1, <2>5
    <3>2. ASSUME NEW t \in Range(tools) PROVE ~AtLeast(Score(t), DefaultThreshold)
      BY <1>4, <1>5, <1>6, <2>2, <2>3, <2>5, AtLeastOrder
    <3>3. QED
      BY <3>1, <3>2 DEF Range, Score, best, tokens
  <2>6. QED
    BY <2>4, <2>5
<1>11. QED
  BY <1>9, <1>10

-----------------------------------------------------------------------------
(* MatchIntent                                                             *)

(* A tool was in the list of a server of the registry.                     *)
Offered(t) ==
  \E n \in Names : \E e \in seen.was[n] : \E s \in seen.states[e] : t \in Range(s.tools)

(* The tools collected so far were offered, and those of a server that     *)
(* stayed are among them or still to come.                                 *)
Collecting ==
  /\ query.intent \in Intents
  /\ query.found \in Seq(Tools) /\ \A i \in DOMAIN query.found : Offered(query.found[i])
  /\ query.pc \in {"snap", "match", "done"}
  /\ query.pc # "snap" => query.todo = {}
  /\ \A e \in query.todo : \E n \in Names : e \in seen.was[n]
  /\ \A n \in seen.stayed, e \in Entries :
       seen.was[n] = {e} =>
         \/ e \in query.todo
         \/ \A t \in Tools : (\A s \in seen.states[e] : t \in Range(s.tools))
                              => t \in Range(query.found)

(* What is returned was offered, and accessible.                           *)
Returned ==
  /\ query.best \in Seq(Tools)
  /\ \A i \in DOMAIN query.best :
       Offered(query.best[i]) /\ Label[query.best[i]] \in seen.could \cup {None}

MatchInv == ViewInv /\ (query.kind = "match" => Collecting) /\ Returned /\ MatchIsBest

(* Longer histories keep what was offered.                                 *)
Longest ==
  /\ \A n \in Names : seen.was[n] \subseteq seen'.was[n]
  /\ \A e \in Entries : seen.states[e] \subseteq seen'.states[e]
  /\ seen.could \subseteq seen'.could

(* What was offered stays so: the histories only grow.                     *)
LEMMA StillOffered ==
  ASSUME ViewInv, Longest
  PROVE  \A t : Offered(t) => Offered(t)'
BY DEF ViewInv, History, Longest, Offered

(* A match that others' steps do not touch was offered and accessible.     *)
LEMMA StillReturned ==
  ASSUME MatchInv, Longest, query'.best = query.best
  PROVE  Returned'
<1>1. \A t : Offered(t) => Offered(t)'
  BY StillOffered DEF MatchInv
<1>2. QED
  BY <1>1 DEF MatchInv, Returned, Longest

(* The invariant holds when the broker starts.                             *)
LEMMA MatchInit == Init => MatchInv
<1> SUFFICES ASSUME Init PROVE MatchInv
  OBVIOUS
<1>1. query.kind = "none" /\ query.best = <<>>
  BY DEF Init, Idle
<1>2. Returned
  BY <1>1 DEF Returned
<1>3. MatchIsBest
  BY <1>1 DEF MatchIsBest, Finished
<1>4. QED
  BY <1>1, <1>2, <1>3, ViewInit DEF MatchInv

(* A question that has only begun has returned nothing.                    *)
LEMMA NothingYet ==
  ASSUME query'.best = <<>>, query'.kind # "match"
  PROVE  (query.kind = "match" => Collecting)' /\ Returned' /\ MatchIsBest'
<1>1. Returned'
  BY DEF Returned
<1>2. MatchIsBest'
  BY DEF MatchIsBest, Finished
<1>3. QED
  BY <1>1, <1>2

(* The match begins with the entries of all servers.                       *)
LEMMA BeginMatchMatch ==
  ASSUME MatchInv, BeginMatch
  PROVE  (query.kind = "match" => Collecting)' /\ Returned' /\ MatchIsBest'
<1>1. /\ query'.kind = "match" /\ query'.pc = "snap" /\ query'.intent \in Intents
      /\ query'.found = <<>> /\ query'.best = <<>>
      /\ query'.todo = {slot[n] : n \in Registered}
  BY DEF BeginMatch, Idle
<1>2. /\ seen'.stayed = Registered
      /\ \A n \in Names : seen'.was[n] = {slot[n]} \ {None}
  BY DEF BeginMatch, Asks, Now
<1>3. \A n \in Registered : n \in Names /\ slot[n] # None
  BY DEF Registered
<1>4. \A n \in Registered : slot[n] \in seen'.was[n] /\ slot[n] \in query'.todo
  BY <1>1, <1>2, <1>3
<1>5. \A e \in query'.todo : \E n \in Names : e \in seen'.was[n]
  BY <1>1, <1>3, <1>4
<1>6. \A n \in seen'.stayed, e \in Entries : seen'.was[n] = {e} => e \in query'.todo
  BY <1>2, <1>4
<1>7. Collecting'
  BY <1>1, <1>5, <1>6 DEF Collecting
<1>8. Returned' /\ MatchIsBest'
  BY <1>1 DEF Returned, MatchIsBest, Finished, At
<1>9. QED
  BY <1>7, <1>8

(* The list of an entry is collected: it was offered at this moment.       *)
LEMMA SnapMatch ==
  ASSUME MatchInv, SnapTools
  PROVE  (query.kind = "match" => Collecting)' /\ Returned' /\ MatchIsBest'
<1>1. query.pc = "snap" /\ query.kind = "match" /\ seen' = seen /\ entry' = entry
  BY DEF SnapTools, At, Reads, registry
<1>2. Collecting
  BY <1>1 DEF MatchInv
<1>3. CASE \E e \in query.todo :
             query' = [query EXCEPT !.todo = @ \ {e}, !.found = @ \o entry[e].tools]
  <2>1. PICK e \in query.todo :
          query' = [query EXCEPT !.todo = @ \ {e}, !.found = @ \o entry[e].tools]
    BY <1>3
  <2>2. /\ query'.kind = "match" /\ query'.pc = "snap" /\ query'.intent = query.intent
        /\ query'.todo = query.todo \ {e} /\ query'.found = query.found \o entry[e].tools
        /\ query'.best = query.best
    BY <1>1, <2>1 DEF MatchInv, ViewInv, Shape, QFields
  <2>3. PICK n \in Names : e \in seen.was[n]
    BY <1>2 DEF Collecting
  <2>4. e \in Entries
    BY <2>3 DEF MatchInv, ViewInv, History
  <2>5. entry[e] \in seen.states[e] /\ entry[e].tools \in Seq(Tools)
    BY <2>4, ToolAssumption DEF MatchInv, ViewInv, History, WorldOK, Whole
  <2>6. \A t \in Range(entry[e].tools) : Offered(t)
    BY <2>3, <2>5 DEF Offered
  <2>7. /\ query'.found \in Seq(Tools)
        /\ Range(query'.found) = Range(query.found) \cup Range(entry[e].tools)
    BY <1>2, <2>2, <2>5, RangeConcatenation DEF Collecting
  <2>8. \A t \in Range(query'.found) : Offered(t)
    <3>1. \A t \in Range(query.found) : Offered(t)
      BY <1>2 DEF Collecting, Range
    <3>2. QED
      BY <2>6, <2>7, <3>1
  <2>9. \A i \in DOMAIN query'.found : Offered(query'.found[i])
    BY <2>8 DEF Range
  <2>10. \A t : Offered(t)' <=> Offered(t)
    BY <1>1 DEF Offered
  <2>11. ASSUME NEW m \in seen.stayed, NEW d \in Entries, seen.was[m] = {d}
         PROVE  \/ d \in query'.todo
                \/ \A t \in Tools : (\A s \in seen.states[d] : t \in Range(s.tools))
                                      => t \in Range(query'.found)
    <3>1. CASE d = e
      BY <2>5, <2>7, <3>1
    <3>2. CASE d # e
      BY <1>2, <2>2, <2>7, <2>11, <3>2 DEF Collecting
    <3>3. QED
      BY <3>1, <3>2
  <2>12. Collecting'
    BY <1>1, <1>2, <2>2, <2>7, <2>9, <2>10, <2>11 DEF Collecting
  <2>13. Returned' /\ MatchIsBest'
    BY <1>1, <2>2, <2>10 DEF MatchInv, Returned, MatchIsBest, Finished, At
  <2>14. QED
    BY <2>12, <2>13
<1>4. CASE query.todo = {} /\ query' = [query EXCEPT !.pc = "match"]
  <2>1. /\ query'.kind = "match" /\ query'.pc = "match" /\ query'.intent = query.intent
        /\ query'.todo = {} /\ query'.found = query.found /\ query'.best = query.best
    BY <1>1, <1>4 DEF MatchInv, ViewInv, Shape, QFields
  <2>2. \A t : Offered(t)' <=> Offered(t)
    BY <1>1 DEF Offered
  <2>3. Collecting'
    BY <1>1, <1>2, <1>4, <2>1, <2>2 DEF Collecting
  <2>4. Returned' /\ MatchIsBest'
    BY <1>1, <2>1, <2>2 DEF MatchInv, Returned, MatchIsBest, Finished, At
  <2>5. QED
    BY <2>3, <2>4
<1>5. QED
  BY <1>3, <1>4 DEF SnapTools

(* The match is the best of the collected tools that are accessible, and   *)
(* the steady ones are among these.                                        *)
LEMMA MatchIntentMatch ==
  ASSUME MatchInv, MatchIntent
  PROVE  (query.kind = "match" => Collecting)' /\ Returned' /\ MatchIsBest'
<1> DEFINE tools == Keep(query.found, {t \in Tools : Accessible(t)})
           best == Match(query.intent, tools)
           Score(t) == ScoreTool(RemoveStopWords(query.intent), t)
<1>1. /\ query.pc = "match" /\ query.kind = "match"
      /\ seen' = seen /\ allowed' = allowed
  BY DEF MatchIntent, At, Reads, MatchInv, ViewInv, Kinds
<1>2. Collecting
  BY <1>1 DEF MatchInv
<1>3. /\ query'.kind = "match" /\ query'.pc = "done" /\ query'.intent = query.intent
      /\ query'.todo = query.todo /\ query'.found = query.found /\ query'.best = best
  BY <1>1 DEF MatchIntent, MatchInv, ViewInv, Shape, QFields
<1>4. \A t : Offered(t)' <=> Offered(t)
  BY <1>1 DEF Offered
<1>5. Collecting'
  BY <1>1, <1>2, <1>3, <1>4 DEF Collecting
<1>6. /\ tools \in Seq(Tools)
      /\ Range(tools) = Range(query.found) \cap {t \in Tools : Accessible(t)}
  BY <1>2, Kept DEF Collecting
<1>7. query.intent \in Seq(Words) /\ Tools \subseteq DOMAIN NameOf
  BY <1>2, IntentAssumption DEF Collecting
<1> HIDE DEF tools
<1>8. /\ best \in Seq(Tools) /\ Range(best) \subseteq Range(tools)
      /\ \A t \in Range(tools) :
           IF best = <<>> THEN ~AtLeast(Score(t), DefaultThreshold)
                          ELSE AtLeast(Score(best[1]), Score(t))
  BY <1>6, <1>7, BestMatch
<1> HIDE DEF best, Score
<1>9. Returned'
  <2>1. \A i \in DOMAIN best : best[i] \in Range(query.found) /\ Accessible(best[i])
    BY <1>6, <1>8 DEF Range
  <2>2. \A t \in Range(query.found) : Offered(t)
    BY <1>2 DEF Collecting, Range
  <2>3. \A t : Accessible(t) => Label[t] \in seen.could \cup {None}
    BY DEF Accessible, MatchInv, ViewInv, History
  <2>4. QED
    BY <1>1, <1>3, <1>4, <1>8, <2>1, <2>2, <2>3 DEF Returned
<1>10. ASSUME NEW t \in Tools, Steady(t) PROVE t \in Range(tools)
  <2>1. PICK n \in seen.stayed, e \in Entries :
          /\ seen.was[n] = {e}
          /\ \A s \in seen.states[e] : t \in Range(s.tools)
          /\ Label[t] \in seen.always \cup {None}
    BY <1>10 DEF Steady
  <2>2. query.todo = {}
    BY <1>1, <1>2 DEF Collecting
  <2>3. t \in Range(query.found)
    BY <1>2, <2>1, <2>2 DEF Collecting
  <2>4. Accessible(t)
    BY <2>1 DEF Accessible, MatchInv, ViewInv, History
  <2>5. QED
    BY <1>6, <2>3, <2>4
<1>11. \A t : Steady(t)' <=> Steady(t)
  BY <1>1 DEF Steady
<1>12. MatchIsBest'
  BY <1>3, <1>8, <1>10, <1>11 DEF MatchIsBest, Score
<1>13. QED
  BY <1>5, <1>9, <1>12

(* The other questions neither collect nor return a match.                 *)
LEMMA OtherQuery ==
  ASSUME MatchInv,
         \/ BeginList \/ ListOne \/ ListEnds \/ NextStatus \/ ViewEnds
         \/ BeginExpand \/ ReadStatus \/ ReadSize \/ FillTools
         \/ ReadFirst \/ UseFirst \/ ReadCount \/ SnapEntry
         \/ BeginImport \/ NextImport
  PROVE  (query.kind = "match" => Collecting)' /\ Returned' /\ MatchIsBest'
<1>1. CASE BeginList \/ BeginExpand \/ BeginImport
  <2>1. query'.kind # "match" /\ query'.best = <<>>
    BY <1>1 DEF BeginList, BeginExpand, BeginImport, Idle
  <2>2. QED
    BY <2>1, NothingYet
<1>2. CASE ~(BeginList \/ BeginExpand \/ BeginImport)
  <2>1. seen' = seen
    BY <1>2
    DEF ListOne, ListEnds, NextStatus, ViewEnds, ReadStatus, ReadSize, FillTools, ReadFirst,
        UseFirst, ReadCount, SnapEntry, NextImport, Reads
  <2>2. query'.kind # "match" /\ query'.best = query.best
    <3> USE DEF MatchInv, ViewInv, Shape, QFields, Kinds, At
    <3>1. CASE ListOne \/ ListEnds
      BY <3>1 DEF ListOne, ListEnds
    <3>2. CASE NextStatus
      BY <3>2 DEF NextStatus
    <3>3. CASE ViewEnds
      BY <3>3 DEF ViewEnds
    <3>4. CASE ReadStatus \/ ReadSize \/ FillTools
      BY <3>4 DEF ReadStatus, ReadSize, FillTools
    <3>5. CASE ReadFirst \/ UseFirst
      BY <3>5 DEF ReadFirst, UseFirst
    <3>6. CASE ReadCount \/ SnapEntry
      BY <3>6 DEF ReadCount, SnapEntry, Reports
    <3>7. CASE NextImport
      BY <3>7 DEF NextImport
    <3>8. QED
      BY <1>2, <3>1, <3>2, <3>3, <3>4, <3>5, <3>6, <3>7
  <2>3. Returned'
    BY <2>1, <2>2, StillReturned DEF Longest
  <2>4. QED
    BY <2>2, <2>3 DEF MatchIsBest, Finished
<1>3. QED
  BY <1>1, <1>2

(* What others do while the tools are collected: an entry that was the     *)
(* only one of a name that stayed, and still is, was so before.            *)
LEMMA OthersMatch ==
  ASSUME MatchInv, ViewInv', query' = query, NEW S, Observe(S), query.pc # "done"
  PROVE  (query.kind = "match" => Collecting)' /\ Returned' /\ MatchIsBest'
<1>1. /\ \A n \in Names : seen.was[n] \subseteq seen'.was[n]
      /\ \A e \in Entries : seen.states[e] \subseteq seen'.states[e]
      /\ seen'.stayed \subseteq seen.stayed
      /\ seen.could \subseteq seen'.could
  <2>1. slot' \in [Names -> Entries \cup {None}]
    BY DEF ViewInv, WorldOK
  <2>2. QED
    BY <2>1, Observed DEF MatchInv
<1>2. \A t : Offered(t) => Offered(t)'
  BY <1>1, StillOffered DEF MatchInv, Longest
<1>3. Returned'
  BY <1>1, StillReturned DEF Longest
<1>4. MatchIsBest'
  BY DEF MatchIsBest, Finished, At
<1>5. ASSUME query.kind = "match" PROVE Collecting'
  <2>1. Collecting
    BY <1>5 DEF MatchInv
  <2>2. ASSUME NEW n \in seen'.stayed, NEW e \in Entries, seen'.was[n] = {e}
        PROVE  \/ e \in query.todo
               \/ \A t \in Tools : (\A s \in seen'.states[e] : t \in Range(s.tools))
                                     => t \in Range(query.found)
    <3>1. n \in seen.stayed /\ n \in Names /\ slot[n] \in seen.was[n]
      BY <1>1 DEF MatchInv, ViewInv, History, Registered
    <3>2. seen.was[n] = {e}
      BY <1>1, <2>2, <3>1
    <3>3. QED
      BY <1>1, <2>1, <3>1, <3>2 DEF Collecting
  <2>3. QED
    BY <1>1, <1>2, <2>1, <2>2 DEF Collecting
<1>6. QED
  BY <1>3, <1>4, <1>5

(* Every step preserves it, the caller's and the others'.                  *)
LEMMA MatchInvStep == MatchInv /\ [Next]_vars => MatchInv'
<1> SUFFICES ASSUME MatchInv, [Next]_vars PROVE MatchInv'
  OBVIOUS
<1>1. ViewInv'
  BY ViewStep DEF MatchInv
<1> SUFFICES (query.kind = "match" => Collecting)' /\ Returned' /\ MatchIsBest'
  BY <1>1 DEF MatchInv
<1>2. CASE Query /\ ~ImportOne
  BY <1>2, BeginMatchMatch, SnapMatch, MatchIntentMatch, OtherQuery DEF Query
<1>3. CASE ImportOne
  <2>1. Observe({}) /\ query.kind = "import"
    BY <1>3 DEF ImportOne, At, MatchInv, ViewInv, Kinds
  <2>2. query'.kind = "import" /\ query'.best = query.best
    BY <1>3, <2>1 DEF ImportOne, MatchInv, ViewInv, Shape, QFields
  <2>3. slot' \in [Names -> Entries \cup {None}]
    BY <1>1 DEF ViewInv, WorldOK
  <2>4. Longest
    BY <2>1, <2>3, Observed DEF Longest, MatchInv
  <2>5. Returned'
    BY <2>2, <2>4, StillReturned
  <2>6. QED
    BY <2>2, <2>5 DEF MatchIsBest, Finished
<1>4. CASE Others
  <2>1. query' = query /\ query.pc # "done" /\ \E S : Observe(S)
    BY <1>4 DEF Others
  <2>2. QED
    BY <1>1, <2>1, OthersMatch
<1>5. CASE Restart
  <2>1. query'.best = <<>> /\ query'.kind # "match"
    BY <1>5 DEF Restart, Idle
  <2>2. QED
    BY <2>1, NothingYet
<1>6. CASE UNCHANGED vars
  <2>1. query' = query /\ seen' = seen
    BY <1>6 DEF vars
  <2>2. \A t : (Offered(t)' <=> Offered(t)) /\ (Steady(t)' <=> Steady(t))
    BY <2>1 DEF Offered, Steady
  <2>3. QED
    BY <2>1, <2>2 DEF MatchInv, Collecting, Returned, MatchIsBest, Finished, At
<1>7. QED
  BY <1>2, <1>3, <1>4, <1>5, <1>6 DEF Next

(* It is an invariant of the specification.                                *)
LEMMA MatchHolds == Spec => []MatchInv
BY MatchInit, MatchInvStep, PTL DEF Spec

(* MatchIsAccessible: whatever others do while the tools are collected,    *)
(* what MatchIntent returns was offered during the query, by a server that *)
(* the role could access during it when the tool names its server.         *)
THEOREM MatchAccessible == Spec => []MatchIsAccessible
<1>1. MatchInv => MatchIsAccessible
  BY DEF MatchInv, Returned, MatchIsAccessible, Offered
<1>2. QED
  BY <1>1, MatchHolds, PTL

(* MatchIsBest: for any tools, texts and words and any order of the        *)
(* servers, no tool that was offered and accessible all the time has a     *)
(* better score than the match, and the match is missed only when none     *)
(* reaches the threshold.                                                  *)
THEOREM BestIsMatched == Spec => []MatchIsBest
<1>1. MatchInv => MatchIsBest
  BY DEF MatchInv
<1>2. QED
  BY <1>1, MatchHolds, PTL

-----------------------------------------------------------------------------
(* Types                                                                   *)

WorldTyped ==
  /\ RegistryTypeOK /\ readers \subseteq {Reader} /\ allowed \subseteq Names
  /\ archive.rows \subseteq ProfileRows /\ archive.key \in Keys \cup {None}

(* The rows of a profile are told apart from those of a catalog, and the   *)
(* status in hand is one.                                                  *)
LocalsTyped ==
  /\ query.pc \in PCs
  /\ query.listed \subseteq Names \X BOOLEAN
  /\ query.todo \subseteq Names \cup Entries
  /\ query.name \in Names \cup {None} /\ query.at \in Entries \cup {None}
  /\ query.running \in BOOLEAN
  /\ query.found \in Seq(Tools \cup {None})
  /\ query.rows \subseteq CatalogRows \cup ProfileRows
  /\ query.kind \in {"export", "import"} => query.rows \subseteq ProfileRows

Typed == WorldTyped /\ LocalsTyped

(* A new entry is one.                                                     *)
LEMMA NewEntryType ==
  /\ \A c \in Configs : NewEntry(c) \in EntryState
  /\ Unused \in EntryState
<1>1. \A c \in Configs : NewEntry(c) \in EntryState
  BY NoToolsAssumption DEF NewEntry, EntryState
<1>2. (CHOOSE c \in Given : TRUE) \in Given
  BY GivenAssumption
<1>3. QED
  BY <1>1, <1>2, GivenAssumption DEF Unused

(* Types hold when the broker starts.                                      *)
LEMMA TypedInit == Init => Typed
<1> SUFFICES ASSUME Init PROVE Typed
  OBVIOUS
<1>1. WorldTyped
  BY DEF Init, WorldTyped, RegistryTypeOK
<1>2. <<>> \in Seq(Tools \cup {None})
  OBVIOUS
<1>3. LocalsTyped
  BY <1>2 DEF Init, Idle, LocalsTyped, PCs
<1>4. QED
  BY <1>1, <1>3 DEF Typed

(* What others write are entries.                                          *)
LEMMA WriteTyped ==
  ASSUME RegistryTypeOK, MatchInv, NEW n \in Names, Write(n)
  PROVE  RegistryTypeOK' /\ readers' = readers
<1>1. Held \subseteq Entries /\ Fresh \subseteq Entries
  BY DEF RegistryTypeOK, Held, Fresh, Registered
<1>2. Given \subseteq Configs /\ \A l \in Offers(n) : l \in ToolLists
  BY GivenAssumption DEF Offers
<1>3. CASE Unregister(n)
  BY <1>3 DEF Unregister, RegistryTypeOK
<1>4. ASSUME NEW e \in Fresh, NEW c \in Given, Register(n, e, c)
      PROVE  RegistryTypeOK' /\ readers' = readers
  <2>1. NewEntry(c) \in EntryState /\ e \in Entries
    BY <1>1, <1>2, NewEntryType
  <2>2. QED
    BY <1>4, <2>1 DEF Register, RegistryTypeOK
<1>5. ASSUME NEW e \in Entries, NEW r \in EntryState, slot' = slot, readers' = readers,
             entry' = [entry EXCEPT ![e] = r]
      PROVE  RegistryTypeOK' /\ readers' = readers
  BY <1>5 DEF RegistryTypeOK
<1>6. ASSUME NEW e \in Held, NEW c \in Given, SetConfig(e, c)
      PROVE  RegistryTypeOK' /\ readers' = readers
  <2>1. entry[e] \in EntryState /\ e \in Entries /\ c \in Configs
    BY <1>1, <1>2 DEF RegistryTypeOK
  <2>2. [entry[e] EXCEPT !.config = c] \in EntryState
    BY <2>1 DEF EntryState
  <2>3. entry' = [entry EXCEPT ![e] = [entry[e] EXCEPT !.config = c]]
    BY <1>6 DEF SetConfig
  <2>4. QED
    BY <1>5, <1>6, <2>1, <2>2, <2>3 DEF SetConfig
<1>7. ASSUME NEW e \in Held, NEW b \in BOOLEAN, NEW l \in Offers(n), SetRuntime(e, b, l)
      PROVE  RegistryTypeOK' /\ readers' = readers
  <2>1. entry[e] \in EntryState /\ e \in Entries /\ l \in ToolLists
    BY <1>1, <1>2 DEF RegistryTypeOK
  <2>2. [entry[e] EXCEPT !.running = b, !.tools = l] \in EntryState
    BY <2>1 DEF EntryState
  <2>3. entry' = [entry EXCEPT ![e] = [entry[e] EXCEPT !.running = b, !.tools = l]]
    BY <1>7 DEF SetRuntime
  <2>4. QED
    BY <1>5, <1>7, <2>1, <2>2, <2>3 DEF SetRuntime
<1>8. ASSUME NEW e \in Held, NEW l \in Offers(n), SetTools(e, l)
      PROVE  RegistryTypeOK' /\ readers' = readers
  <2>1. entry[e] \in EntryState /\ e \in Entries /\ l \in ToolLists
    BY <1>1, <1>2 DEF RegistryTypeOK
  <2>2. [entry[e] EXCEPT !.tools = l] \in EntryState
    BY <2>1 DEF EntryState
  <2>3. entry' = [entry EXCEPT ![e] = [entry[e] EXCEPT !.tools = l]]
    BY <1>8 DEF SetTools
  <2>4. QED
    BY <1>5, <1>8, <2>1, <2>2, <2>3 DEF SetTools
<1>9. ASSUME NEW e \in Held, ClearRuntime(e)
      PROVE  RegistryTypeOK' /\ readers' = readers
  <2>1. entry[e] \in EntryState /\ e \in Entries
    BY <1>1 DEF RegistryTypeOK
  <2>2. [entry[e] EXCEPT !.running = FALSE] \in EntryState
    BY <2>1 DEF EntryState
  <2>3. entry' = [entry EXCEPT ![e] = [entry[e] EXCEPT !.running = FALSE]]
    BY <1>9 DEF ClearRuntime
  <2>4. QED
    BY <1>5, <1>9, <2>1, <2>2, <2>3 DEF ClearRuntime
<1>10. QED
  BY <1>3, <1>4, <1>6, <1>7, <1>8, <1>9 DEF Write

(* Every step leaves a registry, an archive and rights of their types.     *)
LEMMA WorldTypedStep ==
  ASSUME MatchInv, Typed, [Next]_vars
  PROVE  WorldTyped'
<1> USE DEF Typed, WorldTyped
<1>1. CASE Query /\ ~ImportOne
  <2>1. slot' = slot /\ entry' = entry /\ allowed' = allowed
    BY <1>1
    DEF Query, Reads, registry, BeginMatch, SnapTools, MatchIntent, BeginList, RLock, ListOne,
        ListEnds, RUnlock, NextStatus, ViewEnds, BeginExpand, ReadStatus, ReadSize, FillTools,
        ReadFirst, UseFirst, ReadCount, SnapEntry, BeginImport, NextImport
  <2>2. readers' \subseteq {Reader}
    <3>1. CASE BeginList \/ ListEnds
      BY <3>1 DEF BeginList, ListEnds, RLock, RUnlock
    <3>2. CASE ~(BeginList \/ ListEnds)
      BY <1>1, <3>2
      DEF Query, Reads, registry, BeginMatch, SnapTools, MatchIntent, ListOne,
          NextStatus, ViewEnds, BeginExpand, ReadStatus, ReadSize, FillTools,
          ReadFirst, UseFirst, ReadCount, SnapEntry, BeginImport, NextImport
    <3>3. QED
      BY <3>1, <3>2
  <2>3. archive'.rows \subseteq ProfileRows /\ archive'.key \in Keys \cup {None}
    <3>1. CASE ViewEnds /\ query.kind = "export"
      BY <3>1 DEF ViewEnds, LocalsTyped
    <3>2. CASE ~(ViewEnds /\ query.kind = "export")
      <4>1. archive' = archive
        BY <1>1, <3>2
        DEF Query, Reads, BeginMatch, SnapTools, MatchIntent, BeginList, ListOne,
            ListEnds, NextStatus, ViewEnds, BeginExpand, ReadStatus, ReadSize, FillTools,
            ReadFirst, UseFirst, ReadCount, SnapEntry, BeginImport, NextImport
      <4>2. QED
        BY <4>1
    <3>3. QED
      BY <3>1, <3>2
  <2>4. QED
    BY <2>1, <2>2, <2>3 DEF RegistryTypeOK
<1>2. CASE ImportOne
  <2>1. query.kind = "import" /\ allowed' = allowed /\ archive' = archive
    BY <1>2 DEF ImportOne, At, MatchInv, ViewInv, Kinds
  <2>2. PICK row \in query.rows :
          \/ \E e \in Fresh : Register(row.name, e, row.config)
          \/ UNCHANGED registry
    BY <1>2 DEF ImportOne
  <2>3. row.name \in Names /\ row.config \in Configs
    BY <2>1 DEF LocalsTyped, ProfileRows
  <2>4. Fresh \subseteq Entries /\ NewEntry(row.config) \in EntryState
    BY <2>3, NewEntryType DEF Fresh
  <2>5. RegistryTypeOK' /\ readers' = readers
    <3>1. CASE \E e \in Fresh : Register(row.name, e, row.config)
      BY <2>3, <2>4, <3>1 DEF Register, RegistryTypeOK
    <3>2. CASE UNCHANGED registry
      BY <3>2 DEF registry, RegistryTypeOK
    <3>3. QED
      BY <2>2, <3>1, <3>2
  <2>6. QED
    BY <2>1, <2>5
<1>3. CASE Others
  <2>1. archive' = archive
    BY <1>3 DEF Others
  <2>2. CASE UNCHANGED allowed /\ \E n \in Names : Write(n)
    BY <2>1, <2>2, WriteTyped
  <2>3. CASE UNCHANGED registry /\ \E n \in Names : allowed' \in {allowed \cup {n}, allowed \ {n}}
    BY <2>1, <2>3 DEF registry, RegistryTypeOK
  <2>4. QED
    BY <1>3, <2>2, <2>3 DEF Others
<1>4. CASE Restart
  BY <1>4, NewEntryType DEF Restart, RegistryTypeOK
<1>5. CASE UNCHANGED vars
  BY <1>5 DEF vars, registry, RegistryTypeOK
<1>6. QED
  BY <1>1, <1>2, <1>3, <1>4, <1>5 DEF Next

(* A caller that has only begun.                                           *)
LEMMA BegunTyped ==
  ASSUME MatchInv, Typed,
         BeginMatch \/ BeginList \/ BeginExpand \/ BeginImport \/ Restart
  PROVE  LocalsTyped'
<1>1. /\ query'.name \in Names \cup {None} /\ query'.running = FALSE /\ query'.found = <<>>
      /\ query'.pc \in PCs /\ query'.listed = {} /\ query'.at \in Entries \cup {None}
  <2>1. \A n \in Registered : n \in Names /\ slot[n] \in Entries
    BY DEF Registered, Typed, WorldTyped, RegistryTypeOK
  <2>2. CASE BeginMatch
    BY <2>2 DEF BeginMatch, Idle, PCs
  <2>3. CASE BeginList
    BY <2>3 DEF BeginList, Idle, PCs
  <2>4. CASE BeginExpand
    BY <2>1, <2>4 DEF BeginExpand, Idle, PCs
  <2>5. CASE BeginImport
    BY <2>5 DEF BeginImport, Idle, PCs
  <2>6. CASE Restart
    BY <2>6 DEF Restart, Idle, PCs
  <2>7. QED
    BY <2>2, <2>3, <2>4, <2>5, <2>6
<1>2. query'.rows \subseteq ProfileRows
  <2>1. CASE BeginImport
    BY <2>1 DEF BeginImport, Idle, Typed, WorldTyped
  <2>2. CASE BeginMatch
    BY <2>2 DEF BeginMatch, Idle
  <2>3. CASE BeginList
    BY <2>3 DEF BeginList, Idle
  <2>4. CASE BeginExpand
    BY <2>4 DEF BeginExpand, Idle
  <2>5. CASE Restart
    BY <2>5 DEF Restart, Idle
  <2>6. QED
    BY <2>1, <2>2, <2>3, <2>4, <2>5
<1>3. query'.todo \subseteq Names \cup Entries
  <2>1. CASE BeginMatch
    <3>1. \A n \in Registered : slot[n] \in Entries
      BY DEF Registered, Typed, WorldTyped, RegistryTypeOK
    <3>2. query'.todo = {slot[n] : n \in Registered}
      BY <2>1 DEF BeginMatch, Idle
    <3>3. QED
      BY <3>1, <3>2
  <2>2. CASE BeginList
    BY <2>2 DEF BeginList, Idle, Registered
  <2>3. CASE BeginImport
    <3>1. query'.todo \subseteq {row.name : row \in archive.rows}
      BY <2>3 DEF BeginImport, Idle
    <3>2. QED
      BY <3>1 DEF Typed, WorldTyped, ProfileRows
  <2>4. CASE BeginExpand
    BY <2>4 DEF BeginExpand, Idle
  <2>5. CASE Restart
    BY <2>5 DEF Restart, Idle
  <2>6. QED
    BY <2>1, <2>2, <2>3, <2>4, <2>5
<1>4. <<>> \in Seq(Tools \cup {None})
  OBVIOUS
<1>5. QED
  BY <1>1, <1>2, <1>3, <1>4 DEF LocalsTyped

(* The tools that are collected or copied.                                 *)
LEMMA FoundTyped ==
  ASSUME MatchInv, Typed, SnapTools \/ MatchIntent \/ ReadSize \/ FillTools
  PROVE  LocalsTyped'
<1> DEFINE T == Tools \cup {None}
<1>1. \A e \in Entries : entry[e].tools \in Seq(Tools) /\ entry[e].tools \in Seq(T)
  <2>1. \A l \in Seq(Tools) : l \in Seq(T)
    OBVIOUS
  <2>2. \A e \in Entries : entry[e].tools \in ToolLists
    BY DEF Typed, WorldTyped, RegistryTypeOK, EntryState
  <2>3. QED
    BY <2>1, <2>2, ToolAssumption
<1>2. query.found \in Seq(T)
  BY DEF Typed, LocalsTyped
<1> USE DEF MatchInv, ViewInv, Shape, QFields, Kinds, At
<1>3. CASE SnapTools
  <2>1. CASE \E e \in query.todo :
               query' = [query EXCEPT !.todo = @ \ {e}, !.found = @ \o entry[e].tools]
    <3>1. PICK e \in query.todo :
            query' = [query EXCEPT !.todo = @ \ {e}, !.found = @ \o entry[e].tools]
      BY <2>1
    <3>2. e \in Entries
      BY <1>3 DEF SnapTools, Collecting, History
    <3>3. query.found \o entry[e].tools \in Seq(T)
      BY <1>1, <1>2, <3>2
    <3>4. query'.found \in Seq(T)
      BY <3>1, <3>3
    <3>5. QED
      BY <3>1, <3>4 DEF Typed, LocalsTyped
  <2>2. CASE query' = [query EXCEPT !.pc = "match"]
    BY <2>2 DEF Typed, LocalsTyped, PCs
  <2>3. QED
    BY <1>3, <2>1, <2>2 DEF SnapTools
<1>4. CASE MatchIntent
  <2>1. /\ query'.pc = "done"
        /\ \A f \in QFields \ {"pc", "best"} : query'[f] = query[f]
    BY <1>4 DEF MatchIntent
  <2>2. QED
    BY <2>1 DEF Typed, LocalsTyped, PCs
<1>5. CASE ReadSize
  <2>1. query.at \in Entries
    BY <1>5 DEF ReadSize, Expansion
  <2>2. [i \in DOMAIN entry[query.at].tools |-> None] \in Seq(T)
    BY <1>1, <2>1
  <2>3. query'.found \in Seq(T)
    BY <1>5, <2>2 DEF ReadSize
  <2>4. QED
    BY <1>5, <2>3 DEF ReadSize, Typed, LocalsTyped, PCs
<1>6. CASE FillTools
  <2> DEFINE tools == entry[query.at].tools
             copy == [i \in DOMAIN query.found |->
                        IF i \in DOMAIN tools THEN tools[i] ELSE query.found[i]]
  <2>1. query.at \in Entries
    BY <1>6 DEF FillTools, Expansion
  <2>2. tools \in Seq(T)
    BY <1>1, <2>1
  <2>3. copy \in Seq(T)
    BY <1>2, <2>2
  <2> HIDE DEF copy
  <2>4. \/ query' = [query EXCEPT !.pc = "panic"]
        \/ query' = [query EXCEPT !.pc = "done", !.found = copy]
    BY <1>6 DEF FillTools, copy
  <2>5. QED
    BY <2>3, <2>4 DEF Typed, LocalsTyped, PCs
<1>7. QED
  BY <1>3, <1>4, <1>5, <1>6

(* Views list statuses and make rows.                                      *)
LEMMA ViewsTyped ==
  ASSUME MatchInv, Typed,
         \/ ListOne \/ ListEnds \/ NextStatus \/ ViewEnds \/ ReadStatus
         \/ ReadFirst \/ UseFirst \/ ReadCount \/ SnapEntry
  PROVE  LocalsTyped'
<1> USE DEF MatchInv, ViewInv, Shape, QFields, Kinds, At
<1>1. \A e \in Entries : /\ entry[e].running \in BOOLEAN /\ entry[e].config \in Configs
                         /\ entry[e].tools \in ToolLists /\ Len(entry[e].tools) \in Nat
  <2>1. \A e \in Entries : /\ entry[e].running \in BOOLEAN /\ entry[e].config \in Configs
                           /\ entry[e].tools \in ToolLists
    BY DEF Typed, WorldTyped, RegistryTypeOK, EntryState
  <2>2. \A l \in ToolLists : Len(l) \in Nat
    BY ToolAssumption
  <2>3. QED
    BY <2>1, <2>2
<1>2. LocalsTyped /\ slot \in [Names -> Entries \cup {None}]
  BY DEF Typed, WorldTyped, RegistryTypeOK
<1>3. CASE ListOne
  <2>1. PICK n \in query.todo :
          query' = [query EXCEPT !.todo = @ \ {n},
                                 !.listed = @ \cup {<<n, entry[slot[n]].running>>}]
    BY <1>3 DEF ListOne
  <2>2. n \in Names /\ slot[n] \in Entries
    BY <1>2, <1>3 DEF ListOne, Listing, Registered
  <2>3. <<n, entry[slot[n]].running>> \in Names \X BOOLEAN
    BY <1>1, <2>2
  <2>4. QED
    BY <1>2, <2>1, <2>3 DEF LocalsTyped
<1>4. CASE ListEnds
  <2>1. {s[1] : s \in query.listed} \subseteq Names
    BY <1>2 DEF LocalsTyped
  <2>2. QED
    BY <1>2, <1>4, <2>1 DEF ListEnds, LocalsTyped, PCs
<1>5. CASE NextStatus
  <2>1. PICK s \in query.listed :
          query' = IF Skips(s[1]) THEN [query EXCEPT !.todo = @ \ {s[1]}]
                   ELSE [query EXCEPT !.pc = IF query.kind = "catalog" THEN "status" ELSE "snap",
                                      !.todo = @ \ {s[1]}, !.name = s[1],
                                      !.at = slot[s[1]], !.running = s[2]]
    BY <1>5 DEF NextStatus
  <2>2. s[1] \in Names /\ s[2] \in BOOLEAN /\ slot[s[1]] \in Entries \cup {None}
    BY <1>2 DEF LocalsTyped
  <2>3. QED
    BY <1>2, <2>1, <2>2 DEF LocalsTyped, PCs
<1>6. CASE ViewEnds
  BY <1>2, <1>6 DEF ViewEnds, LocalsTyped, PCs
<1>7. CASE ReadStatus
  <2>1. query.at \in Entries
    BY <1>7 DEF ReadStatus, Expansion, InHand, Views, HasName
  <2>2. QED
    BY <1>1, <1>2, <1>7, <2>1 DEF ReadStatus, LocalsTyped, PCs
<1>8. CASE ReadFirst \/ UseFirst
  BY <1>2, <1>8 DEF ReadFirst, UseFirst, LocalsTyped, PCs
<1>9. CASE ReadCount \/ SnapEntry
  <2>1. query.name \in Names /\ query.at \in Entries /\ query.running \in BOOLEAN
    BY <1>2, <1>9 DEF ReadCount, SnapEntry, InHand, Views, HasName, LocalsTyped
  <2>2. CASE ReadCount
    <3> DEFINE row == [name |-> query.name, running |-> query.running,
                       count |-> Len(entry[query.at].tools)]
    <3>1. row \in CatalogRows /\ query.kind = "catalog"
      BY <1>1, <2>1, <2>2 DEF CatalogRows, ReadCount
    <3>2. Reports(row)
      BY <2>2 DEF ReadCount
    <3> HIDE DEF row
    <3>3. QED
      BY <1>2, <3>1, <3>2 DEF Reports, LocalsTyped, PCs
  <2>3. CASE SnapEntry
    <3> DEFINE row == RowOf(query.at)
    <3>1. Exported(entry[query.at].config) \in Configs
      BY <1>1, <2>1, GivenAssumption
    <3>2. row \in ProfileRows
      BY <1>1, <2>1, <3>1 DEF ProfileRows, RowOf
    <3>3. Reports(row)
      BY <2>3 DEF SnapEntry
    <3> HIDE DEF row
    <3>4. QED
      BY <1>2, <3>2, <3>3 DEF Reports, LocalsTyped, PCs
  <2>4. QED
    BY <1>9, <2>2, <2>3
<1>10. QED
  BY <1>3, <1>4, <1>5, <1>6, <1>7, <1>8, <1>9

(* Every step preserves the types.                                         *)
LEMMA TypedStep == MatchInv /\ Typed /\ [Next]_vars => Typed'
<1> SUFFICES ASSUME MatchInv, Typed, [Next]_vars PROVE LocalsTyped'
  BY WorldTypedStep DEF Typed
<1>1. CASE NextImport \/ ImportOne
  <2> USE DEF MatchInv, ViewInv, Shape, QFields
  <2>1. LocalsTyped
    BY DEF Typed
  <2>2. CASE \E n \in query.todo \cap Names :
               query' = [query EXCEPT !.pc = IF Skipped(n) THEN @ ELSE "register",
                                      !.todo = @ \ {n}, !.name = n]
    <3>1. PICK n \in Names :
            query' = [query EXCEPT !.pc = IF Skipped(n) THEN @ ELSE "register",
                                   !.todo = @ \ {n}, !.name = n]
      BY <2>2
    <3>2. /\ query'.pc \in {query.pc, "register"} /\ query'.todo \subseteq query.todo
          /\ query'.name = n
          /\ \A f \in QFields \ {"pc", "todo", "name"} : query'[f] = query[f]
      BY <3>1
    <3>3. QED
      BY <2>1, <3>2 DEF LocalsTyped, PCs
  <2>3. CASE query' = [query EXCEPT !.pc = "done"]
    BY <2>1, <2>3 DEF LocalsTyped, PCs
  <2>4. CASE ImportOne
    <3>1. query' = [query EXCEPT !.pc = "next", !.name = None]
      BY <2>4 DEF ImportOne
    <3>2. QED
      BY <2>1, <3>1 DEF LocalsTyped, PCs
  <2>5. QED
    BY <1>1, <2>2, <2>3, <2>4 DEF NextImport
<1>2. CASE Others \/ UNCHANGED vars
  BY <1>2 DEF Others, vars, Typed, LocalsTyped
<1>3. QED
  BY <1>1, <1>2, BegunTyped, FoundTyped, ViewsTyped DEF Next, Query

(* TypeOK: whatever others do between the caller's steps, what it holds    *)
(* and reports are names, entries, statuses and tools, and the rows of a   *)
(* profile are those an import can register.                               *)
THEOREM ViewsTypeOK == Spec => []TypeOK
<1>1. MatchInv /\ Typed => TypeOK
  <2> SUFFICES ASSUME MatchInv, Typed PROVE TypeOK
    OBVIOUS
  <2>1. DOMAIN query = DOMAIN Idle
    BY DEF MatchInv, ViewInv, Shape, QFields, Idle
  <2>2. query.best \in Seq(Tools)
    BY DEF MatchInv, Returned
  <2>3. QED
    BY <2>1, <2>2 DEF Typed, WorldTyped, LocalsTyped, TypeOK
<1>2. Init => Typed
  BY TypedInit
<1>3. MatchInv /\ Typed /\ [Next]_vars => Typed'
  BY TypedStep
<1>4. QED
  BY <1>1, <1>2, <1>3, MatchHolds, PTL DEF Spec
=============================================================================
