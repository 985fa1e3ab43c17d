# A TLA+ model of the neuralgentics broker

The broker is a Go library (`src/src/neuralgentics/broker`) that sits between
the roles of a multi-agent system and the MCP servers they use. It starts the
servers, speaks JSON-RPC to them, decides which role may call which server,
writes an audit log of the calls, and keeps catalogs of tools and skills.

This directory holds its specification: TLA+ modules translated from the
source, small instances that TLC checks exhaustively, and theorems that TLAPS
proves for every value of the constants. `PROJECT.json` maps every definition
to the lines it models. File names below are relative to the broker's directory.

## 1. Inventory

| part | state it keeps | operations | hard behaviour |
|---|---|---|---|
| stdio MCP proxy, `proxy/proxy.go` | id counter, map of pending calls, `running`, `readerCh`, `readerDone`; one reader goroutine per server | `StartReader`, `readLoop`, `Stop`, `sendRPC` (under `Initialize`, `Call`, `ListTools`) | one id space and one write lock for all servers; a timer races a late response; `Stop` races a delivery; channels closed by name |
| HTTP client, `proxy/http_client.go` | session id, id counter, protocol version | `Initialize`, `ListTools`, `Call`, over `net/http` | none of its own: one synchronous exchange per method |
| audit writer, `audit/` | buffer, `closed`, two sinks, flusher goroutine | `Write`, `Flush`, the flusher, `Close` | a batch is in neither place while it is written; `Close` against `Flush`; one sink fails |
| access control, `access/access.go` | map from server to list of roles | `CanAccess`, `GetAccessibleServers`, `Grant`, `Revoke` | an empty list means "open", so a sequence of revocations opens a server; the map has no lock |
| registry, `registry/registry.go` | map from name to entry; each entry holds configuration, process, pipes, tools | `Register`, `Unregister`, `SetConfig`, `SetRuntime`, `ClearRuntime`, `SetTools`, `Get`, `List`, `GetAllTools` | two locks, of the map and of an entry, each held for one access; whoever holds an entry may use it after its name was given away |
| launcher, `launcher/launcher.go` | none; subprocesses and one watcher goroutine each | `Start`, `Stop`, the watcher, `Health` | `Stop` and the watcher both `Wait`; a watcher runs late; an interrupt that is ignored |
| broker, operations on servers, `broker.go` | registry, HTTP clients | register, start, reload, deregister, deactivate, activate (also from the curated catalog) | operations look the entry up by name again and again; a fallback between transports must undo what it did |
| broker, tool calls, `broker.go` | none of its own | `Call` | the decision, the request and the audit record are separate steps; every outcome must leave one record |
| server catalog, `catalog/catalog.go`, `prompt.go` | none | `Build`, `ExpandServer` | reads names, entries and fields one after the other, some without the entry's lock |
| intent matcher, `intent/matcher.go` | none | `Match`, `MatchAll` | ties, repeated words, a limit and a threshold |
| profiles, `profile/profile.go` | an archive file | `ExportProfile`, `ImportProfile` | what a round trip loses; names are tested and registered in two steps; a restart in between |
| skill body cache, `catalog/skill_cache.go` | LRU list, map, byte counter | `Get`, `Put`, `Invalidate`, `InvalidateAll` | files change between the stat and the read; two bounds and a counter to keep exact |
| skill catalog, `catalog/skills.go` | none; reads the scope file, the manifest and the skills | `BuildSkills` | order of tag modifiers; deduplication over a map walked in any order |
| command line, `src/cmd/broker/main.go` | none | a demonstration of the library | none |

How they interact. `Broker.Call` asks access control, then takes the HTTP
client stored under the server's name if there is one, or the pipes the
registry holds and the shared proxy, and leaves a record with the audit writer.
`StartServer` goes launcher, registry, proxy (`StartReader`, `Initialize`,
`ListTools`), registry. The launcher's watcher writes to the registry on its
own. Readers of all servers share the proxy's state with all calls. The
catalog, the matcher and the export read the registry while all of these go on.
Only the audit sinks and exported profiles outlive the process; a crash is the
variable `panic` or `crashed`, which stops every goroutine, and the restart that
an imported profile is for is an action of `RegistryViews`.

What makes each part correct:

* proxy: it is a remote call that is executed at most once; a response reaches
  the call that asked, every call returns unless a write is blocked for ever, no
  id leaks, no reader blocks, no channel is closed twice or used closed;
* audit: each sink is an append-only log of what was accepted, once, in order,
  complete before `Close` seals it, and broken only by an error of its own;
* access: a grant lasts until the revocation, a revocation until a grant, the
  listing agrees with the decision, and nobody else is affected;
* lifecycle: the registry names the process that runs, and only that one runs;
  a failure or a fallback leaves the entry as it was; operations return, or
  stay in a handshake;
* calls: decided by what the matrix said during the call; nothing sent for a
  refused one; one record each, which arrives;
* views: every row was true during the query, and none is missing; the match
  is the best of what was there all the time; an import restores an export;
* cache: list, map and counter agree, both bounds hold, the oldest go first, a
  body served is the file's;
* skill catalog: modifiers apply in order, deduplication hides nothing visible.

Every point of the code where one of these could go wrong is a hazard in
`PROJECT.json`, with the properties that would notice.

## 2. Modules

| module | models | proofs |
|---|---|---|
| `Rpc` | abstract: a remote call that is executed at most once | |
| `MCPProxy` | the proxy, its readers and calls, and the servers' ends of the pipes; implements `Rpc` | `MCPProxyProofs` |
| `Log` | abstract: an append-only log that may lose its tail's turn only by breaking | |
| `AuditWriter` | the audit writer and its two sinks; each implements `Log` | `AuditWriterProofs` |
| `AccessControl` | the permission matrix | `AccessControlProofs` |
| `BrokerCall` | `Broker.Call` over `AccessControl`, the transports as `Rpc` allows them, and `Log` | `BrokerCallProofs` |
| `ServerLifecycle` | one name: registry slot, entries, launcher, watchers, HTTP client, and the broker operations on it | `ServerLifecycleProofs` |
| `Registry` | the registry and its two kinds of locks | |
| `IntentMatcher` | the matcher's algorithms as operators | in `RegistryViewsProofs` |
| `RegistryViews` | catalog, expansion, match, export, import and restart, over `Registry` and `IntentMatcher` | `RegistryViewsProofs` |
| `SkillBodyCache` | the cache and the files it looks at | `SkillBodyCacheProofs` |
| `SkillCatalog` | `BuildSkills` | `SkillCatalogProofs` |

`MCx` is the TLC instance of module `x`: definitions for constants that a
configuration cannot write, and the symmetry set. A definition that a comment
calls a *mutant* is a plausible slip in the definition after it; it is used by
no action, and `PROJECT.json` names the property that would notice the swap.

### MCPProxy and Rpc

Goroutines are program counters: `reader[s]` inside `readLoop`, `call[c]` inside
`sendRPC`. An action runs from one release of `p.mu` or `p.writeMu`, or one
channel operation, to the next, so `Scan` (copies `readerCh` under the lock),
`CheckStop` (the select on the copy), `Route` (the lookup under the lock) and
`Deliver` (the send outside it) are four actions, and `Stop` or `StartReader`
may run between any two. The channels `readerCh` and `readerDone` are named
after the server whose `StartReader` made them, and closing one is membership in
a set, so a second close and a send on a closed channel are visible as `panic`.
A call's channel has one place, `reply[c]`.

Servers are the environment: they read their stdin, answer in any order, late,
once or never, emit lines without an id or lines beyond the scanner's buffer,
and exit at any time. Pipes are sets, which allows any order of lines, more
than a pipe does; a response is routed by its id alone. A server is one
incarnation of a subprocess, and it is assumed to answer only ids it was asked,
over the pipe it was asked through.

`Rpc` is what a caller may rely on: a request leaves for one server at most
once, is answered at most once, requests and answers get lost but never
duplicated, and the call ends once, with the answer of its own server or with an
error that says nothing about whether the request was executed. The refinement
mapping (`Phase`, `Stage`, and the fields `srv`, `result`, `from` of the calls)
looks in stdin, the server, stdout, the reader's hands and the channel for the
request and its answer. The property is `AtMostOnceCalls == Abstract!Spec`.

### AuditWriter and Log

`Write` is one action under the lock. Each goroutine that writes a batch
(flusher, explicit `Flush`, `Close`) takes the buffer under the lock and then
goes through `CheckFile`, one `Encode` per record, `CheckPG` and `Transact`
without it. `Close` is split where it waits for the flusher and where it closes
and then forgets each sink. `accepted` and `refused` are histories.

`Log` has a sequence `due` of records that have not had their turn. For the
file, `due` is what is left of the flusher's batch, then of the batch `Close`
took, then the buffer; for the table, whole batches until their transaction.
A failing `Encode` gives the rest of its batch a turn and breaks the file's log;
`FileIsLog` and `TableIsLog` say that nothing else loses, repeats or reorders a
record and that a sink is closed only when nothing is due.

### AccessControl

One action per operation; `granted` and `revoked` are histories of the pairs
granted and not revoked since, and the reverse. A list of roles is a set: its
order and its duplicates change no result (Revoke filters every copy).

### BrokerCall

`Call` is `Begin`, `Check` (CanAccess), `Refuse` (the list of servers in the
refusal, a second reading of the matrix), `Route` (client, pipes or neither),
`Send`, `Receive` and `Return` (the audit record). Grants and revocations of
`AccessControl` come between any two of them, since no lock orders them. What a
transport may do is what `Rpc` allows: the server executes a request at most
once, possibly after its caller gave up. The audit writer is a `Log` that is
closed at any time and whose sink may break. `denials` is a history of what
`CanAccess` could have said since the call began, `earlier` of the calls that
had returned by then. `MapRace` is the Go runtime noticing a map that is read
and written at once: it ends the process.

### ServerLifecycle

One name, since names share nothing but the proxy. Each access to the registry
is a step of its own: `StartServer` is `ReadConfig`, `Spawn`, `Publish`,
`Refresh`, `Handshake`, `StoreTools`; `Launcher.Stop` is `Signal`, `StopWaits`
or `StopKills`, `StopClears`; activation is `TryHTTP`/`SetHTTPConfig`/
`SetHTTPRuntime`/`StoreClient` or `TryStdio`/`Attempt`/.../`Rollback`, and from
the curated catalog it registers first and looks its entry up in `Found`.
`Deactivate` is `Check`, `Leave` or the way through `Stop`. The watcher is two steps,
`WatcherWakes` (its `Wait` returns) and `WatcherClears`. `reaped` says who of
`Stop` and the watcher collected the exit status. Objects nobody refers to are
recycled, which keeps the state finite and stands for allocation. `Kinds`
chooses which operations callers run, `LateWatcher` whether a watcher may still
be pending when the next operation moves.

A configuration is of type stdio or of type HTTP (http or sse), and
`RegisterServer` asks for a command whatever the type. `Commanded` are the HTTP
configurations that have one; those a `TransportConfig` converts to have none
(`TransportConfigs`). The launcher runs whatever has a command (`Launchable`) but
makes pipes for type stdio alone, so an entry has a field `pipes` beside its
process. `Refresh` fails without pipes, and as the code does it leaves the
process running.

### Registry, IntentMatcher and RegistryViews

`Registry` has an action per method that changes a slot or an entry, and the
read lock that `List` holds. `RegistryViews` lets one goroutine ask a question
and `Others` change the registry or its role's access between any two of its
reads: any write to a name, or to an entry somebody may hold. `Snapshot`, `Get`
and `List` are what the code's locks make of them; `buildSummary` and
`ExpandServer` read fields of an entry one by one without its lock, so they are
`ReadStatus`, `ReadFirst`, `UseFirst`, `ReadCount`, `ReadSize` and `FillTools`.
The export writes an archive, `Restart` empties the registry at any time, and
the import verifies the archive, tests each name and registers it in a second
step. `seen` is a history: the entries each name had, the states each entry had,
the names that stayed, and the access that was there at some time and all the
time, since the query began.

`IntentMatcher` is `RemoveStopWords`, the similarity of stems as an exact
fraction, the bonus for words of the name, insertion in order of score (`Place`,
`Ranked`), limit and threshold. Loops over a list are recursive functions on its
prefixes, so that they can be proved about. Words are model values; stems and
substrings are given as data.

### SkillBodyCache

The operations hold `c.mu`, so only the outside world interleaves with them.
`Get` is `GetStat` and, when it has to read, `GetRead`; the file may be
rewritten or removed in between, and `reading` remembers the stat. A file is
its version: every write gives it a new one, which stands for the content and
for the modification time; `Size` gives each version a length. `EnforceLimits`
states what the two loops of `enforceLimits` reach: the least number of elements
from the front whose removal satisfies both bounds, or all of them. `BytesOf`
counts the bytes of entries one by one, as elements of a set.

### SkillCatalog

`BuildSkills` as a walk: `WalkLocal` per local skill, then `EnterRepo` for any
repository of the manifest not visited yet, `WalkExternal` per skill in it,
`LeaveRepo`. `MergedTags` applies the modifiers in turn to the scope file's tags,
`AgentScope` and `Visible` are `mergeTags` and the filter that both walks apply.
The initial states are all combinations of role, scope file and skills.

## 3. Runs

`tlc -config <cfg> <module>` from this directory. The passing runs take from
seconds to about two minutes.

| run | module, cfg | shows | bounds |
|---|---|---|---|
| `proxy_safety` | `MCMCPProxy`, `MCPProxySafety` | routing, no leaked id, no blocked reader, no channel in use closed, and the refinement of `Rpc` | 2 servers, 2 calls, pipe of 1 |
| `proxy_live` | `MCMCPProxy`, `MCPProxyLive` | every call returns, unless a write is blocked for ever | 1 server that may stop reading, 2 calls, pipe of 1, noise on stdout |
| `audit_log` | `MCAuditWriter`, `AuditLog` | file and table are logs; records arrive; `Close` returns | 3 records, 2 closers, batch of 1, both sinks may fail |
| `access_matrix` | `MCAccessControl`, `AccessMatrix` | grants, revocations and the listing agree | 3 roles, 2 servers, every initial matrix |
| `broker_call` | `MCBrokerCall`, `BrokerCall` | decisions are timely; one record per call, and it arrives | 2 calls, 2 roles, 1 server, every initial matrix, any changes of it |
| `lifecycle_sequential` | `MCServerLifecycle`, `LifecycleSequential` | one caller, all operations: tools match the process, rollback restores, handles are kept | 1 caller, 2 processes, 2 stdio configurations, 1 HTTP configuration without and 1 with a command, late watchers |
| `lifecycle_concurrent` | `MCServerLifecycle`, `LifecycleConcurrent` | what Stop stops is dead; operations return or stay in a handshake; statuses are collected and failures cleared | 2 callers, 1 process object, late watchers |
| `skill_cache` | `MCSkillBodyCache`, `SkillCache` | list, map and counter agree, bounds hold, oldest first and none without need, bodies are current | 3 files of 3 versions with lengths 1, 2, 3; capacity 2; 3 bytes |
| `skill_catalog` | `MCSkillCatalog`, `SkillCatalog` | merge of tags and deduplication | 3 roles, 2 names, 2 tags, 6 tag lists, 1 local skill, 2 repositories of 1 skill |
| `registry_views` | `MCRegistryViews`, `RegistryViews` | rows were true and none is missing, the match is the best and accessible, an import restores | 2 names, 3 entries, 4 tools, 1 change by others, every initial registry |
| `proxy_stop` | `MCMCPProxy`, `MCPProxy_StopIsSafe` | a disagreement, section 6 | 1 server |
| `lifecycle_late_watcher` | `MCServerLifecycle`, `Lifecycle_ClearsAfterExit` | a disagreement, section 6 | 1 caller |

Why the bounds suffice for what they are meant to show:

* Two calls are one that holds the write lock, a pending entry or a channel and
  one it can disturb; two servers are two readers that share the proxy. A pipe
  of one request makes writes block. The safety properties of this run are also
  proved for all sizes.
* Three records are one in the file, one in the flusher's batch and one in the
  buffer or in `Close`'s batch, and two of them in one batch are a record behind
  one that fails. A batch size of 1 is the smallest that matters: nothing that
  runs depends on it (section 6). Both refinements are proved for all sizes.
* Two calls of `Broker.Call` are one whose record may come before, after or
  between the other's steps; one server is enough because a decision reads one
  list. The safety properties are proved for all sizes.
* Two process objects are a current one and the one it replaced; with recycling,
  sequences of any length occur. Two stdio configurations are the old and the
  new one; the HTTP configurations are one that the launcher cannot start and one
  that it starts without pipes.
* `MaxWrites` is 1: one write by others, at any point of a query of several
  reads, is what the code's steps are torn by; the third entry is the one a
  second registration needs. One question is asked per behaviour, or a profile
  is exported and then imported, since questions leave nothing behind but the
  archive. All properties of this run are proved for any number of writes.
* A length of 3 fills the cache alone, 1 and 2 fill it together; three files
  are one more than the capacity. All properties of this run are also proved for
  all sizes, as are those of the next.
* Two repositories that offer one name, with tags that make one of them visible
  and the other not, in either order, are what deduplication has to get right.

Deadlock checking is off where the system may stop: all calls done, a writer
closed, a broker that panicked, a question answered, a catalog built. The runs of
the lifecycle, the matrix and the skill cache check for deadlock: no sequence of
operations, exits and late watchers leaves a caller without a step. Symmetry is
used in runs of safety properties only.

## 4. Fairness

* `MCPProxy!Scheduled`: weak fairness of each reader and each call. The Go
  scheduler runs every runnable goroutine, a `select` with a timer returns, and
  a mutex is handed to a waiter eventually. Nothing is assumed of servers:
  reading, answering, notifying and exiting are never fair. A write to a full
  pipe is therefore not bound to return, and no timer runs yet; the property says
  so (`Blocked`, `CallsReturnUnlessBlocked`), and its stronger form without the
  exception is in section 6.
* `AuditWriter!Scheduled`: goroutines that write or close do go on, and the
  flusher loop sees its closed channel. `Timer`: the ticker fires. Nobody has to
  call `Flush` or `Close`, and a sink call returns.
* `BrokerCall!CallFairness`: the audit writer writes what it holds, which is what
  `RecordLogged` shows of `AuditWriter`. A call itself need not go on: over stdio
  its request may block before a timer is set.
* `ServerLifecycle!Fairness`: a goroutine in an operation goes on, except in the
  handshake, and watchers wake. `Stop`'s wait is bounded by a timer. The handshake
  writes through the proxy, where a server that does not read, its own or another,
  may block it for ever; so `OperationsReturn` promises a return or a stay in the
  handshake. No process has to exit and nobody has to request anything.
* The views, the cache and the catalog are checked for safety only: they are
  loops over what they have read, without waits.

## 5. Proofs

`tlapm <module>` checks them; every leaf is discharged by SMT, Zenon or, for the
temporal steps, PTL. All theorems hold for every value of the constants that
satisfies the named assumptions. Every invariant, action property and refinement
that a passing run checks is stated by a theorem; only the liveness properties
are not.

**MCPProxyProofs.** `Invariant` shows `Spec => []IInv`; `Typed`, `Routed`,
`NoLeak`, `DeliverFree` and `ClosedOnce` follow from it. Assumed: `None` is no
server and no call, the pipe capacity is a positive number, noise is among the
two kinds of lines without an id. The sets of servers and calls may be infinite.

That a call only gets its own server's response is not inductive. It needs
`Routing` (an id in the pipes of a server, or in its reader's hands, was issued
to a call on that server) and `IdsUnique` (so the entry under that id *is* that
call). That a reader never blocks needs `OnePlace`: a request and its response
are in exactly one of the places not yet written, stdin, the server, stdout, the
reader, the channel, the caller; so when a reader holds a response its channel
is empty, also after the timer has fired. `CallShape` ties ids to program
counters and `writeMu`, and `ReaderStarted` says a reader channel belongs to a
reader that was started, which makes the channel of the next `StartReader` open.

`Refines == Spec => AtMostOnceCalls` is the refinement of `Rpc`. The same `IInv`
makes the stages of a request disjoint; then each action is shown to be one of
`Rpc`'s or a stutter. Whatever drops lines (a reader that ends, a process that
exits, a response for a call that gave up) is `Lose` of a set of requests.

**AuditWriterProofs.** `LocalHolds` and `WriterTyped` hold for any goroutines
that flush and close: `LocalInv` is the types and the shape of a batch (a
goroutine has one only while it writes; its position is within it). The two
refinements, `FileRefines` and `TableRefines`, assume `Flushers = {Ticker}`,
because an explicit `Flush` does lose order and records (section 6). So does
`TickerNeverCrashes`: the nil handle of section 6 is used only after an explicit
`Flush`, however many goroutines call `Close`. They need
`ClosingInv`: one `Close` at most is under way; after `flusherWG.Wait` the
ticker is done and `Close` is alone; the buffer stays empty once `closed` is
set; a sink is closed only after the batch was written. Hence the batch being
written is always the first part of `due`, and the lemmas about `DueOf` (taking
a turn, moving the buffer to a batch, accepting) do the rest.
`FileComplete` and `TableComplete` say what being a `Log` gives: a sink without an
error holds a prefix of what was accepted, and all of it once it is closed. Their
invariant, that what is logged followed by what is due is what was accepted
(`Whole`), is about `Log` alone and carries over by the refinements.

`WrittenOnce` is what remains for any goroutines that flush and close at the same
time: no sink gets a record twice or one that was not accepted, and while it is
open and had no error, every accepted record that it lacks is in the buffer or in
an unfinished batch. The order is not claimed, nor anything for a sink that was
closed meanwhile: neither holds. Its invariant `OnceInv` says that the buffer,
what is left of each batch, and what the sink holds are apart and each without
repetition; `StepMoves` sorts the steps of a goroutine into six kinds, by what
they move, and one lemma about sets (`SinkMoves`) covers them all.

**AccessControlProofs.** `Invariant` shows that a granted pair is on its list
and a revoked one is on none; `TypeCorrect`, `GrantHolds`, `RevokeHolds`,
`ListingHolds` and the action property `LossHolds` follow. Assumed: the
orchestrator is a role. This inductive invariant is stronger than
`GrantedCanAccess`, which an empty list would satisfy too until the next grant
closes it.

**BrokerCallProofs.** `CallTyped`, `Timely` and `Recording`, from the inductive
`CallIInv`: `Decided` says that what a call has done so far (been admitted, been
refused) is among the answers `CanAccess` could have given since it began, which
every change of the matrix keeps because `denials` records the new answer;
`Shape` says which fields are set where; `Past` that only calls that returned
are logged, refused or looked back at. Assumed: `AuditFaulty` is a Boolean.

**ServerLifecycleProofs.** For any goroutines: `LifecycleTyped` and `Killed`
(`StopKillsWhatItStops`), from `StopInv`, which adds what the locals at each
program counter must be. The step that matters is that a process which an
operation is about to clear is not recycled by `Spawn`. For one goroutine, with
processes, entries and late watchers as free as in the model: `RestoresHolds`,
`ToolsHold` and `HandlesHold`, under `Ops = {o}`, which `lifecycle_sequential`
assumes too; with two callers the properties do not hold. `AloneInv` adds
`Restores(o)` (what activation would put back is what it found) and `Alone(o)`
(the name stands for the process in hand or for none, except where a start has
not stored its tools yet). `ToolsHold` is about the entry's pipes, which is what
`Call` writes to: `PipesInv` says that an entry has pipes only with a process, and
the tools match where there are pipes. Of a process without pipes (section 6)
nothing is claimed.

**RegistryViewsProofs.** `RowsHold`, `ViewsHold` and `RestoresServers`, for any
number of names, entries, questions and writes by others; TLC explores one write.
`History` says that the histories hold what is the case now; `Collected` and `InHand` that
every status, row and entry taken so far was true; `Complete` that every name
that stayed is still to be looked at, in hand, or in a row; `Listing` that no
name goes away while `List` holds its lock. After a panic of `buildSummary` (see
section 6) nothing is claimed about completeness. Assumed: reported tools are
tools, and `None` is not one of them. `RestoresServers` (`ImportRestores`, with
restarts at any time) needs `RestoreInv`: an entry has had one name at most; a
name nobody else changed stands for nothing or for what an import put there; the
archive has one row per name; and each row of the archive is still pending, in
hand, or registered.

**SkillBodyCacheProofs.** `CacheCoherent` and `GetCurrent`, under the explicit
hypothesis `~StalePuts` (callers put only what the file holds now). `Coherent`
alone is not inductive: an entry with a time its file has not had yet would
become fresh by a later write. `Dated` excludes it: no entry, and no `Get` that
is reading, carries a time above its file's last version. `GetRead` stores the
version of *now* with the time of *before*, so a body that is newer than its
time is harmless: its time is then in the past and never matches again.

The theorems about the list, the counter and the limits need no such hypothesis:
`CacheTyped`, `ListHolds`, `BytesHold`, `LimitsAlwaysHold` and the action property
`OldestLeave`. Their invariant is `CacheInv`, which adds `Listed` (list and map
hold the same paths, each once), `BytesExact` and `LimitsHold` to the types.
`BytesExact` is not inductive without `Listed`, nor `LimitsHold` without both:
what an eviction subtracts is right because each path is listed once, and
evicting everything satisfies the limits because the counter is exact. The bytes of a set of
entries are a cardinality, so a sum over disjoint sets of paths is the theorem
about disjoint unions (`BytesSplit`), and no induction is needed. `OldestLeave`
uses that `EnforceLimits` takes the least number of elements from the front:
what is read or put is at the end of the list, and if it fits alone, fewer than
all elements satisfy both limits. The last element taken could not have stayed,
since one element less did not satisfy them (`StoreForNeed`).

**SkillCatalogProofs.** `CatalogTyped`, `HiddenBySubtraction` and
`VisibleNamesListed`, for any skills, scope files and repositories, and modifiers
of any number. What `mergeTags` computes is proved by induction on the number of
modifiers applied (`MergeSteps`, `TagTakenAway`: a tag the role had is lost only
if the last modifier that names it removes it). For the walks, `CatalogInv` says
that `seenNames` has the names of the catalog and that every visible skill walked
so far has its name among them (`Caught`), that only names of visible skills are
listed, that local summaries come first and that external names are unique; a
hidden skill adds no name to `seenNames`, so it keeps no visible one out.

**The matcher, in RegistryViewsProofs.** For any words, stop words, stems and
tools: `RankedBest` (the list that insertion leaves has exactly the tools with a
score, in descending order), `AllMatches` (so does what `MatchAll` returns, up to
the limit) and `BestMatch` (`Match` returns the best, or nothing when all are below
the threshold). Which of two tools with equal scores comes first is not claimed (section 7).
They follow from `Placed`, one insertion, and `AtLeastOrder`, that comparing
fractions by cross multiplication is an order. `Place` counts the
matches that stay in front where the code's loop stops at the first of them;
`FirstOnes` is why these are the same in a list that is in order.

`MatchAccessible` and `BestIsMatched` then need `MatchInv`: every tool collected
was offered by some server during the query, and each server that kept one entry
is still to be read or has had what it always offered collected (`Collecting`). `ViewsTypeOK` follows from `Typed`, which tells
rows of profiles from those of catalogs. Assumed: names and descriptions of tools
are made of words that have a stem, so are intents, and what an export writes is
the configuration of a server.

**Induction.** The library's induction theorems take an operator, which the
provers cannot instantiate. `SetInduction` states induction over the numbers for
a *set* that has 0 and the successor of each of its members, and follows from the
well-foundedness of `<`. `RecursionExists`, and `MergeExists` for the tags, derive
from it that a recursion over `1 .. n` has a solution, which is what the recursive
functions in `Keep`, `Ranked` and `MergedTags` choose.

**Left to TLC.** Liveness (`CallsReturnUnlessBlocked`, `RecordLogged`, `CloseReturns`,
`RecordArrives`, `OperationsReturn`, `FailureIsCleared`), which needs fairness
and `ENABLED`; and, in section 6, that the code violates what its documents say.

## 6. Disagreements between the code and its documents

Each is a property that states a document or a comment, and an instance in which
TLC finds the code violating it. The first two are among the runs of
`PROJECT.json`; the others are kept as regression statements: each becomes a
passing run when the code is repaired. Most have a configuration of their own.
Those marked * are checked by putting them in place of the properties of the
configuration named (`ImportSkips` as a `PROPERTY`, the others as an `INVARIANT`).

| property, cfg | what happens |
|---|---|
| `StopIsSafe`, `MCPProxy_StopIsSafe` | `readLoop` finds a call's channel under `p.mu` and sends after unlocking; `Stop` closes it in between; the send panics (proxy.go:162-165, 209-212) |
| `ClearsAfterExit`, `Lifecycle_ClearsAfterExit` | the watcher of a process that was replaced clears, by name, the new process (launcher.go:70-76) |
| `EveryCallReturns`, `MCPProxy_StuckServer` | a server that does not read blocks a write that no timer bounds, under the one `writeMu` (proxy.go:350), so a call may hang for ever, against broker_api_test.go:605-607 |
| `OneExitSparesOthers`, `MCPProxy_OneExitSparesOthers` | the end of one reader sets `running` to false for all servers (proxy.go:184) |
| `ReadersExitCleanly`, `MCPProxy_ReadersExitCleanly` | two readers that end close the same `readerDone` (proxy.go:115) |
| `StopEndsReaders`, `MCPProxy_StopEndsReaders` | `Stop` closes `readerCh` and sets it to nil, so no reader sees it (proxy.go:202-205) |
| `OnlyStopEndsAReader`, `MCPProxy_OnlyStopEndsAReader` | `StartReader` of a second server ends the first one's reader (proxy.go:104-108) |
| `InitializedHasNoId`, `MCPProxy_InitializedHasNoId` | the notification carries `"id":0` (proxy.go:20, 242) |
| `BackPressure`, `AuditWriter_BackPressure` | `Write` never waits, at any length of the buffer (audit.go:199-214) |
| `FullBatchFlushed`, `AuditWriter_FullBatchFlushed` | a full batch signals a condition nobody waits on (audit.go:212) |
| `LogComplete`, `AuditWriter_FlushDuringClose` | a `Flush` that took a batch before `Close` loses it |
| `FlushDuringCloseIsSafe`, `AuditWriter_FlushDuringCloseIsSafe` | such a `Flush` may use `w.pgDB` after it became nil (audit.go:310, 340) |
| `LastRevokeCloses`, `Access_LastRevokeCloses` | revoking the last role opens the server to all, as its test expects and its comment denies (access.go:184-199) |
| `NoOrphan`, `Lifecycle_NoOrphan` | starting a running server overwrites the only handle to its process |
| `RouteMatchesTransport`, `Lifecycle_RouteMatchesTransport` | a client of an earlier HTTP activation takes the calls of a stdio server (broker.go:511) |
| `DeregisterCleansClient`, `Lifecycle_DeregisterCleansClient` | an overlapping activation stores its client after the removal |
| `ReloadUsesNewConfig`, `Lifecycle_ReloadUsesNewConfig` | an overlapping activation replaces the configuration before it is read |
| `RunningIsReachable` *, `LifecycleSequential` | a server of type http or sse with a command, which configuration.md:15 allows and `RegisterServer` asks for, is launched without pipes; the start returns an error and leaves the process running under the name (launcher.go:57-68, 211-213, broker.go:175-178) |
| `ExitIsCleared`, `Lifecycle_ExitIsCleared` | a process that exits with status 0 stays in the entry (launcher.go:73) |
| `CatalogFindsTools` *, `RegistryViews` | `buildSummary` tests for a first tool and uses it in a second read, `ExpandServer` makes a slice and fills it in a second read: the list may be shorter, or longer, by then (catalog.go:128-172, against registry.go:17-18) |
| `OnlyAccessibleServers` *, `RegistryViews` | tools found over HTTP carry no server name, so the filter passes them for every role (broker.go:566-584) |
| `ImportSkips` *, `RegistryViews` | a name registered between the test and the registration is overwritten (broker.go:832-845) |
| `EveryServerRestored` *, `RegistryViews` | an import registers only what has a command: servers activated over HTTP do not come back (profile.go:3, types.go:117-118) |
| `SimilarityIsJaccard` *, `RegistryViews` | repeated words of the description count again in both parts of the fraction (matcher.go:175) |
| `Coherent`, `Skill_Coherent` | `Put` of a body got before the last write of its file stores it with the new time; it is served until the next write (skill_cache.go:116-130, against 14-16) |
| `BodiesFit`, `Skill_BodiesFit` | the size counted is that of the stat, the body that of the later read; bodies exceed `maxBytes` (skill_cache.go:63-73) |
| `EmptyScopeAllowsAll` *, `SkillCatalog` | a scope file without a version and without roles hides every skill (skills.go:231-243, 579) |
| `LocalNamesWin` *, `SkillCatalog` | a local skill the role may not see does not keep an external one of its name out (skills.go:425, 496) |

The matrix of `access.go` is a plain map that `Broker.AccessControl` hands out
while `Call` reads it (access.go:109, 199). `MapRace` lets a concurrent write end
the process at any lookup; no line says that this may not happen, so there is no
property about it, and those of `BrokerCall` are about the runs that go on.

## 7. Abstractions and what is not modelled

* Contents of requests, results, records and bodies; wording; logging.
* `SetRPCTimeout`, `SetNotificationHandler`, and the broker's setters: they
  replace a value and are called before the parts are used.
* The HTTP client: each method is one synchronous `net/http` exchange, and the
  session id is written before the client is shared and never renewed. What an
  exchange may come to is a choice in `TryHTTP` of `ServerLifecycle` and in
  `Receive` of `BrokerCall`. The parsing of server-sent events is text.
* The interrupt `Stop` sends has no effect of its own, since a process may end
  at any time; a kill is immediate.
* A file write is atomic and changes the modification time. A writer that
  preserves the time, or writes twice within its resolution, is outside the model.
* Tag lists are sets. Skills whose `SKILL.md` cannot be read or parsed are
  skipped by the code and absent from the model; the two directory layouts yield
  a sequence of skills.
* Scores are exact fractions where the code adds `float64`. Two tools whose
  fractions are equal may differ by rounding in the code (1/4 + 0.05 is a little
  less than 2/10 + 0.1), so it may prefer either; no property or theorem depends
  on their order, and "best" means that no fraction is higher. The reason string of
  a match, `tokenize` and `simpleStem` are left out or given as data.
* The archive's format, its provider and permissions, which no import applies;
  the signature is a passphrase that matches or not.
* Of the server catalog: capabilities, truncation and the layout of the prompt.
  Of the registry: `UpdateEntry`, which only tests call, and `InferCapabilities`.
* Opening the audit sinks, and the disabled writer.
* Health checks, `DiscoverCatalog` and the search of `PATH`, which only read;
  `types.go` and `version.go`, which declare; the command line, which is a
  demonstration that starts no server; the reload on SIGHUP, which the documents
  describe and the source does not have.
* Unsynchronised reads of single words (`readerDone`, the sinks, an entry's
  fields) are atomic actions that see any interleaving, not torn values.

## 8. What is left

1. `RecordArrives` with `AuditWriter` itself in place of `Log`: the composition is
   by the refinement now, and liveness does not carry over without a proof.
2. A second asking goroutine in `RegistryViews`, to see the map's read lock
   shared.
3. Refinement of `Log` with explicit `Flush` calls has no proof because it does
   not hold (section 6), `WrittenOnce` does; with the code repaired,
   `Flushers = {Ticker}` can go.
