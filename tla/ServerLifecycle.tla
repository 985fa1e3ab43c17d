--------------------------- MODULE ServerLifecycle ---------------------------
(***************************************************************************)
(* The life of one server name: its slot in the registry                   *)
(* (registry/registry.go), the subprocesses the launcher starts for it and *)
(* the goroutine that watches each of them (launcher/launcher.go), the     *)
(* HTTP client the broker may hold for it, and the broker operations that  *)
(* register, start, reload, activate and remove it (broker.go).            *)
(*                                                                         *)
(* Every operation looks the entry up by name again and again, and locks   *)
(* it only for one read or one write, so operations and watchers           *)
(* interleave between any two accesses.  Names do not share state except   *)
(* through the proxy, which MCPProxy models.  The two pipes of a           *)
(* subprocess are there together or not at all: one that an HTTP or SSE    *)
(* configuration with a command launches has none.                         *)
(***************************************************************************)
EXTENDS FiniteSets

CONSTANTS Ops,          (* goroutines that run broker operations             *)
          Kinds,        (* the operations they run                           *)
          Entries,      (* *ServerEntry objects                              *)
          Procs,        (* *os.Process objects                               *)
          StdioConfigs, (* configurations of type stdio                      *)
          HTTPConfigs,  (* configurations of type http or sse                *)
          Commanded,    (* the HTTP ones that name a command as well, which  *)
                        (* RegisterServer asks of every configuration        *)
          LateWatcher,  (* a watcher may run long after its process exited   *)
          None

AllKinds == {"register", "overwrite", "start", "reload", "reloadWith",
             "deregister", "deactivate", "activate", "catalog"}

Configs == StdioConfigs \cup HTTPConfigs

(* What a TransportConfig converts to: over HTTP without a command. *)
TransportConfigs == StdioConfigs \cup (HTTPConfigs \ Commanded)

(* What exec.Command may start. *)
Launchable == StdioConfigs \cup Commanded

ASSUME KindAssumption == Kinds \subseteq AllKinds
ASSUME LateAssumption == LateWatcher \in BOOLEAN
ASSUME CommandAssumption == Commanded \subseteq HTTPConfigs
ASSUME DistinctAssumption ==
  /\ StdioConfigs \cap HTTPConfigs = {}
  /\ None \notin Entries \cup Procs \cup Configs

VARIABLES
  slot,   \* registry.servers[name]: an entry or None
  entry,  \* the fields of every ServerEntry
  http,   \* b.httpClients[name]: the client of an HTTP transport, or None
  proc,   \* every subprocess: "running", "succeeded" or "failed"
  reaped, \* its exit status was collected by a Wait
  watch,  \* its watcher: "off", "waiting" or "clearing"
  op      \* the locals of every goroutine in a broker operation

world == <<proc, reaped, watch>>
vars == <<slot, entry, http, world, op>>

PCs == {"idle", "found", "leave", "check", "start", "spawn", "publish", "refresh", "handshake",
        "tools", "stop", "wait", "clear", "remove", "try", "attempt",
        "rollback", "httpConfig", "httpRuntime", "httpStore"}

Sources == Procs \cup HTTPConfigs \cup {None}   \* where a tool list came from

EntryState == [config  : Configs,
               runtime : Procs \cup {None},     \* Process
               pipes   : BOOLEAN,               \* Stdin and Stdout are set
               tools   : Sources]

OpState == [pc    : PCs,
            kind  : AllKinds \cup {"none"},
            ent   : Entries \cup {None},  \* the entry the operation looked up
            at    : Entries \cup {None},  \* the one StartServer looked up
            proc  : Procs \cup {None},    \* the process it works on
            tools : Sources,              \* the tools it read before publishing
            cfg   : Configs \cup {None},  \* the configuration StartServer read
            given : Configs \cup {None},  \* the one the caller or attempt gives
            old   : Configs \cup {None},  \* the one a failed attempt restores
            first : Configs \cup {None},  \* history: the one activation found
            left  : SUBSET Configs,       \* the transports not tried yet
            then  : {"none", "start", "fail", "remove"}]  \* what follows Stop

TypeOK ==
  /\ slot \in Entries \cup {None}
  /\ entry \in [Entries -> EntryState]
  /\ http \in HTTPConfigs \cup {None}
  /\ proc \in [Procs -> {"running", "succeeded", "failed"}]
  /\ reaped \in [Procs -> BOOLEAN]
  /\ watch \in [Procs -> {"off", "waiting", "clearing"}]
  /\ op \in [Ops -> OpState]

Idle == [pc |-> "idle", kind |-> "none", ent |-> None, at |-> None,
         proc |-> None, tools |-> None, cfg |-> None, given |-> None, old |-> None,
         first |-> None, left |-> {}, then |-> "none"]

NewEntry(config) == [config |-> config, runtime |-> None,
                     pipes |-> FALSE, tools |-> None]

(* NewBroker: nothing is registered and no subprocess runs. *)
Init ==
  /\ slot = None /\ http = None
  /\ \E config \in Configs : entry = [e \in Entries |-> NewEntry(config)]
  /\ proc = [p \in Procs |-> "succeeded"]
  /\ reaped = [p \in Procs |-> TRUE]
  /\ watch = [p \in Procs |-> "off"]
  /\ op = [o \in Ops |-> Idle]

-----------------------------------------------------------------------------
(* Objects nobody refers to stand for the ones not allocated yet. *)
Live == ({slot} \cup UNION {{op[o].ent, op[o].at} : o \in Ops}) \cap Entries

FreshEntry(e) == e \notin Live

FreshProc(p) ==
  /\ proc[p] # "running" /\ watch[p] = "off" /\ reaped[p]
  /\ \A e \in Live : p # entry[e].runtime /\ p # entry[e].tools
  /\ \A o \in Ops : p # op[o].proc /\ p # op[o].tools

(* Unless watchers may be late, no operation moves while one has to act.   *)
Settled == LateWatcher \/ \A p \in Procs :
  /\ watch[p] # "clearing"
  /\ watch[p] = "waiting" => proc[p] = "running" \/ reaped[p]

At(o, pc) == op[o].pc = pc /\ Settled

Return(o) == op' = [op EXCEPT ![o] = Idle]

(* StartServer returns an error: activation tries its next transport. *)
StartFails(o) ==
  op' = [op EXCEPT ![o] = IF op[o].kind = "activate"
                          THEN [Idle EXCEPT !.pc = "rollback", !.kind = "activate",
                                            !.ent = op[o].ent, !.old = op[o].old,
                                            !.first = op[o].first,
                                            !.left = op[o].left]
                          ELSE Idle]

(* Launcher.Stop returns to the operation that called it. *)
StopReturns(o) ==
  CASE op[o].then = "start"  -> op' = [op EXCEPT ![o].pc = "start", ![o].proc = None,
                                                 ![o].then = "none"]
    [] op[o].then = "remove" -> op' = [op EXCEPT ![o].pc = "remove", ![o].proc = None,
                                                 ![o].then = "none"]
    [] OTHER                 -> StartFails(o)

ClearSlot == IF slot = None THEN entry
             ELSE [entry EXCEPT ![slot].runtime = None, ![slot].pipes = FALSE]

-----------------------------------------------------------------------------
(* RegisterServer and RegisterMCPServer: a new entry, whatever was there.  *)
Register(o) ==
  /\ At(o, "idle")
  /\ (IF slot = None THEN "register" ELSE "overwrite") \in Kinds
  /\ \E e \in Entries, config \in Configs :
       /\ FreshEntry(e)
       /\ slot' = e
       /\ entry' = [entry EXCEPT ![e] = NewEntry(config)]
  /\ UNCHANGED <<http, world, op>>

(* An operation that finds the name in the registry; otherwise it returns  *)
(* an error and nothing changed.                                           *)
Enter(o, kind, pc) ==
  /\ At(o, "idle") /\ kind \in Kinds /\ slot # None
  /\ op' = [op EXCEPT ![o].pc = pc, ![o].kind = kind, ![o].ent = slot]

Start(o) ==
  /\ Enter(o, "start", "start")
  /\ UNCHANGED <<slot, entry, http, world>>

Reload(o) ==
  /\ Enter(o, "reload", "check")
  /\ UNCHANGED <<slot, entry, http, world>>

ReloadWithConfig(o) ==
  \E config \in Configs :
    /\ At(o, "idle") /\ "reloadWith" \in Kinds /\ slot # None
    /\ entry' = [entry EXCEPT ![slot].config = config]
    /\ op' = [op EXCEPT ![o].pc = "check", ![o].kind = "reloadWith",
                        ![o].ent = slot, ![o].given = config]
    /\ UNCHANGED <<slot, http, world>>

(* Both reloads stop the subprocess the entry names, if there is one. *)
Check(o) ==
  /\ At(o, "check")
  /\ IF entry[op[o].ent].runtime = None
     THEN op' = [op EXCEPT ![o].pc = "start"]
     ELSE op' = [op EXCEPT ![o].pc = "stop", ![o].then = "start"]
  /\ UNCHANGED <<slot, entry, http, world>>

(* DeregisterServer forgets the HTTP client, then stops, then removes. *)
Forget(o) ==
  /\ http' = None
  /\ op' = [op EXCEPT ![o].pc = "stop", ![o].kind = "deregister",
                      ![o].ent = None, ![o].then = "remove"]
  /\ UNCHANGED <<slot, entry, world>>

Deregister(o) == At(o, "idle") /\ "deregister" \in Kinds /\ Forget(o)

(* DeactivateMCPServer looks the name up before it deregisters it. *)
Deactivate(o) ==
  /\ Enter(o, "deactivate", "leave")
  /\ UNCHANGED <<slot, entry, http, world>>

Leave(o) == At(o, "leave") /\ Forget(o)

Remove(o) ==
  /\ At(o, "remove")
  /\ slot' = None
  /\ Return(o)
  /\ UNCHANGED <<entry, http, world>>

-----------------------------------------------------------------------------
(* StartServer and Launcher.Start. *)
ReadConfig(o) ==
  /\ At(o, "start")
  /\ IF slot = None
     THEN StartFails(o)
     ELSE op' = [op EXCEPT ![o].pc = "spawn", ![o].cfg = entry[slot].config]
  /\ UNCHANGED <<slot, entry, http, world>>

(* The subprocess starts, whatever the type, or it does not: the name was  *)
(* removed, there is no command, the command does not run.  The entry and  *)
(* its tools are what Start will publish into.                             *)
Spawn(o) ==
  /\ At(o, "spawn")
  /\ \/ /\ StartFails(o)
        /\ UNCHANGED <<proc, reaped>>
     \/ /\ slot # None /\ op[o].cfg \in Launchable
        /\ \E p \in Procs :
             /\ FreshProc(p)
             /\ proc' = [proc EXCEPT ![p] = "running"]
             /\ reaped' = [reaped EXCEPT ![p] = FALSE]
             /\ op' = [op EXCEPT ![o].pc = "publish", ![o].proc = p,
                                 ![o].at = slot, ![o].tools = entry[slot].tools]
  /\ UNCHANGED <<slot, entry, http, watch>>

(* SetRuntime, with the tools of the step before and pipes if the type is  *)
(* stdio, and the watcher starts.                                          *)
Publish(o) ==
  /\ At(o, "publish")
  /\ entry' = [entry EXCEPT ![op[o].at].runtime = op[o].proc,
                            ![op[o].at].pipes = op[o].cfg \in StdioConfigs,
                            ![op[o].at].tools = op[o].tools]
  /\ watch' = [watch EXCEPT ![op[o].proc] = "waiting"]
  /\ op' = [op EXCEPT ![o].pc = "refresh", ![o].proc = None,
                      ![o].at = None, ![o].tools = None]
  /\ UNCHANGED <<slot, http, proc, reaped>>

(* StartServer looks the name up again for the pipes it will talk to.      *)
(* Without pipes it returns an error and leaves what runs as it is.        *)
Refresh(o) ==
  /\ At(o, "refresh")
  /\ IF slot # None /\ entry[slot].pipes
     THEN op' = [op EXCEPT ![o].pc = "handshake", ![o].at = slot,
                           ![o].proc = entry[slot].runtime]
     ELSE StartFails(o)
  /\ UNCHANGED <<slot, entry, http, world>>

(* Mutant: a failed handshake leaves the server as it is. *)
HandshakeNoStop(o) ==
  /\ At(o, "handshake")
  /\ \/ /\ proc[op[o].proc] = "running"
        /\ op' = [op EXCEPT ![o].pc = "tools"]
     \/ StartFails(o)
  /\ UNCHANGED <<slot, entry, http, world>>

(* Initialize and ListTools: the process answers both, or one of them      *)
(* fails or times out, the proxy is stopped and so is the server.          *)
Handshake(o) ==
  /\ At(o, "handshake")
  /\ \/ /\ proc[op[o].proc] = "running"
        /\ op' = [op EXCEPT ![o].pc = "tools"]
     \/ op' = [op EXCEPT ![o].pc = "stop", ![o].then = "fail",
                         ![o].proc = None, ![o].at = None]
  /\ UNCHANGED <<slot, entry, http, world>>

(* SetTools: the server is started and the operation is over. *)
StoreTools(o) ==
  /\ At(o, "tools")
  /\ entry' = [entry EXCEPT ![op[o].at].tools = op[o].proc]
  /\ Return(o)
  /\ UNCHANGED <<slot, http, world>>

-----------------------------------------------------------------------------
(* Launcher.Stop.  A process may end at any time, so the interrupt it is   *)
(* sent changes nothing here.                                              *)
Signal(o) ==
  /\ At(o, "stop")
  /\ IF slot # None /\ entry[slot].runtime # None
     THEN op' = [op EXCEPT ![o].pc = "wait", ![o].proc = entry[slot].runtime]
     ELSE IF slot = None /\ op[o].then = "start"
     THEN Return(o)
     ELSE StopReturns(o)
  /\ UNCHANGED <<slot, entry, http, world>>

(* Its own Wait returns: whoever calls Wait first collects the status. *)
StopWaits(o) ==
  /\ op[o].pc = "wait" /\ proc[op[o].proc] # "running"
  /\ reaped' = [reaped EXCEPT ![op[o].proc] = TRUE]
  /\ op' = [op EXCEPT ![o].pc = "clear"]
  /\ UNCHANGED <<slot, entry, http, proc, watch>>

(* Mutant: the timer fires and the process is not killed. *)
StopGivesUp(o) ==
  /\ op[o].pc = "wait" /\ proc[op[o].proc] = "running"
  /\ op' = [op EXCEPT ![o].pc = "clear"]
  /\ UNCHANGED <<slot, entry, http, world>>

(* Mutant: no timer bounds the wait. *)
StopWaitsForever(o) ==
  /\ op[o].pc = "wait" /\ proc[op[o].proc] = "running"
  /\ UNCHANGED vars

(* Five seconds passed: Kill.  The goroutine that waits stays behind and   *)
(* may still collect the status before the watcher does.                   *)
StopKills(o) ==
  /\ op[o].pc = "wait" /\ proc[op[o].proc] = "running"
  /\ proc' = [proc EXCEPT ![op[o].proc] = "failed"]
  /\ \E first \in BOOLEAN :
       reaped' = [reaped EXCEPT ![op[o].proc] = first]
  /\ op' = [op EXCEPT ![o].pc = "clear"]
  /\ UNCHANGED <<slot, entry, http, watch>>

(* clearAfterExit, called by Stop. *)
StopClears(o) ==
  /\ At(o, "clear")
  /\ entry' = ClearSlot
  /\ StopReturns(o)
  /\ UNCHANGED <<slot, http, world>>

-----------------------------------------------------------------------------
(* ActivateMCPServerWithTransport: any transports, in any order. *)
TryAll(o, left) ==
  /\ op' = [op EXCEPT ![o].pc = "try", ![o].kind = "activate",
                      ![o].ent = slot, ![o].left = left,
                      ![o].first = entry[slot].config]
  /\ UNCHANGED <<slot, entry, http, world>>

Activate(o) ==
  \E left \in (SUBSET TransportConfigs) \ {{}} :
    At(o, "idle") /\ "activate" \in Kinds /\ slot # None /\ TryAll(o, left)

(* ActivateFromCatalog registers the name anew, whatever is there, and     *)
(* then activates what the name stands for.                                *)
ActivateFromCatalog(o) ==
  /\ At(o, "idle") /\ "catalog" \in Kinds
  /\ \E e \in Entries, left \in SUBSET TransportConfigs : \E config \in left :
       /\ FreshEntry(e)
       /\ slot' = e
       /\ entry' = [entry EXCEPT ![e] = NewEntry(config)]
       /\ op' = [op EXCEPT ![o].pc = "found", ![o].kind = "catalog",
                           ![o].left = left]
  /\ UNCHANGED <<http, world>>

Found(o) ==
  /\ At(o, "found")
  /\ \/ slot # None /\ TryAll(o, op[o].left)
     \/ slot = None /\ Return(o) /\ UNCHANGED <<slot, entry, http, world>>

GiveUp(o) ==
  /\ At(o, "try") /\ op[o].left = {}
  /\ Return(o)
  /\ UNCHANGED <<slot, entry, http, world>>

(* An HTTP transport: its client is initialised and lists tools, or not. *)
TryHTTP(o) ==
  \E config \in HTTPConfigs \cap op[o].left :
    /\ At(o, "try")
    /\ \/ op' = [op EXCEPT ![o].left = @ \ {config}]
       \/ op' = [op EXCEPT ![o].pc = "httpConfig", ![o].given = config]
    /\ UNCHANGED <<slot, entry, http, world>>

SetHTTPConfig(o) ==
  /\ At(o, "httpConfig")
  /\ entry' = [entry EXCEPT ![op[o].ent].config = op[o].given]
  /\ op' = [op EXCEPT ![o].pc = "httpRuntime"]
  /\ UNCHANGED <<slot, http, world>>

SetHTTPRuntime(o) ==
  /\ At(o, "httpRuntime")
  /\ entry' = [entry EXCEPT ![op[o].ent].runtime = None,
                            ![op[o].ent].pipes = FALSE,
                            ![op[o].ent].tools = op[o].given]
  /\ op' = [op EXCEPT ![o].pc = "httpStore"]
  /\ UNCHANGED <<slot, http, world>>

StoreClient(o) ==
  /\ At(o, "httpStore")
  /\ http' = op[o].given
  /\ Return(o)
  /\ UNCHANGED <<slot, entry, world>>

(* Mutant: the entry's configuration is not remembered. *)
TryStdioUnsaved(o) ==
  \E config \in StdioConfigs \cap op[o].left :
    /\ At(o, "try")
    /\ op' = [op EXCEPT ![o].pc = "attempt", ![o].given = config,
                        ![o].left = @ \ {config}]
    /\ UNCHANGED <<slot, entry, http, world>>

(* A stdio transport: the entry's configuration is remembered ... *)
TryStdio(o) ==
  \E config \in StdioConfigs \cap op[o].left :
    /\ At(o, "try")
    /\ op' = [op EXCEPT ![o].pc = "attempt", ![o].given = config,
                        ![o].old = entry[op[o].ent].config,
                        ![o].left = @ \ {config}]
    /\ UNCHANGED <<slot, entry, http, world>>

(* ... and replaced, and StartServer runs. *)
Attempt(o) ==
  /\ At(o, "attempt")
  /\ entry' = [entry EXCEPT ![op[o].ent].config = op[o].given]
  /\ op' = [op EXCEPT ![o].pc = "start"]
  /\ UNCHANGED <<slot, http, world>>

(* Mutant: the failed transport stays in the entry. *)
NoRollback(o) ==
  /\ At(o, "rollback")
  /\ op' = [op EXCEPT ![o].pc = "try", ![o].old = None]
  /\ UNCHANGED <<slot, entry, http, world>>

(* It failed: the configuration is put back and the next one is tried. *)
Rollback(o) ==
  /\ At(o, "rollback")
  /\ entry' = [entry EXCEPT ![op[o].ent].config = op[o].old]
  /\ op' = [op EXCEPT ![o].pc = "try", ![o].old = None]
  /\ UNCHANGED <<slot, http, world>>

-----------------------------------------------------------------------------
(* Mutant: the test of the exit status is inverted. *)
WatcherWakesOnSuccess(p) ==
  /\ watch[p] = "waiting" /\ proc[p] # "running"
  /\ watch' = [watch EXCEPT ![p] = IF ~reaped[p] /\ proc[p] = "succeeded"
                                   THEN "clearing" ELSE "off"]
  /\ reaped' = [reaped EXCEPT ![p] = TRUE]
  /\ UNCHANGED <<slot, entry, http, proc, op>>

(* The watcher: its Wait returns; it clears the name only when it got the  *)
(* status of a process that failed.                                        *)
WatcherWakes(p) ==
  /\ watch[p] = "waiting" /\ proc[p] # "running"
  /\ watch' = [watch EXCEPT ![p] = IF ~reaped[p] /\ proc[p] = "failed"
                                   THEN "clearing" ELSE "off"]
  /\ reaped' = [reaped EXCEPT ![p] = TRUE]
  /\ UNCHANGED <<slot, entry, http, proc, op>>

(* clearAfterExit, called by the watcher: whatever the name now stands for *)
WatcherClears(p) ==
  /\ watch[p] = "clearing"
  /\ watch' = [watch EXCEPT ![p] = "off"]
  /\ entry' = ClearSlot
  /\ UNCHANGED <<slot, http, proc, reaped, op>>

(* A subprocess ends by itself, by the interrupt of Stop or by a crash. *)
Exits(p) ==
  /\ proc[p] = "running"
  /\ \E status \in {"succeeded", "failed"} : proc' = [proc EXCEPT ![p] = status]
  /\ UNCHANGED <<slot, entry, http, reaped, watch, op>>

-----------------------------------------------------------------------------
(* What a goroutine does once it is in an operation. *)
Step(o) ==
  \/ Check(o) \/ Remove(o)
  \/ Leave(o) \/ Found(o)
  \/ ReadConfig(o) \/ Spawn(o) \/ Publish(o) \/ Refresh(o) \/ Handshake(o)
  \/ StoreTools(o)
  \/ Signal(o) \/ StopWaits(o) \/ StopKills(o) \/ StopClears(o)
  \/ GiveUp(o) \/ TryHTTP(o) \/ SetHTTPConfig(o) \/ SetHTTPRuntime(o)
  \/ StoreClient(o) \/ TryStdio(o) \/ Attempt(o) \/ Rollback(o)

Request(o) ==
  \/ Register(o) \/ Start(o) \/ Reload(o) \/ ReloadWithConfig(o)
  \/ Deregister(o) \/ Activate(o)
  \/ Deactivate(o) \/ ActivateFromCatalog(o)

Watcher(p) == WatcherWakes(p) \/ WatcherClears(p)

Next ==
  \/ \E o \in Ops : Request(o) \/ Step(o)
  \/ \E p \in Procs : Watcher(p) \/ Exits(p)

Spec == Init /\ [][Next]_vars

(* Goroutines run and Stop's wait is bounded by a timer.  A handshake is   *)
(* not: it writes to the subprocess under the proxy's one writeMu, and a   *)
(* server that does not read may block that write, or another server's,    *)
(* for ever (EveryCallReturns of MCPProxy).  Nothing says that it ends.    *)
Fairness == /\ \A o \in Ops : WF_vars(op[o].pc # "handshake" /\ Step(o))
            /\ \A p \in Procs : WF_vars(Watcher(p))

FairSpec == Spec /\ Fairness

-----------------------------------------------------------------------------
Quiet == \A o \in Ops : op[o].pc = "idle"

Names(p) == slot # None /\ entry[slot].runtime = p

(* Whatever Launcher.Stop was asked to stop is dead when it clears the     *)
(* name, also when the process ignored the interrupt (launcher.go:112-120).*)
StopKillsWhatItStops ==
  \A o \in Ops : op[o].pc = "clear" => proc[op[o].proc] # "running"

(* Between operations, when Call would write to an entry's pipes, the      *)
(* tools it lists are those of the process at their other end, after       *)
(* failed handshakes, fallbacks, reloads and starts without pipes as well  *)
(* (broker.go:171-200, 532-541, launcher.go:67-68).                        *)
ToolsMatchProcess ==
  Quiet /\ slot # None /\ entry[slot].pipes
    => /\ entry[slot].runtime \in Procs
       /\ entry[slot].tools = entry[slot].runtime

(* Before each transport, and so when it gives up, activation has restored *)
(* the configuration it found (broker.go:384-386).                         *)
RollbackRestores ==
  \A o \in Ops :
    op[o].pc = "try" => entry[op[o].ent].config = op[o].first

(* "It also cleans up any HTTP client associated with the server"          *)
(* (broker.go:287): a name that is not registered has no client.           *)
DeregisterCleansClient == Quiet /\ slot = None => http = None

(* "transport: stdio # or http/sse" of a server with a command             *)
(* (docs/configuration.md:15): a subprocess the broker runs for a server   *)
(* can be called once the start is over.                                   *)
RunningIsReachable ==
  Quiet /\ slot # None /\ entry[slot].runtime # None => entry[slot].pipes

(* What the broker can still stop: the process the registry names, and the *)
(* ones an operation is about to publish or to kill.                       *)
Held(p) ==
  Names(p) \/ \E o \in Ops : op[o].proc = p /\ op[o].pc \in {"publish", "wait"}

(* "DeregisterServer removes a server from the registry and stops it if    *)
(* running" (broker.go:286): every subprocess that runs is the one the     *)
(* registry names, or the one an operation is about to publish or to kill. *)
NoOrphan == \A p \in Procs : proc[p] = "running" => Held(p)

(* The handle of a running subprocess is lost only when somebody registers,*)
(* starts or activates a name whose subprocess runs, or to a late watcher; *)
(* no stop, reload, fallback, failed start or removal loses one            *)
(* (launcher.go:81-122, broker.go:184-196, 205-299).                       *)
HandlesKept ==
  [][\A p \in Procs :
       Held(p) /\ ~Held(p)' =>
         \/ proc'[p] # "running"
         \/ \E o \in Ops : \/ Register(o) \/ ActivateFromCatalog(o)
                            \/ Publish(o) \/ SetHTTPRuntime(o)
         \/ \E q \in Procs : WatcherClears(q)]_vars

(* "clearAfterExit clears the running state after a process exits"         *)
(* (launcher.go:162): what the clearing takes away is not running.         *)
ClearsAfterExit ==
  [][\A p \in Procs : Names(p) /\ slot' = slot /\ ~Names(p)' => proc[p] # "running"]_vars

(* "For HTTP/SSE servers, it uses the stored HTTPClient; for stdio         *)
(* servers, it uses the shared MCPProxy" (broker.go:482-483).              *)
RouteMatchesTransport ==
  Quiet /\ slot # None /\ http # None => entry[slot].config \in HTTPConfigs

(* ReloadServerWithConfig "restarts it with the new config"                *)
(* (broker.go:242-243).                                                    *)
ReloadUsesNewConfig ==
  \A o \in Ops :
    op[o].kind = "reloadWith" /\ op[o].pc = "publish" => op[o].cfg = op[o].given

(* Every operation returns or stays in the handshake: no other caller, no  *)
(* subprocess that ignores the interrupt and no failed transport keeps one *)
(* anywhere else (launcher.go:81-122, broker.go:209-299, 329-389).         *)
OperationsReturn ==
  \A o \in Ops : op[o].pc # "idle" ~> op[o].pc \in {"idle", "handshake"}

(* The status of every subprocess that ended is collected, by its watcher  *)
(* or by Stop, and a process that failed does not stay the server's        *)
(* process whoever did (launcher.go:71-76, 104-120).                       *)
FailureIsCleared ==
  \A p \in Procs :
    /\ proc[p] # "running" ~> reaped[p]
    /\ Names(p) /\ proc[p] = "failed" ~> ~(Names(p) /\ proc[p] = "failed")

(* "watch the subprocess; on exit, call ClearRuntime to atomically nil out *)
(* the process and pipes" (docs/architecture.md:97-98).                    *)
ExitIsCleared ==
  \A p \in Procs : Names(p) /\ proc[p] # "running" ~> ~(Names(p) /\ proc[p] # "running")
=============================================================================
