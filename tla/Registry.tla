------------------------------ MODULE Registry ------------------------------
(***************************************************************************)
(* The registry of servers (registry/registry.go): a map from names to     *)
(* entries under a read-write lock, and the fields of every entry under a  *)
(* lock of its own.  Every method but List is one critical section of one  *)
(* of the two locks; who holds an entry may change it although the name    *)
(* was given to another one, or removed.                                   *)
(***************************************************************************)
CONSTANTS Names,     (* server names                                       *)
          Entries,   (* *ServerEntry objects                               *)
          Configs,   (* server configurations                              *)
          ToolLists, (* lists of tools a server may report                 *)
          NoTools,   (* the empty one                                      *)
          None

ASSUME NoToolsAssumption == NoTools \in ToolLists
ASSUME NoneAssumption == None \notin Entries

VARIABLES
  slot,   \* r.servers: an entry or None for every name
  entry,  \* the fields of every entry
  readers \* goroutines that hold r.mu for reading

registry == <<slot, entry, readers>>

EntryState == [config  : Configs,
               running : BOOLEAN,     \* Process and the pipes, set as one
               tools   : ToolLists]

RegistryTypeOK ==
  /\ slot \in [Names -> Entries \cup {None}]
  /\ entry \in [Entries -> EntryState]

Registered == {n \in Names : slot[n] # None}

NewEntry(config) == [config |-> config, running |-> FALSE, tools |-> NoTools]

-----------------------------------------------------------------------------
(* Register, with a new entry, whatever the name stood for. *)
Register(n, e, config) ==
  /\ readers = {}
  /\ slot' = [slot EXCEPT ![n] = e]
  /\ entry' = [entry EXCEPT ![e] = NewEntry(config)]
  /\ UNCHANGED readers

Unregister(n) ==
  /\ readers = {}
  /\ slot' = [slot EXCEPT ![n] = None]
  /\ UNCHANGED <<entry, readers>>

SetConfig(e, config) ==
  /\ entry' = [entry EXCEPT ![e].config = config]
  /\ UNCHANGED <<slot, readers>>

SetRuntime(e, running, tools) ==
  /\ entry' = [entry EXCEPT ![e].running = running, ![e].tools = tools]
  /\ UNCHANGED <<slot, readers>>

SetTools(e, tools) ==
  /\ entry' = [entry EXCEPT ![e].tools = tools]
  /\ UNCHANGED <<slot, readers>>

(* The tools stay. *)
ClearRuntime(e) ==
  /\ entry' = [entry EXCEPT ![e].running = FALSE]
  /\ UNCHANGED <<slot, readers>>

RLock(r) == readers' = readers \cup {r} /\ UNCHANGED <<slot, entry>>
RUnlock(r) == readers' = readers \ {r} /\ UNCHANGED <<slot, entry>>
=============================================================================
