------------------------ MODULE ServerLifecycleProofs ------------------------
(***************************************************************************)
(* Proofs about ServerLifecycle.  For any number of goroutines: the state  *)
(* keeps its types and what Stop stopped is dead.  For one goroutine, as   *)
(* in LifecycleSequential: activation restores the configuration, tools    *)
(* match the process, and no handle of a running process is lost.          *)
(***************************************************************************)
EXTENDS ServerLifecycle, TLAPS

(* The program counters of StartServer and of the Launcher.Stop under it. *)
Starting == {"start", "spawn", "publish", "refresh", "handshake", "tools",
             "stop", "wait", "clear"}

(* What the locals of an operation are fit for, at each point of it. *)
Fit(r) ==
  /\ r.kind = "activate" => r.ent \in Entries
  /\ r.pc \in {"check", "leave", "found"} => r.kind # "activate"
  /\ r.pc \in {"try", "attempt", "rollback", "httpConfig", "httpRuntime", "httpStore"}
       => r.kind = "activate"
  /\ r.kind = "activate" /\ r.pc \in Starting \cup {"attempt", "rollback"}
       => r.old \in Configs
  /\ r.pc = "attempt" => r.given \in Configs
  /\ r.pc \in {"httpConfig", "httpRuntime", "httpStore"} => r.given \in HTTPConfigs
  /\ r.pc \in {"publish", "wait", "clear"} => r.proc \in Procs

FitInv == \A o \in Ops : Fit(op[o])

(* The fields of the locals, one by one. *)
LEMMA Fields ==
  ASSUME NEW r \in OpState
  PROVE  /\ r.pc \in PCs /\ r.kind \in AllKinds \cup {"none"}
         /\ r.ent \in Entries \cup {None} /\ r.at \in Entries \cup {None}
         /\ r.proc \in Procs \cup {None} /\ r.tools \in Sources
         /\ r.cfg \in Configs \cup {None} /\ r.given \in Configs \cup {None}
         /\ r.old \in Configs \cup {None} /\ r.first \in Configs \cup {None}
         /\ r.left \in SUBSET Configs
         /\ r.then \in {"none", "start", "fail", "remove"}
BY DEF OpState

(* The fields of an entry. *)
LEMMA EntryFields ==
  ASSUME NEW e \in EntryState
  PROVE  /\ e.config \in Configs /\ e.runtime \in Procs \cup {None}
         /\ e.pipes \in BOOLEAN /\ e.tools \in Sources
BY DEF EntryState

(* Every entry, and so the one the name stands for, is typed. *)
LEMMA EntryTyped ==
  ASSUME TypeOK
  PROVE  /\ \A e \in Entries : /\ entry[e] \in EntryState
                               /\ entry[e].config \in Configs
                               /\ entry[e].runtime \in Procs \cup {None}
                               /\ entry[e].tools \in Sources
         /\ slot # None => slot \in Entries
BY EntryFields DEF TypeOK

(* Any transports are configurations. *)
LEMMA TransportsAreConfigs ==
  \A left \in SUBSET TransportConfigs : left \in SUBSET Configs
BY DEF TransportConfigs, Configs

(* A goroutine outside any operation. *)
LEMMA IdleFits == Idle \in OpState /\ Fit(Idle)
BY DEF Idle, OpState, Fit, PCs, Sources, Starting

(* An operation with other values of the right types is one. *)
LEMMA Replaced ==
  ASSUME NEW q \in OpState, NEW pc \in PCs, NEW kind \in AllKinds \cup {"none"},
         NEW ent \in Entries \cup {None}, NEW left \in SUBSET Configs,
         NEW first \in Configs \cup {None}
  PROVE  [q EXCEPT !.pc = pc, !.kind = kind, !.ent = ent, !.left = left,
                   !.first = first] \in OpState
<1> DEFINE q1 == [q  EXCEPT !.pc = pc]
           q2 == [q1 EXCEPT !.kind = kind]
           q3 == [q2 EXCEPT !.ent = ent]
           q4 == [q3 EXCEPT !.left = left]
           q5 == [q4 EXCEPT !.first = first]
<1>1. [q EXCEPT !.pc = pc, !.kind = kind, !.ent = ent, !.left = left,
                !.first = first] = q5
  OBVIOUS
<1>2. q1 \in OpState
  BY DEF OpState
<1> HIDE DEF q1
<1>3. q2 \in OpState
  BY <1>2 DEF OpState
<1> HIDE DEF q2
<1>4. q3 \in OpState
  BY <1>3 DEF OpState
<1> HIDE DEF q3
<1>5. q4 \in OpState
  BY <1>4 DEF OpState
<1> HIDE DEF q4
<1>6. q5 \in OpState
  BY <1>5 DEF OpState
<1> HIDE DEF q5
<1>7. QED
  BY <1>1, <1>6

(* One step of a goroutine changes its own locals, to fit ones. *)
Moves(o) == \E r \in OpState : Fit(r) /\ op' = [op EXCEPT ![o] = r]

(* StartServer gives up. *)
LEMMA FailMoves ==
  ASSUME TypeOK, FitInv, NEW o \in Ops, StartFails(o), op[o].pc \in Starting
  PROVE  Moves(o)
<1>1. op[o] \in OpState /\ Fit(op[o])
  BY DEF TypeOK, FitInv
<1>2. CASE op[o].kind = "activate"
  <2> DEFINE r == [Idle EXCEPT !.pc = "rollback", !.kind = "activate",
                               !.ent = op[o].ent, !.old = op[o].old,
                               !.first = op[o].first, !.left = op[o].left]
  <2>1. r \in OpState
    <3>1. /\ "rollback" \in PCs
          /\ "activate" \in AllKinds \cup {"none"}
          /\ op[o].ent \in Entries \cup {None}
          /\ op[o].old \in Configs \cup {None}
          /\ op[o].first \in Configs \cup {None}
          /\ op[o].left \in SUBSET Configs
      BY <1>1, Fields, IdleFits DEF PCs, AllKinds, Sources, Configs
    <3>2. Idle \in OpState
      BY IdleFits
    <3> DEFINE b == [Idle EXCEPT !.pc = "rollback", !.kind = "activate",
                                 !.ent = op[o].ent, !.left = op[o].left,
                                 !.first = op[o].first]
    <3>3. b \in OpState
      BY <3>1, <3>2, Replaced
    <3>4. r = [b EXCEPT !.old = op[o].old]
      <4>1. Idle = [pc |-> Idle.pc, kind |-> Idle.kind, ent |-> Idle.ent, at |-> Idle.at,
                    proc |-> Idle.proc, tools |-> Idle.tools, cfg |-> Idle.cfg,
                    given |-> Idle.given, old |-> Idle.old, first |-> Idle.first,
                    left |-> Idle.left, then |-> Idle.then]
        BY <3>2 DEF OpState
      <4>2. QED
        BY <4>1, Zenon
    <3> HIDE DEF b
    <3>5. [b EXCEPT !.old = op[o].old] \in OpState
      BY <3>1, <3>3 DEF OpState
    <3>6. QED
      BY <3>4, <3>5
  <2>2. Fit(r)
    BY <1>1, <1>2, IdleFits DEF Fit, Idle, Starting
  <2>3. op' = [op EXCEPT ![o] = r]
    BY <1>2 DEF StartFails
  <2>4. QED
    BY <2>1, <2>2, <2>3 DEF Moves
<1>3. CASE op[o].kind # "activate"
  BY <1>3, IdleFits DEF StartFails, Moves
<1>4. QED
  BY <1>2, <1>3

(* Launcher.Stop returns. *)
LEMMA StopMoves ==
  ASSUME TypeOK, FitInv, NEW o \in Ops, StopReturns(o), op[o].pc \in {"stop", "clear"}
  PROVE  Moves(o)
<1>1. op[o] \in OpState /\ Fit(op[o])
  BY DEF TypeOK, FitInv
<1>2. CASE op[o].then \in {"start", "remove"}
  <2> DEFINE r == [op[o] EXCEPT !.pc = op[o].then, !.proc = None,
                                !.then = "none"]
  <2>1. r \in OpState
    <3>1. /\ op[o].then \in PCs
          /\ None \in Procs \cup {None}
          /\ "none" \in {"none", "start", "fail", "remove"}
      BY <1>1, <1>2, Fields DEF PCs, AllKinds, Sources, Configs
    <3>2. QED
      BY <1>1, <3>1, ZenonT(40) DEF OpState
  <2>2. Fit(r)
    BY <1>1, <1>2 DEF Fit, OpState, Starting
  <2>3. op' = [op EXCEPT ![o] = r]
    BY <1>2 DEF StopReturns
  <2>4. QED
    BY <2>1, <2>2, <2>3 DEF Moves
<1>3. CASE op[o].then \notin {"start", "remove"}
  BY <1>3, FailMoves DEF StopReturns, Starting
<1>4. QED
  BY <1>2, <1>3

(* The steps that set some of the fields. *)
LEMMA StepMoves ==
  ASSUME TypeOK, FitInv, NEW o \in Ops, Step(o)
  PROVE  Moves(o)
<1>1. op[o] \in OpState /\ Fit(op[o])
  BY DEF TypeOK, FitInv
<1>2. CASE Check(o)
  <2>1. CASE entry[op[o].ent].runtime = None
    <3> DEFINE r == [op[o] EXCEPT !.pc = "start"]
    <3>1. r \in OpState
      <4>1. /\ "start" \in PCs
        BY <1>1, <1>2, <2>1, EntryTyped, Fields
        DEF PCs, AllKinds, Sources, Configs
      <4>2. QED
        BY <1>1, <4>1 DEF OpState
    <3>2. Fit(r)
      BY <1>1, <1>2, <2>1, EntryTyped DEF Fit, OpState, Starting, Check, At
    <3>3. op' = [op EXCEPT ![o] = r]
      BY <1>1, <1>2, <2>1 DEF Check, Forget
    <3>4. QED
      BY <3>1, <3>2, <3>3 DEF Moves
  <2>2. CASE entry[op[o].ent].runtime # None
    <3> DEFINE r == [op[o] EXCEPT !.pc = "stop", !.then = "start"]
    <3>1. r \in OpState
      <4>1. /\ "stop" \in PCs
            /\ "start" \in {"none", "start", "fail", "remove"}
        BY <1>1, <1>2, <2>2, EntryTyped, Fields
        DEF PCs, AllKinds, Sources, Configs
      <4>2. QED
        BY <1>1, <4>1 DEF OpState
    <3>2. Fit(r)
      BY <1>1, <1>2, <2>2, EntryTyped DEF Fit, OpState, Starting, Check, At
    <3>3. op' = [op EXCEPT ![o] = r]
      BY <1>1, <1>2, <2>2 DEF Check, Forget
    <3>4. QED
      BY <3>1, <3>2, <3>3 DEF Moves
  <2>3. QED
    BY <2>1, <2>2
<1>3. CASE Remove(o)
  BY <1>3, IdleFits DEF Remove, Return, Moves
<1>4. CASE Leave(o)
  <2> DEFINE r == [op[o] EXCEPT !.pc = "stop", !.kind = "deregister",
                                !.ent = None, !.then = "remove"]
  <2>1. r \in OpState
    <3>1. /\ "stop" \in PCs
          /\ "deregister" \in AllKinds \cup {"none"}
          /\ None \in Entries \cup {None}
          /\ "remove" \in {"none", "start", "fail", "remove"}
      BY <1>1, <1>4, EntryTyped, Fields DEF PCs, AllKinds, Sources, Configs
    <3>2. QED
      BY <1>1, <3>1 DEF OpState
  <2>2. Fit(r)
    BY <1>1, <1>4, EntryTyped DEF Fit, OpState, Starting, Leave, At
  <2>3. op' = [op EXCEPT ![o] = r]
    BY <1>1, <1>4 DEF Leave, Forget
  <2>4. QED
    BY <2>1, <2>2, <2>3 DEF Moves
<1>5. CASE ReadConfig(o)
  <2>1. CASE slot = None
    BY <1>5, <2>1, FailMoves DEF ReadConfig, At, Starting
  <2>2. CASE slot # None
    <3> DEFINE r == [op[o] EXCEPT !.pc = "spawn", !.cfg = entry[slot].config]
    <3>1. r \in OpState
      <4>1. /\ "spawn" \in PCs
            /\ entry[slot].config \in Configs \cup {None}
        BY <1>1, <1>5, <2>2, EntryTyped, Fields
        DEF PCs, AllKinds, Sources, Configs
      <4>2. QED
        BY <1>1, <4>1 DEF OpState
    <3>2. Fit(r)
      BY <1>1, <1>5, <2>2, EntryTyped
      DEF Fit, OpState, Starting, ReadConfig, At
    <3>3. op' = [op EXCEPT ![o] = r]
      BY <1>1, <1>5, <2>2 DEF ReadConfig, Forget
    <3>4. QED
      BY <3>1, <3>2, <3>3 DEF Moves
  <2>3. QED
    BY <2>1, <2>2
<1>6. CASE Publish(o)
  <2> DEFINE r == [op[o] EXCEPT !.pc = "refresh", !.proc = None, !.at = None,
                                !.tools = None]
  <2>1. r \in OpState
    <3>1. /\ "refresh" \in PCs
          /\ None \in Procs \cup {None}
          /\ None \in Entries \cup {None}
          /\ None \in Sources
      BY <1>1, <1>6, EntryTyped, Fields DEF PCs, AllKinds, Sources, Configs
    <3>2. QED
      BY <1>1, <3>1 DEF OpState
  <2>2. Fit(r)
    BY <1>1, <1>6, EntryTyped DEF Fit, OpState, Starting, Publish, At
  <2>3. op' = [op EXCEPT ![o] = r]
    BY <1>1, <1>6 DEF Publish, Forget
  <2>4. QED
    BY <2>1, <2>2, <2>3 DEF Moves
<1>7. CASE Refresh(o)
  <2>1. CASE slot # None /\ entry[slot].pipes
    <3> DEFINE r == [op[o] EXCEPT !.pc = "handshake", !.at = slot,
                                  !.proc = entry[slot].runtime]
    <3>1. r \in OpState
      <4>1. /\ "handshake" \in PCs
            /\ slot \in Entries \cup {None}
            /\ entry[slot].runtime \in Procs \cup {None}
        BY <1>1, <1>7, <2>1, EntryTyped, Fields
        DEF PCs, AllKinds, Sources, Configs
      <4>2. QED
        BY <1>1, <4>1, ZenonT(40) DEF OpState
    <3>2. Fit(r)
      BY <1>1, <1>7, <2>1, EntryTyped DEF Fit, OpState, Starting, Refresh, At
    <3>3. op' = [op EXCEPT ![o] = r]
      BY <1>1, <1>7, <2>1 DEF Refresh, Forget
    <3>4. QED
      BY <3>1, <3>2, <3>3 DEF Moves
  <2>2. CASE ~(slot # None /\ entry[slot].pipes)
    BY <1>7, <2>2, FailMoves DEF Refresh, At, Starting
  <2>3. QED
    BY <2>1, <2>2
<1>8. CASE StoreTools(o)
  BY <1>8, IdleFits DEF StoreTools, Return, Moves
<1>9. CASE StopWaits(o)
  <2> DEFINE r == [op[o] EXCEPT !.pc = "clear"]
  <2>1. r \in OpState
    <3>1. /\ "clear" \in PCs
      BY <1>1, <1>9, EntryTyped, Fields DEF PCs, AllKinds, Sources, Configs
    <3>2. QED
      BY <1>1, <3>1 DEF OpState
  <2>2. Fit(r)
    BY <1>1, <1>9, EntryTyped DEF Fit, OpState, Starting, StopWaits, At
  <2>3. op' = [op EXCEPT ![o] = r]
    BY <1>1, <1>9 DEF StopWaits, Forget
  <2>4. QED
    BY <2>1, <2>2, <2>3 DEF Moves
<1>10. CASE StopKills(o)
  <2> DEFINE r == [op[o] EXCEPT !.pc = "clear"]
  <2>1. r \in OpState
    <3>1. /\ "clear" \in PCs
      BY <1>1, <1>10, EntryTyped, Fields DEF PCs, AllKinds, Sources, Configs
    <3>2. QED
      BY <1>1, <3>1 DEF OpState
  <2>2. Fit(r)
    BY <1>1, <1>10, EntryTyped DEF Fit, OpState, Starting, StopKills, At
  <2>3. op' = [op EXCEPT ![o] = r]
    BY <1>1, <1>10 DEF StopKills, Forget
  <2>4. QED
    BY <2>1, <2>2, <2>3 DEF Moves
<1>11. CASE StopClears(o)
  BY <1>11, StopMoves DEF StopClears, At
<1>12. CASE GiveUp(o)
  BY <1>12, IdleFits DEF GiveUp, Return, Moves
<1>13. CASE SetHTTPConfig(o)
  <2> DEFINE r == [op[o] EXCEPT !.pc = "httpRuntime"]
  <2>1. r \in OpState
    <3>1. /\ "httpRuntime" \in PCs
      BY <1>1, <1>13, EntryTyped, Fields DEF PCs, AllKinds, Sources, Configs
    <3>2. QED
      BY <1>1, <3>1 DEF OpState
  <2>2. Fit(r)
    BY <1>1, <1>13, EntryTyped DEF Fit, OpState, Starting, SetHTTPConfig, At
  <2>3. op' = [op EXCEPT ![o] = r]
    BY <1>1, <1>13 DEF SetHTTPConfig, Forget
  <2>4. QED
    BY <2>1, <2>2, <2>3 DEF Moves
<1>14. CASE SetHTTPRuntime(o)
  <2> DEFINE r == [op[o] EXCEPT !.pc = "httpStore"]
  <2>1. r \in OpState
    <3>1. /\ "httpStore" \in PCs
      BY <1>1, <1>14, EntryTyped, Fields DEF PCs, AllKinds, Sources, Configs
    <3>2. QED
      BY <1>1, <3>1 DEF OpState
  <2>2. Fit(r)
    BY <1>1, <1>14, EntryTyped DEF Fit, OpState, Starting, SetHTTPRuntime, At
  <2>3. op' = [op EXCEPT ![o] = r]
    BY <1>1, <1>14 DEF SetHTTPRuntime, Forget
  <2>4. QED
    BY <2>1, <2>2, <2>3 DEF Moves
<1>15. CASE StoreClient(o)
  BY <1>15, IdleFits DEF StoreClient, Return, Moves
<1>16. CASE Attempt(o)
  <2> DEFINE r == [op[o] EXCEPT !.pc = "start"]
  <2>1. r \in OpState
    <3>1. /\ "start" \in PCs
      BY <1>1, <1>16, EntryTyped, Fields DEF PCs, AllKinds, Sources, Configs
    <3>2. QED
      BY <1>1, <3>1 DEF OpState
  <2>2. Fit(r)
    BY <1>1, <1>16, EntryTyped DEF Fit, OpState, Starting, Attempt, At
  <2>3. op' = [op EXCEPT ![o] = r]
    BY <1>1, <1>16 DEF Attempt, Forget
  <2>4. QED
    BY <2>1, <2>2, <2>3 DEF Moves
<1>17. CASE Rollback(o)
  <2> DEFINE r == [op[o] EXCEPT !.pc = "try", !.old = None]
  <2>1. r \in OpState
    <3>1. /\ "try" \in PCs
          /\ None \in Configs \cup {None}
      BY <1>1, <1>17, EntryTyped, Fields DEF PCs, AllKinds, Sources, Configs
    <3>2. QED
      BY <1>1, <3>1 DEF OpState
  <2>2. Fit(r)
    BY <1>1, <1>17, EntryTyped DEF Fit, OpState, Starting, Rollback, At
  <2>3. op' = [op EXCEPT ![o] = r]
    BY <1>1, <1>17 DEF Rollback, Forget
  <2>4. QED
    BY <2>1, <2>2, <2>3 DEF Moves
<1>18. CASE Found(o)
  <2>1. CASE slot # None /\ TryAll(o, op[o].left)
    <3> DEFINE r == [op[o] EXCEPT !.pc = "try", !.kind = "activate",
                                  !.ent = slot,
                                  !.left = op[o].left, !.first = entry[slot].config]
    <3>1. r \in OpState
      <4>1. /\ "try" \in PCs
            /\ "activate" \in AllKinds \cup {"none"}
            /\ slot \in Entries \cup {None}
            /\ op[o].left \in SUBSET Configs
            /\ entry[slot].config \in Configs \cup {None}
        BY <1>1, <2>1, EntryTyped, Fields DEF PCs, AllKinds, Sources, Configs
      <4>2. QED
        BY <1>1, <4>1, Replaced
    <3>2. Fit(r)
      BY <1>1, <2>1, EntryTyped DEF Fit, OpState, Starting
    <3>3. op' = [op EXCEPT ![o] = r]
      BY <2>1 DEF TryAll
    <3>4. QED
      BY <3>1, <3>2, <3>3 DEF Moves
  <2>2. CASE Return(o)
    BY <2>2, IdleFits DEF Return, Moves
  <2>3. QED
    BY <1>18, <2>1, <2>2 DEF Found
<1>19. CASE Spawn(o)
  <2>1. CASE StartFails(o)
    BY <1>19, <2>1, FailMoves DEF Spawn, At, Starting
  <2>2. ASSUME slot # None, NEW p \in Procs,
               op' = [op EXCEPT ![o].pc = "publish", ![o].proc = p,
                                ![o].at = slot, ![o].tools = entry[slot].tools]
        PROVE  Moves(o)
    <3> DEFINE r == [op[o] EXCEPT !.pc = "publish", !.proc = p,
                                  !.at = slot, !.tools = entry[slot].tools]
    <3>1. r \in OpState
      <4>1. /\ "publish" \in PCs
            /\ p \in Procs \cup {None}
            /\ slot \in Entries \cup {None}
            /\ entry[slot].tools \in Sources
        BY <1>1, <2>2, EntryTyped, Fields DEF PCs, AllKinds, Sources, Configs
      <4>2. QED
        BY <1>1, <4>1 DEF OpState
    <3>2. Fit(r)
      BY <1>1, <1>19 DEF Fit, OpState, Starting, Spawn, At
    <3>3. op' = [op EXCEPT ![o] = r]
      BY <2>2
    <3>4. QED
      BY <3>1, <3>2, <3>3 DEF Moves
  <2>3. QED
    BY <1>19, <2>1, <2>2 DEF Spawn
<1>20. CASE Handshake(o)
  <2>1. CASE op' = [op EXCEPT ![o].pc = "tools"]
    <3> DEFINE r == [op[o] EXCEPT !.pc = "tools"]
    <3>1. r \in OpState
      <4>1. /\ "tools" \in PCs
        BY <1>1, Fields DEF PCs, AllKinds, Sources, Configs
      <4>2. QED
        BY <1>1, <4>1 DEF OpState
    <3>2. Fit(r)
      BY <1>1, <1>20 DEF Fit, OpState, Starting, Handshake, At
    <3>3. op' = [op EXCEPT ![o] = r]
      BY <2>1
    <3>4. QED
      BY <3>1, <3>2, <3>3 DEF Moves
  <2>2. CASE op' = [op EXCEPT ![o].pc = "stop", ![o].then = "fail",
                              ![o].proc = None, ![o].at = None]
    <3> DEFINE r == [op[o] EXCEPT !.pc = "stop", !.then = "fail",
                                  !.proc = None, !.at = None]
    <3>1. r \in OpState
      <4>1. /\ "stop" \in PCs
            /\ "fail" \in {"none", "start", "fail", "remove"}
            /\ None \in Procs \cup {None}
            /\ None \in Entries \cup {None}
        BY <1>1, Fields DEF PCs, AllKinds, Sources, Configs
      <4>2. QED
        BY <1>1, <4>1 DEF OpState
    <3>2. Fit(r)
      BY <1>1, <1>20 DEF Fit, OpState, Starting, Handshake, At
    <3>3. op' = [op EXCEPT ![o] = r]
      BY <2>2
    <3>4. QED
      BY <3>1, <3>2, <3>3 DEF Moves
  <2>3. QED
    BY <1>20, <2>1, <2>2 DEF Handshake
<1>21. CASE Signal(o)
  <2>1. CASE slot # None /\ entry[slot].runtime # None
    <3> DEFINE r == [op[o] EXCEPT !.pc = "wait", !.proc = entry[slot].runtime]
    <3>1. r \in OpState
      <4>1. /\ "wait" \in PCs
            /\ entry[slot].runtime \in Procs \cup {None}
        BY <1>1, <2>1, EntryTyped, Fields DEF PCs, AllKinds, Sources, Configs
      <4>2. QED
        BY <1>1, <4>1 DEF OpState
    <3>2. Fit(r)
      BY <1>1, <1>21, <2>1, EntryTyped DEF Fit, OpState, Starting, Signal, At
    <3>3. op' = [op EXCEPT ![o] = r]
      BY <1>21, <2>1 DEF Signal
    <3>4. QED
      BY <3>1, <3>2, <3>3 DEF Moves
  <2>2. CASE Return(o)
    BY <2>2, IdleFits DEF Return, Moves
  <2>3. CASE StopReturns(o)
    BY <1>21, <2>3, StopMoves DEF Signal, At
  <2>4. QED
    BY <1>21, <2>1, <2>2, <2>3 DEF Signal
<1>22. CASE TryHTTP(o)
  <2>1. PICK config \in HTTPConfigs \cap op[o].left :
          /\ At(o, "try")
          /\ \/ op' = [op EXCEPT ![o].left = @ \ {config}]
             \/ op' = [op EXCEPT ![o].pc = "httpConfig", ![o].given = config]
    BY <1>22 DEF TryHTTP
  <2>2. CASE op' = [op EXCEPT ![o].left = @ \ {config}]
    <3> DEFINE r == [op[o] EXCEPT !.left = op[o].left \ {config}]
    <3>1. r \in OpState
      <4>1. /\ op[o].left \ {config} \in SUBSET Configs
        BY <1>1, Fields DEF PCs, AllKinds, Sources, Configs
      <4>2. QED
        BY <1>1, <4>1 DEF OpState
    <3>2. Fit(r)
      BY <1>1 DEF Fit, OpState
    <3>3. op' = [op EXCEPT ![o] = r]
      BY <2>2
    <3>4. QED
      BY <3>1, <3>2, <3>3 DEF Moves
  <2>3. CASE op' = [op EXCEPT ![o].pc = "httpConfig", ![o].given = config]
    <3> DEFINE r == [op[o] EXCEPT !.pc = "httpConfig", !.given = config]
    <3>1. r \in OpState
      <4>1. /\ "httpConfig" \in PCs
            /\ config \in Configs \cup {None}
        BY <1>1, Fields DEF PCs, AllKinds, Sources, Configs
      <4>2. QED
        BY <1>1, <4>1 DEF OpState
    <3>2. Fit(r)
      BY <1>1, <2>1 DEF Fit, OpState, Starting, At
    <3>3. op' = [op EXCEPT ![o] = r]
      BY <2>3
    <3>4. QED
      BY <3>1, <3>2, <3>3 DEF Moves
  <2>4. QED
    BY <2>1, <2>2, <2>3
<1>23. CASE TryStdio(o)
  <2>1. PICK config \in StdioConfigs \cap op[o].left :
          /\ At(o, "try")
          /\ op' = [op EXCEPT ![o].pc = "attempt", ![o].given = config,
                              ![o].old = entry[op[o].ent].config,
                              ![o].left = @ \ {config}]
    BY <1>23 DEF TryStdio
  <2> DEFINE r == [op[o] EXCEPT !.pc = "attempt", !.given = config,
                                !.old = entry[op[o].ent].config,
                                !.left = op[o].left \ {config}]
  <2>2. op[o].ent \in Entries /\ entry[op[o].ent].config \in Configs
    BY <1>1, <2>1, EntryTyped DEF Fit, At
  <2>3. r \in OpState
    <3>1. /\ "attempt" \in PCs
          /\ config \in Configs \cup {None}
          /\ entry[op[o].ent].config \in Configs \cup {None}
          /\ op[o].left \ {config} \in SUBSET Configs
      BY <1>1, <2>2, Fields DEF PCs, AllKinds, Sources, Configs
    <3>2. QED
      BY <1>1, <3>1 DEF OpState
  <2>4. Fit(r)
    BY <1>1, <2>1, <2>2 DEF Fit, OpState, Starting, At, Configs
  <2>5. op' = [op EXCEPT ![o] = r]
    BY <2>1
  <2>6. QED
    BY <2>3, <2>4, <2>5 DEF Moves
<1>24. QED
  BY <1>2, <1>3, <1>4, <1>5, <1>6, <1>7, <1>8, <1>9, <1>10, <1>11, <1>12,
     <1>13, <1>14, <1>15, <1>16, <1>17, <1>18, <1>19, <1>20, <1>21, <1>22,
     <1>23
  DEF Step

(* The steps that begin an operation. *)
LEMMA RequestMoves ==
  ASSUME TypeOK, FitInv, NEW o \in Ops, Request(o)
  PROVE  Moves(o)
<1>1. op[o] \in OpState /\ Fit(op[o])
  BY DEF TypeOK, FitInv
<1>2. CASE op' = op
  BY <1>1, <1>2 DEF Moves, TypeOK
<1>3. Register(o) => op' = op
  BY DEF Register
<1>4. CASE Start(o)
  <2> DEFINE r == [op[o] EXCEPT !.pc = "start", !.kind = "start", !.ent = slot]
  <2>1. r \in OpState
    <3>1. /\ "start" \in PCs
          /\ "start" \in AllKinds \cup {"none"}
          /\ slot \in Entries \cup {None}
      BY <1>1, <1>4, EntryTyped, Fields DEF PCs, AllKinds, Sources, Configs
    <3>2. QED
      BY <1>1, <3>1 DEF OpState
  <2>2. Fit(r)
    BY <1>1, <1>4, EntryTyped DEF Fit, OpState, Starting, Start, Enter, At
  <2>3. op' = [op EXCEPT ![o] = r]
    BY <1>1, <1>4 DEF Start, Enter, Forget
  <2>4. QED
    BY <2>1, <2>2, <2>3 DEF Moves
<1>5. CASE Reload(o)
  <2> DEFINE r == [op[o] EXCEPT !.pc = "check", !.kind = "reload",
                                !.ent = slot]
  <2>1. r \in OpState
    <3>1. /\ "check" \in PCs
          /\ "reload" \in AllKinds \cup {"none"}
          /\ slot \in Entries \cup {None}
      BY <1>1, <1>5, EntryTyped, Fields DEF PCs, AllKinds, Sources, Configs
    <3>2. QED
      BY <1>1, <3>1 DEF OpState
  <2>2. Fit(r)
    BY <1>1, <1>5, EntryTyped DEF Fit, OpState, Starting, Reload, Enter, At
  <2>3. op' = [op EXCEPT ![o] = r]
    BY <1>1, <1>5 DEF Reload, Enter, Forget
  <2>4. QED
    BY <2>1, <2>2, <2>3 DEF Moves
<1>6. CASE Deactivate(o)
  <2> DEFINE r == [op[o] EXCEPT !.pc = "leave", !.kind = "deactivate",
                                !.ent = slot]
  <2>1. r \in OpState
    <3>1. /\ "leave" \in PCs
          /\ "deactivate" \in AllKinds \cup {"none"}
          /\ slot \in Entries \cup {None}
      BY <1>1, <1>6, EntryTyped, Fields DEF PCs, AllKinds, Sources, Configs
    <3>2. QED
      BY <1>1, <3>1 DEF OpState
  <2>2. Fit(r)
    BY <1>1, <1>6, EntryTyped DEF Fit, OpState, Starting, Deactivate, Enter, At
  <2>3. op' = [op EXCEPT ![o] = r]
    BY <1>1, <1>6 DEF Deactivate, Enter, Forget
  <2>4. QED
    BY <2>1, <2>2, <2>3 DEF Moves
<1>7. CASE Deregister(o)
  <2> DEFINE r == [op[o] EXCEPT !.pc = "stop", !.kind = "deregister",
                                !.ent = None, !.then = "remove"]
  <2>1. r \in OpState
    <3>1. /\ "stop" \in PCs
          /\ "deregister" \in AllKinds \cup {"none"}
          /\ None \in Entries \cup {None}
          /\ "remove" \in {"none", "start", "fail", "remove"}
      BY <1>1, <1>7, EntryTyped, Fields DEF PCs, AllKinds, Sources, Configs
    <3>2. QED
      BY <1>1, <3>1 DEF OpState
  <2>2. Fit(r)
    BY <1>1, <1>7, EntryTyped
    DEF Fit, OpState, Starting, Deregister, Forget, At
  <2>3. op' = [op EXCEPT ![o] = r]
    BY <1>1, <1>7 DEF Deregister, Forget, Forget
  <2>4. QED
    BY <2>1, <2>2, <2>3 DEF Moves
<1>8. CASE ReloadWithConfig(o)
  <2>1. PICK config \in Configs :
          /\ slot # None
          /\ op' = [op EXCEPT ![o].pc = "check", ![o].kind = "reloadWith",
                              ![o].ent = slot, ![o].given = config]
    BY <1>8 DEF ReloadWithConfig
  <2> DEFINE r == [op[o] EXCEPT !.pc = "check", !.kind = "reloadWith",
                                !.ent = slot, !.given = config]
  <2>2. r \in OpState
    <3>1. /\ "check" \in PCs
          /\ "reloadWith" \in AllKinds \cup {"none"}
          /\ slot \in Entries \cup {None}
          /\ config \in Configs \cup {None}
      BY <1>1, <2>1, EntryTyped, Fields DEF PCs, AllKinds, Sources, Configs
    <3>2. QED
      BY <1>1, <3>1 DEF OpState
  <2>3. Fit(r)
    BY <1>1, <2>1, EntryTyped DEF Fit, OpState, Starting
  <2>4. op' = [op EXCEPT ![o] = r]
    BY <2>1
  <2>5. QED
    BY <2>2, <2>3, <2>4 DEF Moves
<1>9. CASE Activate(o)
  <2>1. PICK left \in SUBSET Configs : slot # None /\ TryAll(o, left)
    BY <1>9, TransportsAreConfigs DEF Activate
  <2> DEFINE r == [op[o] EXCEPT !.pc = "try", !.kind = "activate", !.ent = slot,
                                !.left = left, !.first = entry[slot].config]
  <2>2. r \in OpState
    <3>1. /\ "try" \in PCs
          /\ "activate" \in AllKinds \cup {"none"}
          /\ slot \in Entries \cup {None}
          /\ left \in SUBSET Configs
          /\ entry[slot].config \in Configs \cup {None}
      BY <1>1, <2>1, EntryTyped, Fields DEF PCs, AllKinds, Sources, Configs
    <3>2. QED
      BY <1>1, <3>1, Replaced
  <2>3. Fit(r)
    BY <1>1, <2>1, EntryTyped DEF Fit, OpState, Starting
  <2>4. op' = [op EXCEPT ![o] = r]
    BY <2>1 DEF TryAll
  <2>5. QED
    BY <2>2, <2>3, <2>4 DEF Moves
<1>10. CASE ActivateFromCatalog(o)
  <2>1. PICK left \in SUBSET Configs :
          op' = [op EXCEPT ![o].pc = "found", ![o].kind = "catalog", ![o].left = left]
    BY <1>10, TransportsAreConfigs DEF ActivateFromCatalog
  <2> DEFINE r == [op[o] EXCEPT !.pc = "found", !.kind = "catalog",
                                !.left = left]
  <2>2. r \in OpState
    <3>1. /\ "found" \in PCs
          /\ "catalog" \in AllKinds \cup {"none"}
          /\ left \in SUBSET Configs
      BY <1>1, <2>1, EntryTyped, Fields DEF PCs, AllKinds, Sources, Configs
    <3>2. QED
      BY <1>1, <3>1 DEF OpState
  <2>3. Fit(r)
    BY <1>1, <2>1, EntryTyped DEF Fit, OpState, Starting
  <2>4. op' = [op EXCEPT ![o] = r]
    BY <2>1
  <2>5. QED
    BY <2>2, <2>3, <2>4 DEF Moves
<1>11. QED
  BY <1>2, <1>3, <1>4, <1>5, <1>6, <1>7, <1>8, <1>9, <1>10 DEF Request

(* The entries keep their types. *)
LEMMA EntryNext ==
  ASSUME TypeOK, FitInv, NEW o \in Ops, Request(o) \/ Step(o)
  PROVE  entry' \in [Entries -> EntryState]
<1>1. /\ entry \in [Entries -> EntryState] /\ op[o] \in OpState /\ Fit(op[o])
      /\ slot \in Entries \cup {None}
  BY DEF TypeOK, FitInv
<1>2. ASSUME NEW e, NEW config \in Configs, entry' = [entry EXCEPT ![e].config = config]
      PROVE  entry' \in [Entries -> EntryState]
  BY <1>1, <1>2 DEF EntryState
<1>3. ASSUME NEW e, entry' = [entry EXCEPT ![e].runtime = None, ![e].pipes = FALSE]
      PROVE  entry' \in [Entries -> EntryState]
  BY <1>1, <1>3 DEF EntryState
<1>4. ASSUME NEW e, NEW s \in Sources, entry' = [entry EXCEPT ![e].tools = s]
      PROVE  entry' \in [Entries -> EntryState]
  BY <1>1, <1>4 DEF EntryState
<1>5. ASSUME NEW e, NEW p \in Procs \cup {None}, NEW b \in BOOLEAN, NEW s \in Sources,
             entry' = [entry EXCEPT ![e].runtime = p, ![e].pipes = b, ![e].tools = s]
      PROVE  entry' \in [Entries -> EntryState]
  BY ZenonT(40), <1>1, <1>5 DEF EntryState
<1>6. ASSUME NEW e, NEW config \in Configs, entry' = [entry EXCEPT ![e] = NewEntry(config)]
      PROVE  entry' \in [Entries -> EntryState]
  BY <1>1, <1>6 DEF EntryState, NewEntry, Sources
<1>7. CASE Register(o)
  BY <1>6, <1>7 DEF Register
<1>8. CASE ReloadWithConfig(o)
  BY <1>2, <1>8 DEF ReloadWithConfig
<1>9. CASE ActivateFromCatalog(o)
  BY <1>6, <1>9, TransportsAreConfigs DEF ActivateFromCatalog
<1>10. CASE Publish(o)
  <2>1. op[o].proc \in Procs \cup {None} /\ op[o].tools \in Sources
        /\ (op[o].cfg \in StdioConfigs) \in BOOLEAN
    BY <1>1, Fields
  <2>2. QED
    BY <1>5, <1>10, <2>1 DEF Publish
<1>11. CASE StoreTools(o)
  BY <1>1, <1>4, <1>11, Fields DEF StoreTools, Sources
<1>12. CASE StopClears(o)
  BY <1>1, <1>3, <1>12 DEF StopClears, ClearSlot
<1>13. CASE SetHTTPConfig(o)
  BY <1>1, <1>2, <1>13 DEF SetHTTPConfig, At, Fit, Configs
<1>14. CASE SetHTTPRuntime(o)
  BY <1>1, <1>5, <1>14 DEF SetHTTPRuntime, At, Fit, Sources
<1>15. CASE Attempt(o)
  BY <1>1, <1>2, <1>15 DEF Attempt, At, Fit
<1>16. CASE Rollback(o)
  BY <1>1, <1>2, <1>16 DEF Rollback, At, Fit
<1>17. QED
  BY <1>1, <1>7, <1>8, <1>9, <1>10, <1>11, <1>12, <1>13, <1>14, <1>15, <1>16
  DEF Request, Step, Start, Enter, Reload, Deregister, Forget, Activate, TryAll,
      Deactivate, Check, Remove, Leave, Found, ReadConfig, Spawn, Refresh,
      Handshake, Signal, StopWaits, StopKills, GiveUp, TryHTTP, StoreClient,
      TryStdio

(* An entry that has pipes has the process at their other end. *)
PipesInv == \A e \in Entries : entry[e].pipes => entry[e].runtime \in Procs

(* clearAfterExit takes both away. *)
LEMMA ClearedPipes ==
  ASSUME TypeOK, PipesInv, entry' = ClearSlot
  PROVE  PipesInv'
<1>1. /\ entry \in [Entries -> EntryState]
      /\ \A e \in Entries : entry[e].pipes => entry[e].runtime \in Procs
  BY DEF TypeOK, PipesInv
<1>2. CASE slot = None
  BY <1>1, <1>2 DEF ClearSlot, PipesInv
<1>3. CASE slot # None
  BY <1>1, <1>3 DEF ClearSlot, PipesInv, EntryState
<1>4. QED
  BY <1>2, <1>3

(* Runtime and pipes are set together, and cleared together. *)
LEMMA PipesNext ==
  ASSUME TypeOK, FitInv, PipesInv, NEW o \in Ops, Request(o) \/ Step(o)
  PROVE  PipesInv'
<1>1. /\ entry \in [Entries -> EntryState] /\ Fit(op[o])
      /\ \A e \in Entries : entry[e].pipes => entry[e].runtime \in Procs
  BY DEF TypeOK, FitInv, PipesInv
<1>2. ASSUME NEW e, NEW c, entry' = [entry EXCEPT ![e].config = c] PROVE PipesInv'
  BY <1>1, <1>2 DEF EntryState, PipesInv
<1>3. ASSUME NEW e, NEW p, NEW b, NEW t, b => p \in Procs,
             entry' = [entry EXCEPT ![e].runtime = p, ![e].pipes = b, ![e].tools = t]
      PROVE  PipesInv'
  BY <1>1, <1>3 DEF EntryState, PipesInv
<1>4. ASSUME NEW e, NEW c, entry' = [entry EXCEPT ![e] = NewEntry(c)] PROVE PipesInv'
  BY <1>1, <1>4 DEF NewEntry, EntryState, PipesInv
<1>5. CASE Register(o)
  BY <1>4, <1>5 DEF Register
<1>6. CASE ActivateFromCatalog(o)
  BY <1>4, <1>6 DEF ActivateFromCatalog
<1>7. CASE ReloadWithConfig(o) \/ SetHTTPConfig(o) \/ Attempt(o) \/ Rollback(o)
  BY <1>2, <1>7 DEF ReloadWithConfig, SetHTTPConfig, Attempt, Rollback
<1>8. CASE Publish(o)
  BY <1>1, <1>3, <1>8 DEF Publish, At, Fit
<1>9. CASE SetHTTPRuntime(o)
  BY <1>3, <1>9 DEF SetHTTPRuntime
<1>10. CASE StoreTools(o)
  <2>1. PICK e, t : entry' = [entry EXCEPT ![e].tools = t]
    BY <1>10 DEF StoreTools
  <2>2. QED
    BY <1>1, <2>1 DEF EntryState, PipesInv
<1>11. CASE StopClears(o)
  BY <1>1, <1>11, ClearedPipes DEF StopClears
<1>12. CASE UNCHANGED entry
  BY <1>1, <1>12 DEF PipesInv
<1>13. QED
  BY <1>5, <1>6, <1>7, <1>8, <1>9, <1>10, <1>11, <1>12
  DEF Request, Step, Start, Enter, Reload, Deregister, Forget, Activate, TryAll,
      Deactivate, Check, Remove, Leave, Found, ReadConfig, Spawn, Refresh,
      Handshake, Signal, StopWaits, StopKills, GiveUp, TryHTTP, StoreClient,
      TryStdio

(* So does everything else an operation changes. *)
LEMMA WorldNext ==
  ASSUME TypeOK, FitInv, NEW o \in Ops, Request(o) \/ Step(o)
  PROVE  /\ slot' \in Entries \cup {None} /\ http' \in HTTPConfigs \cup {None}
         /\ proc' \in [Procs -> {"running", "succeeded", "failed"}]
         /\ reaped' \in [Procs -> BOOLEAN]
         /\ watch' \in [Procs -> {"off", "waiting", "clearing"}]
<1>1. Fit(op[o])
  BY DEF FitInv
<1>2. CASE Request(o)
  BY <1>2
  DEF Request, TypeOK, Register, Start, Enter, Reload, ReloadWithConfig,
              Deregister, Forget, Activate, TryAll, Deactivate,
              ActivateFromCatalog, world
<1>3. CASE Spawn(o)
  BY <1>3 DEF Spawn, TypeOK
<1>4. CASE Publish(o)
  BY <1>4 DEF Publish, TypeOK
<1>5. CASE StopWaits(o) \/ StopKills(o)
  BY <1>5 DEF StopWaits, StopKills, TypeOK
<1>6. CASE StoreClient(o)
  BY <1>1, <1>6 DEF StoreClient, At, Fit, TypeOK, world
<1>7. CASE Step(o) /\ ~(Spawn(o) \/ Publish(o) \/ StopWaits(o) \/ StopKills(o)
                       \/ StoreClient(o))
  BY <1>7
  DEF Step, TypeOK, Check, Remove, Leave, Forget, Found, TryAll, ReadConfig,
              Refresh, Handshake, StoreTools, Signal, StopClears, GiveUp, TryHTTP,
              SetHTTPConfig, SetHTTPRuntime, TryStdio, Attempt, Rollback, world
<1>8. QED
  BY <1>2, <1>3, <1>4, <1>5, <1>6, <1>7

(* The process an operation stopped is dead. *)
StopInv == TypeOK /\ FitInv /\ PipesInv /\ StopKillsWhatItStops

(* A step of a goroutine leaves the locals of the others alone. *)
LEMMA OpsNext ==
  ASSUME TypeOK, FitInv, NEW o \in Ops, Request(o) \/ Step(o)
  PROVE  /\ op' \in [Ops -> OpState] /\ FitInv'
         /\ \A q \in Ops \ {o} : op'[q] = op[q]
<1>1. PICK r \in OpState : Fit(r) /\ op' = [op EXCEPT ![o] = r]
  BY StepMoves, RequestMoves DEF Moves
<1>2. op \in [Ops -> OpState] /\ \A q \in Ops : Fit(op[q])
  BY DEF TypeOK, FitInv
<1>3. op'[o] = r /\ \A q \in Ops \ {o} : op'[q] = op[q]
  BY <1>1, <1>2
<1>4. \A q \in Ops : Fit(op'[q])
  BY <1>1, <1>2, <1>3
<1>5. op' \in [Ops -> OpState]
  BY <1>1, <1>2
<1>6. QED
  BY <1>3, <1>4, <1>5 DEF FitInv, Fit

(* At first nothing runs and nothing is stopped. *)
LEMMA StopInit == Init => StopInv
<1> SUFFICES ASSUME Init PROVE StopInv
  OBVIOUS
<1>1. entry \in [Entries -> EntryState]
  BY DEF Init, EntryState, NewEntry, Sources
<1>2. TypeOK
  BY <1>1, IdleFits DEF Init, TypeOK
<1>3. FitInv
  BY IdleFits DEF Init, FitInv
<1>4. StopKillsWhatItStops
  BY DEF Init, StopKillsWhatItStops, Idle
<1>5. PipesInv
  BY DEF Init, NewEntry, PipesInv
<1>6. QED
  BY <1>2, <1>3, <1>4, <1>5 DEF StopInv

(* The processes that run after a step of a goroutine ran before, or are   *)
(* new and nobody's.                                                       *)
LEMMA Revived ==
  ASSUME TypeOK, NEW o \in Ops, Request(o) \/ Step(o), NEW p \in Procs,
         proc[p] # "running", proc'[p] = "running"
  PROVE  Spawn(o) /\ \A q \in Ops : op[q].proc # p
<1>1. Spawn(o)
  BY DEF Request, Register, Start, Enter, Reload, ReloadWithConfig,
         Deregister, Forget, Activate, TryAll, Deactivate, ActivateFromCatalog,
         world, Step, TypeOK, Check, Remove, Leave, Found, ReadConfig, Publish,
         Refresh, Handshake, StoreTools, Signal, StopWaits, StopKills, StopClears,
         GiveUp, TryHTTP, SetHTTPConfig, SetHTTPRuntime, StoreClient, TryStdio,
         Attempt, Rollback
<1>2. PICK f \in Procs : FreshProc(f) /\ proc' = [proc EXCEPT ![f] = "running"]
  BY <1>1 DEF Spawn
<1>3. f = p
  BY <1>2 DEF TypeOK
<1>4. QED
  BY <1>1, <1>2, <1>3 DEF FreshProc

(* Stop gets to "clear" by waiting for its process or by killing it. *)
LEMMA Cleared ==
  ASSUME TypeOK, FitInv, NEW o \in Ops, Request(o) \/ Step(o), op'[o].pc = "clear"
  PROVE  proc'[op'[o].proc] # "running"
<1>1. op \in [Ops -> OpState] /\ op[o] \in OpState /\ Fit(op[o])
  BY DEF TypeOK, FitInv
<1>2. CASE StopWaits(o)
  <2>1. op'[o].proc = op[o].proc
    BY <1>1, <1>2 DEF StopWaits, OpState
  <2>2. QED
    BY <1>2, <2>1 DEF StopWaits
<1>3. CASE StopKills(o)
  <2>1. op'[o].proc = op[o].proc /\ op[o].proc \in Procs
    BY <1>1, <1>3 DEF StopKills, OpState, Fit
  <2>2. QED
    BY <1>3, <2>1 DEF StopKills, TypeOK
<1>a. StartFails(o) => op'[o].pc # "clear"
  BY <1>1 DEF StartFails, Idle
<1>b. StopReturns(o) => op'[o].pc # "clear"
  BY <1>1, <1>a DEF StopReturns, OpState
<1>c. Return(o) => op'[o].pc # "clear"
  BY <1>1 DEF Return, Idle
<1>4. CASE Register(o) \/ Start(o) \/ Reload(o) \/ Deactivate(o) \/ Deregister(o)
  BY <1>1, <1>4, <1>a, <1>b, <1>c
  DEF At, OpState, Register, Start, Reload, Deactivate, Deregister, Enter,
      Forget
<1>5. CASE ReloadWithConfig(o)
  BY <1>1, <1>5, <1>a, <1>b, <1>c DEF At, OpState, ReloadWithConfig
<1>6. CASE Activate(o)
  BY <1>1, <1>6, <1>a, <1>b, <1>c DEF At, OpState, Activate, TryAll
<1>7. CASE ActivateFromCatalog(o)
  BY <1>1, <1>7, <1>a, <1>b, <1>c DEF At, OpState, ActivateFromCatalog
<1>8. CASE Check(o) \/ Leave(o) \/ Publish(o)
  BY <1>1, <1>8, <1>a, <1>b, <1>c
  DEF At, OpState, Check, Leave, Publish, Forget
<1>9. CASE StoreTools(o) \/ Remove(o) \/ GiveUp(o) \/ StoreClient(o)
  BY <1>1, <1>9, <1>a, <1>b, <1>c
  DEF At, OpState, StoreTools, Remove, GiveUp, StoreClient
<1>10. CASE SetHTTPConfig(o) \/ SetHTTPRuntime(o) \/ Attempt(o) \/ Rollback(o)
  BY <1>1, <1>10, <1>a, <1>b, <1>c
  DEF At, OpState, SetHTTPConfig, SetHTTPRuntime, Attempt, Rollback
<1>11. CASE TryStdio(o)
  BY <1>1, <1>11, <1>a, <1>b, <1>c DEF At, OpState, TryStdio
<1>12. CASE Found(o)
  BY <1>1, <1>12, <1>a, <1>b, <1>c DEF At, OpState, Found, TryAll
<1>13. CASE Handshake(o)
  BY <1>1, <1>13, <1>a, <1>b, <1>c DEF At, OpState, Handshake
<1>14. CASE TryHTTP(o)
  BY <1>1, <1>14, <1>a, <1>b, <1>c DEF At, OpState, TryHTTP
<1>15. CASE ReadConfig(o) \/ Refresh(o)
  BY <1>1, <1>15, <1>a, <1>b, <1>c DEF At, OpState, ReadConfig, Refresh
<1>16. CASE Spawn(o)
  <2>1. CASE StartFails(o)
    BY <1>a, <2>1
  <2>2. CASE ~StartFails(o)
    <3>1. PICK p \in Procs :
            op' = [op EXCEPT ![o].pc = "publish", ![o].proc = p,
                             ![o].at = slot, ![o].tools = entry[slot].tools]
      BY <1>16, <2>2 DEF Spawn
    <3>2. QED
      BY <1>1, <3>1 DEF OpState
  <2>3. QED
    BY <2>1, <2>2
<1>17. CASE Signal(o)
  BY <1>1, <1>17, <1>a, <1>b, <1>c DEF At, OpState, Signal
<1>18. CASE StopClears(o)
  BY <1>1, <1>18, <1>a, <1>b, <1>c DEF At, OpState, StopClears
<1>19. QED
  BY <1>2, <1>3, <1>4, <1>5, <1>6, <1>7, <1>8, <1>9, <1>10, <1>11, <1>12,
     <1>13, <1>14, <1>15, <1>16, <1>17, <1>18
  DEF Step, Request

(* The watchers and the processes keep the types. *)
LEMMA WatcherNext ==
  ASSUME TypeOK, FitInv, NEW p \in Procs, Watcher(p) \/ Exits(p)
  PROVE  /\ TypeOK' /\ FitInv' /\ op' = op
         /\ \A q \in Procs : proc[q] # "running" => proc'[q] # "running"
<1>1. op' = op /\ slot' = slot /\ http' = http
  BY DEF Watcher, WatcherWakes, WatcherClears, Exits
<1>2. FitInv'
  BY <1>1 DEF FitInv, Fit
<1>3. entry' \in [Entries -> EntryState]
  <2>1. ClearSlot \in [Entries -> EntryState]
    BY ZenonT(40) DEF ClearSlot, TypeOK, EntryState
  <2>2. QED
    BY <2>1 DEF Watcher, WatcherWakes, WatcherClears, Exits, TypeOK
<1>4. /\ proc' \in [Procs -> {"running", "succeeded", "failed"}]
      /\ \A q \in Procs : proc[q] # "running" => proc'[q] # "running"
  BY DEF TypeOK, Watcher, WatcherWakes, WatcherClears, Exits
<1>5. /\ reaped' \in [Procs -> BOOLEAN]
      /\ watch' \in [Procs -> {"off", "waiting", "clearing"}]
  BY DEF TypeOK, Watcher, WatcherWakes, WatcherClears, Exits
<1>6. QED
  BY <1>1, <1>2, <1>3, <1>4, <1>5 DEF TypeOK

(* Every step keeps the invariant. *)
LEMMA StopStep == StopInv /\ [Next]_vars => StopInv'
<1> SUFFICES ASSUME StopInv, [Next]_vars PROVE StopInv'
  OBVIOUS
<1> USE DEF StopInv
<1>1. ASSUME NEW o \in Ops, Request(o) \/ Step(o) PROVE StopInv'
  <2>1. TypeOK' /\ FitInv' /\ PipesInv'
    BY <1>1, OpsNext, EntryNext, WorldNext, PipesNext DEF TypeOK
  <2>2. ASSUME NEW q \in Ops, op'[q].pc = "clear" PROVE proc'[op'[q].proc] # "running"
    <3>1. CASE q = o
      BY <1>1, <2>2, <3>1, Cleared
    <3>2. CASE q # o
      <4>1. op'[q] = op[q] /\ op[q].proc \in Procs /\ proc[op[q].proc] # "running"
        BY <1>1, <2>2, <3>2, OpsNext DEF StopKillsWhatItStops, FitInv, Fit
      <4>2. QED
        BY <1>1, <4>1, Revived
    <3>3. QED
      BY <3>1, <3>2
  <2>3. QED
    BY <2>1, <2>2 DEF StopKillsWhatItStops
<1>2. ASSUME NEW p \in Procs, Watcher(p) \/ Exits(p) PROVE StopInv'
  <2>1. TypeOK' /\ FitInv' /\ op' = op
    BY <1>2, WatcherNext
  <2>a. PipesInv'
    <3>1. entry' = entry \/ entry' = ClearSlot
      BY <1>2 DEF Watcher, WatcherWakes, WatcherClears, Exits
    <3>2. QED
      BY <3>1, ClearedPipes DEF PipesInv
  <2>2. ASSUME NEW q \in Ops, op'[q].pc = "clear" PROVE proc'[op'[q].proc] # "running"
    <3>1. op[q].pc = "clear" /\ op[q].proc \in Procs /\ proc[op[q].proc] # "running"
      BY <2>1, <2>2 DEF StopKillsWhatItStops, FitInv, Fit
    <3>2. QED
      BY <1>2, <2>1, <3>1, WatcherNext
  <2>3. QED
    BY <2>1, <2>2, <2>a DEF StopKillsWhatItStops
<1>3. CASE UNCHANGED vars
  BY <1>3 DEF vars, world, TypeOK, FitInv, Fit, PipesInv, StopKillsWhatItStops
<1>4. QED
  BY <1>1, <1>2, <1>3 DEF Next

(* The invariant of any number of goroutines. *)
THEOREM StopHolds == Spec => []StopInv
BY StopInit, StopStep, PTL DEF Spec

(* The state of a server name keeps its types, whatever operations, watch- *)
(* ers and processes do to it (broker.go, registry.go, launcher.go).       *)
THEOREM LifecycleTyped == Spec => []TypeOK
<1>1. StopInv => TypeOK
  BY DEF StopInv
<1>2. QED
  BY <1>1, StopHolds, PTL

(* Whatever Launcher.Stop was asked to stop is dead when it clears the     *)
(* name, with any number of goroutines (launcher.go:112-120).              *)
THEOREM Killed == Spec => []StopKillsWhatItStops
<1>1. StopInv => StopKillsWhatItStops
  BY DEF StopInv
<1>2. QED
  BY <1>1, StopHolds, PTL

-----------------------------------------------------------------------------
(* One goroutine, as in LifecycleSequential; watchers and processes are    *)
(* free to come in between any two of its steps.                           *)

(* StartServer after it published a process whose tools it has not stored. *)
Unsure(r) == \/ r.pc \in {"refresh", "handshake", "tools"}
             \/ r.pc \in {"stop", "wait", "clear"} /\ r.then = "fail"

Matched == slot # None /\ entry[slot].pipes
             => /\ entry[slot].runtime \in Procs
                /\ entry[slot].tools = entry[slot].runtime

(* The name stands for p, or for no process. *)
Only(p) == slot # None => entry[slot].runtime \in {p, None}

(* What activation may put back ... *)
Restores(o) ==
  /\ op[o].kind = "activate" /\ op[o].pc \in Starting \cup {"attempt", "rollback"}
       => op[o].old = op[o].first
  /\ op[o].pc \in {"try", "attempt"} => entry[op[o].ent].config = op[o].first

(* ... and what the name stands for, while nobody else operates on it. *)
Alone(o) ==
  /\ ~Unsure(op[o]) => Matched
  /\ op[o].pc \in {"handshake", "tools"} => op[o].at = slot /\ slot \in Entries
                                             /\ Only(op[o].proc)
  /\ op[o].pc \in {"wait", "clear"} => Only(op[o].proc)
  /\ op[o].pc = "remove" => Only(None)

(* What an update of an entry leaves alone. *)
LEMMA EntryUpdates ==
  ASSUME TypeOK, NEW e \in Entries, NEW f \in Entries, NEW x
  PROVE  /\ entry' = [entry EXCEPT ![e].config = x]
              => /\ entry'[f].runtime = entry[f].runtime
                 /\ entry'[f].pipes = entry[f].pipes
                 /\ entry'[f].tools = entry[f].tools
                 /\ entry'[f].config = IF f = e THEN x ELSE entry[f].config
         /\ entry' = [entry EXCEPT ![e].runtime = None, ![e].pipes = FALSE]
              => /\ entry'[f].runtime = IF f = e THEN None ELSE entry[f].runtime
                 /\ entry'[f].pipes <=> f # e /\ entry[f].pipes
                 /\ entry'[f].tools = entry[f].tools
                 /\ entry'[f].config = entry[f].config
         /\ entry' = [entry EXCEPT ![e].tools = x]
              => /\ entry'[f].runtime = entry[f].runtime
                 /\ entry'[f].pipes = entry[f].pipes
                 /\ entry'[f].tools = IF f = e THEN x ELSE entry[f].tools
                 /\ entry'[f].config = entry[f].config
<1>1. entry \in [Entries -> EntryState]
  BY DEF TypeOK
<1>2. CASE f = e
  <2>1. entry' = [entry EXCEPT ![e].config = x]
          => entry'[e] = [entry[e] EXCEPT !.config = x]
    BY <1>1
  <2>2. entry' = [entry EXCEPT ![e].runtime = None, ![e].pipes = FALSE]
          => entry'[e] = [entry[e] EXCEPT !.runtime = None, !.pipes = FALSE]
    BY <1>1
  <2>3. entry' = [entry EXCEPT ![e].tools = x]
          => entry'[e] = [entry[e] EXCEPT !.tools = x]
    BY <1>1
  <2>4. entry[e] \in EntryState
    BY <1>1
  <2>5. QED
    BY <1>2, <2>1, <2>2, <2>3, <2>4 DEF EntryState
<1>3. CASE f # e
  BY <1>1, <1>3
<1>4. QED
  BY <1>2, <1>3

(* A new entry has no process. *)
LEMMA NewEntries ==
  ASSUME TypeOK, NEW e \in Entries, NEW c, entry' = [entry EXCEPT ![e] = NewEntry(c)],
         slot' = e
  PROVE  Matched' /\ Only(None)'
BY DEF NewEntry, Matched, Only, TypeOK

(* clearAfterExit leaves no process under the name. *)
LEMMA ClearsSlot ==
  ASSUME TypeOK, entry' = ClearSlot, slot' = slot
  PROVE  /\ Matched' /\ \A p : Only(p)'
         /\ \A e \in Entries : /\ entry'[e].config = entry[e].config
                               /\ entry'[e].runtime \in {entry[e].runtime, None}
<1>1. CASE slot = None
  BY <1>1 DEF ClearSlot, Matched, Only
<1>2. CASE slot # None
  <2>1. /\ slot \in Entries
        /\ entry' = [entry EXCEPT ![slot].runtime = None, ![slot].pipes = FALSE]
    BY <1>2 DEF ClearSlot, TypeOK
  <2>2. entry'[slot].runtime = None /\ ~entry'[slot].pipes
    BY <2>1, EntryUpdates
  <2>3. ASSUME NEW e \in Entries
        PROVE  /\ entry'[e].config = entry[e].config
               /\ entry'[e].runtime = IF e = slot THEN None ELSE entry[e].runtime
    BY ZenonT(40), <2>1, EntryUpdates
  <2>4. \A e \in Entries : /\ entry'[e].config = entry[e].config
                          /\ entry'[e].runtime \in {entry[e].runtime, None}
    BY <2>3
  <2>5. Matched' /\ \A p : Only(p)'
    BY <2>2 DEF Matched, Only
  <2>6. QED
    BY <2>4, <2>5
<1>3. QED
  BY <1>1, <1>2

(* Leaving StartServer or Stop. *)
LEMMA Leaving ==
  ASSUME TypeOK, FitInv, NEW o \in Ops
  PROVE  /\ StartFails(o) =>
              /\ op'[o].pc \in {"rollback", "idle"} /\ ~Unsure(op'[o])
              /\ op'[o].pc = "rollback" => /\ op[o].kind = "activate"
                                          /\ op'[o].old = op[o].old
                                          /\ op'[o].first = op[o].first
         /\ Return(o) => op'[o].pc = "idle" /\ ~Unsure(op'[o])
         /\ StopReturns(o) =>
              /\ op'[o].pc \in {"start", "remove", "rollback", "idle"}
              /\ ~Unsure(op'[o])
              /\ op'[o].pc # "idle" => /\ op'[o].old = op[o].old
                                      /\ op'[o].first = op[o].first
              /\ op'[o].pc \in {"start", "remove"} => op'[o].kind = op[o].kind
              /\ op'[o].pc = "rollback" => op[o].kind = "activate"
<1>1. op \in [Ops -> OpState] /\ op[o] \in OpState
  BY DEF TypeOK
<1>2. StartFails(o) =>
        /\ op'[o].pc \in {"rollback", "idle"} /\ ~Unsure(op'[o])
        /\ op'[o].pc = "rollback" => /\ op[o].kind = "activate"
                                    /\ op'[o].old = op[o].old
                                    /\ op'[o].first = op[o].first
  BY <1>1 DEF StartFails, Idle, Unsure
<1>3. Return(o) => op'[o].pc = "idle" /\ ~Unsure(op'[o])
  BY <1>1 DEF Return, Idle, Unsure
<1>4. ASSUME StopReturns(o), op[o].then \in {"start", "remove"}
      PROVE  /\ op'[o].pc \in {"start", "remove"} /\ ~Unsure(op'[o])
             /\ op'[o].old = op[o].old /\ op'[o].first = op[o].first
             /\ op'[o].kind = op[o].kind
  BY <1>1, <1>4 DEF StopReturns, OpState, Unsure
<1>5. ASSUME StopReturns(o), op[o].then \notin {"start", "remove"} PROVE StartFails(o)
  BY <1>5 DEF StopReturns
<1>6. QED
  BY <1>2, <1>3, <1>4, <1>5

(* The configuration of an activation, through every step. *)
LEMMA RestoresNext ==
  ASSUME TypeOK, FitInv, NEW o \in Ops, Request(o) \/ Step(o), Restores(o)
  PROVE  Restores(o)'
<1>1. /\ op \in [Ops -> OpState] /\ op[o] \in OpState /\ Fit(op[o])
      /\ slot \in Entries \cup {None}
  BY DEF TypeOK, FitInv
<1>a. StartFails(o) /\ op[o].pc \in Starting => Restores(o)'
  BY Leaving DEF Restores, Starting
<1>b. Return(o) => Restores(o)'
  BY Leaving DEF Restores, Starting
<1>c. StopReturns(o) /\ op[o].pc \in Starting => Restores(o)'
  BY Leaving DEF Restores, Starting
<1>2. CASE Register(o)
  BY <1>1, <1>2 DEF Register, At, Restores, Starting, Fit, OpState
<1>3. CASE Start(o)
  BY <1>1, <1>3 DEF Start, At, Restores, Starting, Fit, OpState, Enter
<1>4. CASE Reload(o)
  BY <1>1, <1>4 DEF Reload, At, Restores, Starting, Fit, OpState, Enter
<1>5. CASE Deactivate(o)
  BY <1>1, <1>5 DEF Deactivate, At, Restores, Starting, Fit, OpState, Enter
<1>6. CASE Deregister(o)
  BY <1>1, <1>6 DEF Deregister, At, Restores, Starting, Fit, OpState, Forget
<1>7. CASE ReloadWithConfig(o)
  BY <1>1, <1>7 DEF ReloadWithConfig, At, Restores, Starting, Fit, OpState
<1>8. CASE Activate(o)
  BY <1>1, <1>8 DEF Activate, At, Restores, Starting, Fit, OpState, TryAll
<1>9. CASE ActivateFromCatalog(o)
  BY <1>1, <1>9 DEF ActivateFromCatalog, At, Restores, Starting, Fit, OpState
<1>10. CASE Check(o)
  BY <1>1, <1>10 DEF Check, At, Restores, Starting, Fit, OpState
<1>11. CASE Leave(o)
  BY <1>1, <1>11 DEF Leave, At, Restores, Starting, Fit, OpState, Forget
<1>12. CASE Publish(o)
  BY <1>1, <1>12 DEF Publish, At, Restores, Starting, Fit, OpState
<1>13. CASE SetHTTPConfig(o)
  BY <1>1, <1>13 DEF SetHTTPConfig, At, Restores, Starting, Fit, OpState
<1>14. CASE SetHTTPRuntime(o)
  BY <1>1, <1>14 DEF SetHTTPRuntime, At, Restores, Starting, Fit, OpState
<1>15. CASE Attempt(o)
  BY <1>1, <1>15 DEF Attempt, At, Restores, Starting, Fit, OpState
<1>16. CASE Rollback(o)
  <2>1. op[o].pc = "rollback" /\ op[o].kind = "activate" /\ op[o].ent \in Entries
    BY <1>1, <1>16 DEF Rollback, At, Fit
  <2>2. op[o].old = op[o].first
    BY <2>1 DEF Restores
  <2>3. entry'[op[o].ent].config = op[o].old
    BY <1>16, <2>1 DEF Rollback, TypeOK, EntryState
  <2>4. op'[o].pc = "try" /\ op'[o].ent = op[o].ent /\ op'[o].first = op[o].first
    BY <1>1, <1>16 DEF Rollback, OpState
  <2>5. QED
    BY <2>2, <2>3, <2>4 DEF Restores, Starting
<1>17. CASE TryStdio(o)
  BY <1>1, <1>17 DEF TryStdio, At, Restores, Starting, Fit, OpState
<1>18. CASE Found(o)
  BY <1>1, <1>b, <1>18 DEF Found, At, Restores, Starting, Fit, OpState, TryAll
<1>19. CASE Handshake(o)
  BY <1>1, <1>19 DEF Handshake, At, Restores, Starting, Fit, OpState
<1>20. CASE TryHTTP(o)
  BY <1>1, <1>20 DEF TryHTTP, At, Restores, Starting, Fit, OpState
<1>21. CASE ReadConfig(o)
  BY <1>1, <1>a, <1>21 DEF ReadConfig, At, Restores, Starting, Fit, OpState
<1>22. CASE Refresh(o)
  BY <1>1, <1>a, <1>22 DEF Refresh, At, Restores, Starting, Fit, OpState
<1>23. CASE Spawn(o)
  <2>1. CASE StartFails(o)
    BY <1>1, <1>23, <2>1, <1>a DEF Spawn, At, Starting
  <2>2. CASE ~StartFails(o)
    <3>1. PICK p \in Procs :
            /\ op' = [op EXCEPT ![o].pc = "publish", ![o].proc = p,
                               ![o].at = slot, ![o].tools = entry[slot].tools]
            /\ FreshProc(p)
            /\ proc' = [proc EXCEPT ![p] = "running"]
      BY <1>23, <2>2 DEF Spawn
    <3>2. /\ op'[o].pc = "publish" /\ op'[o].kind = op[o].kind
          /\ op'[o].old = op[o].old /\ op'[o].first = op[o].first
      BY <1>1, <3>1 DEF OpState
    <3>3. QED
      BY <1>23, <3>2 DEF Spawn, At, Restores, Starting
  <2>3. QED
    BY <2>1, <2>2
<1>24. CASE Signal(o)
  BY <1>1, <1>b, <1>c, <1>24 DEF Signal, At, Restores, Starting, Fit, OpState
<1>25. CASE StopClears(o)
  BY <1>1, <1>c, <1>25 DEF StopClears, At, Restores, Starting, Fit, OpState
<1>26. CASE StoreTools(o)
  BY <1>1, <1>b, <1>26 DEF StoreTools, At, Restores, Starting, Fit, OpState
<1>27. CASE Remove(o)
  BY <1>1, <1>b, <1>27 DEF Remove, At, Restores, Starting, Fit, OpState
<1>28. CASE GiveUp(o)
  BY <1>1, <1>b, <1>28 DEF GiveUp, At, Restores, Starting, Fit, OpState
<1>29. CASE StoreClient(o)
  BY <1>1, <1>b, <1>29 DEF StoreClient, At, Restores, Starting, Fit, OpState
<1>30. CASE StopWaits(o)
  BY <1>1, <1>30 DEF StopWaits, At, Restores, Starting, Fit, OpState
<1>31. CASE StopKills(o)
  BY <1>1, <1>31 DEF StopKills, At, Restores, Starting, Fit, OpState
<1>32. QED
  BY <1>2, <1>3, <1>4, <1>5, <1>6, <1>7, <1>8, <1>9, <1>10, <1>11, <1>12,
     <1>13, <1>14, <1>15, <1>16, <1>17, <1>18, <1>19, <1>20, <1>21, <1>22,
     <1>23, <1>24, <1>25, <1>26, <1>27, <1>28, <1>29, <1>30, <1>31
  DEF Request, Step

(* What the name stands for, through every step of the only goroutine. *)
LEMMA AloneNext ==
  ASSUME TypeOK, FitInv, PipesInv, NEW o \in Ops, Request(o) \/ Step(o), Alone(o)
  PROVE  Alone(o)'
<1>1. /\ op \in [Ops -> OpState] /\ op[o] \in OpState /\ Fit(op[o])
      /\ slot \in Entries \cup {None}
  BY DEF TypeOK, FitInv
<1>a. StartFails(o) /\ Matched' => Alone(o)'
  BY Leaving DEF Alone
<1>b. Return(o) /\ Matched' => Alone(o)'
  BY Leaving DEF Alone
<1>c. StopReturns(o) /\ Matched' /\ Only(None)' => Alone(o)'
  BY Leaving DEF Alone
<1>d. op[o].kind = "activate" => op[o].ent \in Entries
  BY <1>1 DEF Fit
<1>e. UNCHANGED <<slot, entry>> => (Matched' <=> Matched) /\ \A p : Only(p)' <=> Only(p)
  BY DEF Matched, Only
<1>g. ASSUME NEW e \in Entries, NEW c, entry' = [entry EXCEPT ![e].config = c], slot' = slot
      PROVE  (Matched' <=> Matched) /\ \A p : Only(p)' <=> Only(p)
  BY <1>1, <1>g, EntryUpdates DEF Matched, Only
<1>2. CASE Register(o)
  BY <1>1, <1>2, NewEntries DEF Register, At, Alone, Unsure, OpState
<1>3. CASE Start(o)
  BY <1>1, <1>e, <1>3 DEF Start, At, Alone, Unsure, OpState, Enter
<1>4. CASE Reload(o)
  BY <1>1, <1>e, <1>4 DEF Reload, At, Alone, Unsure, OpState, Enter
<1>5. CASE Deactivate(o)
  BY <1>1, <1>e, <1>5 DEF Deactivate, At, Alone, Unsure, OpState, Enter
<1>6. CASE Deregister(o)
  BY <1>1, <1>e, <1>6 DEF Deregister, At, Alone, Unsure, OpState, Forget
<1>7. CASE ReloadWithConfig(o)
  <2>1. PICK config \in Configs :
          /\ At(o, "idle") /\ slot \in Entries /\ slot' = slot
          /\ entry' = [entry EXCEPT ![slot].config = config]
          /\ op' = [op EXCEPT ![o].pc = "check", ![o].kind = "reloadWith",
                              ![o].ent = slot, ![o].given = config]
    BY <1>1, <1>7 DEF ReloadWithConfig
  <2>2. Matched'
    BY <1>g, <2>1 DEF Alone, Unsure, At
  <2>3. op'[o].pc = "check"
    BY <1>1, <2>1 DEF OpState
  <2>4. QED
    BY <2>2, <2>3 DEF Alone
<1>8. CASE Activate(o)
  BY <1>1, <1>e, <1>8 DEF Activate, At, Alone, Unsure, OpState, TryAll
<1>9. CASE ActivateFromCatalog(o)
  <2>1. PICK e \in Entries, left \in SUBSET Configs : \E config \in left :
          /\ slot' = e /\ entry' = [entry EXCEPT ![e] = NewEntry(config)]
          /\ op' = [op EXCEPT ![o].pc = "found", ![o].kind = "catalog", ![o].left = left]
    BY <1>9, TransportsAreConfigs DEF ActivateFromCatalog
  <2>2. Matched'
    BY <2>1, NewEntries
  <2>3. op'[o].pc = "found"
    BY <1>1, <2>1 DEF OpState
  <2>4. QED
    BY <2>2, <2>3 DEF Alone
<1>10. CASE Check(o)
  BY <1>1, <1>e, <1>10 DEF Check, At, Alone, Unsure, OpState
<1>11. CASE Leave(o)
  BY <1>1, <1>e, <1>11 DEF Leave, At, Alone, Unsure, OpState, Forget
<1>12. CASE Publish(o)
  BY <1>1, <1>12 DEF Publish, At, Alone, Unsure, OpState
<1>13. CASE SetHTTPConfig(o)
  <2>1. op[o].ent \in Entries /\ op[o].pc = "httpConfig"
    BY <1>1, <1>d, <1>13 DEF SetHTTPConfig, At, Fit
  <2>2. Matched'
    BY <1>g, <1>13, <2>1 DEF Alone, Unsure, SetHTTPConfig
  <2>3. op'[o].pc = "httpRuntime"
    BY <1>1, <1>13 DEF SetHTTPConfig, OpState
  <2>4. QED
    BY <2>2, <2>3 DEF Alone
<1>14. CASE SetHTTPRuntime(o)
  <2>1. op[o].ent \in Entries /\ op[o].pc = "httpRuntime"
    BY <1>1, <1>d, <1>14 DEF SetHTTPRuntime, At, Fit
  <2>2. /\ slot' = slot /\ ~entry'[op[o].ent].pipes
        /\ \A f \in Entries \ {op[o].ent} : entry'[f] = entry[f]
    BY <1>14, <2>1 DEF SetHTTPRuntime, TypeOK, EntryState
  <2>3. Matched'
    BY <1>1, <2>1, <2>2 DEF Alone, Unsure, Matched
  <2>4. op'[o].pc = "httpStore"
    BY <1>1, <1>14 DEF SetHTTPRuntime, OpState
  <2>5. QED
    BY <2>3, <2>4 DEF Alone
<1>15. CASE Attempt(o)
  BY <1>1, <1>d, <1>g, <1>15 DEF Attempt, At, Alone, Unsure, OpState, Fit
<1>16. CASE Rollback(o)
  BY <1>1, <1>d, <1>g, <1>16 DEF Rollback, At, Alone, Unsure, OpState, Fit
<1>17. CASE TryStdio(o)
  BY <1>1, <1>e, <1>17 DEF TryStdio, At, Alone, Unsure, OpState
<1>18. CASE Found(o)
  BY <1>1, <1>b, <1>e, <1>18 DEF Found, At, Alone, Unsure, OpState, TryAll
<1>19. CASE Handshake(o)
  BY <1>1, <1>e, <1>19 DEF Handshake, At, Alone, Unsure, OpState
<1>20. CASE TryHTTP(o)
  BY <1>1, <1>e, <1>20 DEF TryHTTP, At, Alone, Unsure, OpState
<1>21. CASE ReadConfig(o)
  BY <1>1, <1>a, <1>e, <1>21 DEF ReadConfig, At, Alone, Unsure, OpState
<1>22. CASE Refresh(o)
  <2>1. UNCHANGED <<slot, entry>> /\ op[o].pc = "refresh"
    BY <1>22 DEF Refresh, At
  <2>2. CASE slot # None /\ entry[slot].pipes
    <3>1. /\ op'[o].pc = "handshake" /\ op'[o].at = slot
          /\ op'[o].proc = entry[slot].runtime
      BY <1>1, <1>22, <2>2 DEF Refresh, OpState
    <3>2. QED
      BY <1>1, <2>1, <2>2, <3>1 DEF Alone, Only, Unsure
  <2>3. CASE ~(slot # None /\ entry[slot].pipes)
    <3>1. Matched' /\ StartFails(o)
      BY <1>22, <2>1, <2>3 DEF Refresh, Matched
    <3>2. QED
      BY <1>a, <3>1
  <2>4. QED
    BY <2>2, <2>3
<1>23. CASE Spawn(o)
  <2>1. UNCHANGED <<slot, entry>> /\ op[o].pc = "spawn"
    BY <1>23 DEF Spawn, At
  <2>2. Matched'
    BY <1>e, <2>1 DEF Alone, Unsure
  <2>3. CASE StartFails(o)
    BY <1>a, <2>2, <2>3
  <2>4. CASE ~StartFails(o)
    <3>1. PICK p \in Procs :
            op' = [op EXCEPT ![o].pc = "publish", ![o].proc = p,
                             ![o].at = slot, ![o].tools = entry[slot].tools]
      BY <1>23, <2>4 DEF Spawn
    <3>2. op'[o].pc = "publish"
      BY <1>1, <3>1 DEF OpState
    <3>3. QED
      BY <2>2, <3>2 DEF Alone
  <2>5. QED
    BY <2>3, <2>4
<1>24. CASE Signal(o)
  <2>1. UNCHANGED <<slot, entry>> /\ op[o].pc = "stop"
    BY <1>24 DEF Signal, At
  <2>2. CASE slot # None /\ entry[slot].runtime # None
    <3>1. /\ op'[o].pc = "wait" /\ op'[o].proc = entry[slot].runtime
          /\ op'[o].then = op[o].then
      BY <1>1, <1>24, <2>2 DEF Signal, OpState
    <3>2. Unsure(op'[o]) <=> Unsure(op[o])
      BY <2>1, <3>1 DEF Unsure
    <3>3. Only(op[o].proc)'
      BY <2>1, <3>1 DEF Only
    <3>4. Matched' <=> Matched
      BY <1>e, <2>1
    <3>5. QED
      BY <3>1, <3>2, <3>3, <3>4 DEF Alone
  <2>3. CASE ~(slot # None /\ entry[slot].runtime # None)
    <3>1. Matched' /\ Only(None)'
      BY <1>1, <2>1, <2>3, DistinctAssumption DEF Matched, Only, PipesInv
    <3>2. Return(o) \/ StopReturns(o)
      BY <1>24, <2>3 DEF Signal
    <3>3. QED
      BY <1>b, <1>c, <3>1, <3>2
  <2>4. QED
    BY <2>2, <2>3
<1>25. CASE StopClears(o)
  BY <1>1, <1>c, <1>25, ClearsSlot DEF StopClears, At, Alone, Unsure, OpState
<1>26. CASE StoreTools(o)
  <2>1. /\ slot \in Entries /\ slot' = slot /\ Only(op[o].proc)
        /\ entry' = [entry EXCEPT ![slot].tools = op[o].proc]
    BY <1>26 DEF StoreTools, At, Alone
  <2>2. /\ entry'[slot].tools = op[o].proc
        /\ entry'[slot].runtime = entry[slot].runtime
        /\ entry'[slot].pipes = entry[slot].pipes
    BY <1>1, <2>1 DEF TypeOK, EntryState
  <2>3. Matched' /\ Return(o)
    BY <1>26, <2>1, <2>2, DistinctAssumption DEF Matched, Only, PipesInv, StoreTools
  <2>4. QED
    BY <1>b, <2>3
<1>27. CASE Remove(o)
  <2>1. Matched' /\ Return(o)
    BY <1>27 DEF Remove, Matched
  <2>2. QED
    BY <1>b, <2>1
<1>28. CASE GiveUp(o)
  BY <1>1, <1>b, <1>e, <1>28 DEF GiveUp, At, Alone, Unsure, OpState
<1>29. CASE StoreClient(o)
  BY <1>1, <1>b, <1>e, <1>29 DEF StoreClient, At, Alone, Unsure, OpState
<1>30. CASE StopWaits(o)
  BY <1>1, <1>e, <1>30 DEF StopWaits, At, Alone, Unsure, OpState
<1>31. CASE StopKills(o)
  BY <1>1, <1>e, <1>31 DEF StopKills, At, Alone, Unsure, OpState
<1>32. QED
  BY <1>2, <1>3, <1>4, <1>5, <1>6, <1>7, <1>8, <1>9, <1>10, <1>11, <1>12,
     <1>13, <1>14, <1>15, <1>16, <1>17, <1>18, <1>19, <1>20, <1>21, <1>22,
     <1>23, <1>24, <1>25, <1>26, <1>27, <1>28, <1>29, <1>30, <1>31
  DEF Request, Step

(* Watchers and processes change no configuration ... *)
LEMMA RestoresWatched ==
  ASSUME TypeOK, FitInv, NEW o \in Ops, Restores(o), NEW p \in Procs,
         Watcher(p) \/ Exits(p)
  PROVE  Restores(o)'
<1>1. op' = op /\ slot' = slot /\ (entry' = entry \/ entry' = ClearSlot)
  BY DEF Watcher, WatcherWakes, WatcherClears, Exits
<1>2. \A e \in Entries : entry'[e].config = entry[e].config
  BY <1>1, ClearsSlot
<1>3. op[o].pc \in {"try", "attempt"} => op[o].ent \in Entries
  BY DEF FitInv, Fit
<1>4. QED
  BY <1>1, <1>2, <1>3 DEF Restores

(* ... and put no process under the name. *)
LEMMA AloneWatched ==
  ASSUME TypeOK, FitInv, NEW o \in Ops, Alone(o), NEW p \in Procs,
         Watcher(p) \/ Exits(p)
  PROVE  Alone(o)'
<1>1. op' = op /\ slot' = slot /\ (entry' = entry \/ entry' = ClearSlot)
  BY DEF Watcher, WatcherWakes, WatcherClears, Exits
<1>2. CASE entry' = entry
  BY <1>1, <1>2 DEF Alone, Matched, Only
<1>3. CASE entry' = ClearSlot
  BY <1>1, <1>3, ClearsSlot DEF Alone
<1>4. QED
  BY <1>1, <1>2, <1>3

AloneInv == StopInv /\ \A o \in Ops : Restores(o) /\ Alone(o)

(* The invariant of one goroutine. *)
THEOREM AloneHolds ==
  ASSUME NEW o, Ops = {o}
  PROVE  Spec => []AloneInv
<1>1. Init => AloneInv
  <2> SUFFICES ASSUME Init PROVE AloneInv
    OBVIOUS
  <2>1. op[o] = Idle /\ slot = None
    BY DEF Init
  <2>2. Restores(o) /\ Alone(o)
    BY <2>1 DEF Restores, Alone, Idle, Matched, Starting
  <2>3. QED
    BY <2>2, StopInit DEF AloneInv
<1>2. AloneInv /\ [Next]_vars => AloneInv'
  <2> SUFFICES ASSUME AloneInv, [Next]_vars PROVE AloneInv'
    OBVIOUS
  <2>1. StopInv' /\ TypeOK /\ FitInv /\ PipesInv /\ Restores(o) /\ Alone(o)
    BY StopStep DEF AloneInv, StopInv
  <2>2. Restores(o)' /\ Alone(o)'
    <3>1. CASE Request(o) \/ Step(o)
      BY <2>1, <3>1, RestoresNext, AloneNext
    <3>2. ASSUME NEW p \in Procs, Watcher(p) \/ Exits(p) PROVE Restores(o)' /\ Alone(o)'
      BY <2>1, <3>2, RestoresWatched, AloneWatched
    <3>3. CASE UNCHANGED vars
      BY <2>1, <3>3 DEF vars, Restores, Alone, Matched, Only
    <3>4. QED
      BY <3>1, <3>2, <3>3 DEF Next
  <2>3. QED
    BY <2>1, <2>2 DEF AloneInv
<1>3. QED
  BY <1>1, <1>2, PTL DEF Spec

(* Before each transport, and when it gives up, activation has restored    *)
(* the configuration it found, if nobody else operates on the name, what-  *)
(* ever its processes and late watchers do (broker.go:384-386).            *)
THEOREM RestoresHolds ==
  ASSUME NEW o, Ops = {o}
  PROVE  Spec => []RollbackRestores
<1>1. AloneInv => RollbackRestores
  BY DEF AloneInv, Restores, RollbackRestores
<1>2. QED
  BY <1>1, AloneHolds, PTL

(* Between operations, when Call would write to an entry's pipes, the      *)
(* tools it lists are those of the process at their other end, if the      *)
(* operations come one by one: also after starts that failed, with or      *)
(* without pipes (broker.go:171-200, 532-541).                             *)
THEOREM ToolsHold ==
  ASSUME NEW o, Ops = {o}
  PROVE  Spec => []ToolsMatchProcess
<1>1. AloneInv => ToolsMatchProcess
  BY DEF AloneInv, Alone, Unsure, Matched, Quiet, ToolsMatchProcess
<1>2. QED
  BY <1>1, AloneHolds, PTL

(* What HandlesKept says of a step. *)
Keeps ==
  \A p \in Procs :
    Held(p) /\ ~Held(p)' =>
      \/ proc'[p] # "running"
      \/ \E o \in Ops : \/ Register(o) \/ ActivateFromCatalog(o)
                         \/ Publish(o) \/ SetHTTPRuntime(o)
      \/ \E q \in Procs : WatcherClears(q)

(* A step that leaves what the name stands for, and no process in the      *)
(* hands of an operation, loses nothing.                                   *)
LEMMA Keeping ==
  ASSUME NEW o, Ops = {o}, TypeOK, FitInv, op' \in [Ops -> OpState],
         Request(o) \/ Step(o), NEW p \in Procs, Held(p), ~Held(p)',
         proc'[p] = "running", Alone(o), StopKillsWhatItStops
  PROVE  Register(o) \/ ActivateFromCatalog(o) \/ Publish(o) \/ SetHTTPRuntime(o)
<1>1. /\ op \in [Ops -> OpState] /\ op[o] \in OpState /\ Fit(op[o]) /\ o \in Ops
      /\ slot \in Entries \cup {None}
  BY DEF TypeOK, FitInv
<1>2. Held(p) <=> Names(p) \/ (op[o].proc = p /\ op[o].pc \in {"publish", "wait"})
  BY DEF Held
<1>3. (slot = None \/ entry[slot].runtime # p) \/ Names(p)
  BY DEF Names
<1>4. ASSUME op[o].pc \notin {"publish", "wait"}, UNCHANGED <<slot, entry>> PROVE FALSE
  BY <1>2, <1>4 DEF Held, Names
<1>5. ASSUME op[o].pc \notin {"publish", "wait"}, slot' = slot,
             NEW e \in Entries, NEW c, entry' = [entry EXCEPT ![e].config = c]
      PROVE  FALSE
  BY <1>1, <1>2, <1>5, EntryUpdates DEF Held, Names
<1>6. p # None
  BY DistinctAssumption
<1>7. CASE Start(o)
  BY <1>4, <1>7 DEF Start, Enter, At
<1>8. CASE Reload(o)
  BY <1>4, <1>8 DEF Reload, Enter, At
<1>9. CASE Deactivate(o)
  BY <1>4, <1>9 DEF Deactivate, Enter, At
<1>10. CASE Deregister(o)
  BY <1>4, <1>10 DEF Deregister, Forget, At
<1>11. CASE Activate(o)
  BY <1>4, <1>11 DEF Activate, TryAll, At
<1>12. CASE Check(o)
  BY <1>4, <1>12 DEF Check, At
<1>13. CASE Leave(o)
  BY <1>4, <1>13 DEF Leave, Forget, At
<1>14. CASE Found(o)
  BY <1>4, <1>14 DEF Found, TryAll, At
<1>15. CASE Handshake(o)
  BY <1>4, <1>15 DEF Handshake, At
<1>16. CASE TryHTTP(o)
  BY <1>4, <1>16 DEF TryHTTP, At
<1>17. CASE TryStdio(o)
  BY <1>4, <1>17 DEF TryStdio, At
<1>18. CASE ReadConfig(o)
  BY <1>4, <1>18 DEF ReadConfig, At
<1>19. CASE Refresh(o)
  BY <1>4, <1>19 DEF Refresh, At
<1>20. CASE Spawn(o)
  BY <1>4, <1>20 DEF Spawn, At
<1>21. CASE Signal(o)
  BY <1>4, <1>21 DEF Signal, At
<1>22. CASE GiveUp(o)
  BY <1>4, <1>22 DEF GiveUp, At
<1>23. CASE StoreClient(o)
  BY <1>4, <1>23 DEF StoreClient, At
<1>24. CASE ReloadWithConfig(o)
  <2>1. PICK config \in Configs :
          /\ At(o, "idle") /\ slot \in Entries /\ slot' = slot
          /\ entry' = [entry EXCEPT ![slot].config = config]
    BY <1>1, <1>24 DEF ReloadWithConfig
  <2>2. QED
    BY <1>5, <2>1 DEF At
<1>25. CASE SetHTTPConfig(o)
  <2>1. op[o].ent \in Entries
    BY <1>1, <1>25 DEF SetHTTPConfig, At, Fit
  <2>2. QED
    BY <1>5, <1>25, <2>1 DEF SetHTTPConfig, At
<1>26. CASE Attempt(o)
  <2>1. op[o].ent \in Entries
    BY <1>1, <1>26 DEF Attempt, At, Fit
  <2>2. QED
    BY <1>5, <1>26, <2>1 DEF Attempt, At
<1>27. CASE Rollback(o)
  <2>1. op[o].ent \in Entries
    BY <1>1, <1>27 DEF Rollback, At, Fit
  <2>2. QED
    BY <1>5, <1>27, <2>1 DEF Rollback, At
<1>28. CASE StoreTools(o)
  <2>1. op[o].at \in Entries /\ entry' = [entry EXCEPT ![op[o].at].tools = op[o].proc]
    BY <1>28 DEF StoreTools, At, Alone
  <2>2. \A e \in Entries : entry'[e].runtime = entry[e].runtime
    BY <2>1 DEF TypeOK, EntryState
  <2>3. QED
    BY <1>1, <1>2, <1>28, <2>2 DEF StoreTools, At, Held, Names
<1>29. CASE Remove(o)
  BY <1>2, <1>6, <1>29 DEF Remove, At, Alone, Only, Names
<1>30. CASE StopWaits(o) \/ StopKills(o)
  <2>1. Only(op[o].proc) /\ op[o].proc \in Procs /\ op[o].pc = "wait"
    BY <1>1, <1>30 DEF StopWaits, StopKills, Alone, Fit
  <2>2. op[o].proc = p
    BY <1>2, <1>6, <2>1 DEF Only, Names
  <2>3. QED
    BY <1>30, <2>1, <2>2 DEF StopWaits, StopKills, TypeOK
<1>31. CASE StopClears(o)
  <2>1. Only(op[o].proc) /\ op[o].pc = "clear" /\ proc[op[o].proc] # "running"
    BY <1>1, <1>31 DEF StopClears, At, Alone, StopKillsWhatItStops
  <2>2. op[o].proc = p
    BY <1>2, <1>6, <2>1 DEF Only, Names
  <2>3. QED
    BY <1>31, <2>1, <2>2 DEF StopClears, world
<1>32. QED
  BY <1>7, <1>8, <1>9, <1>10, <1>11, <1>12, <1>13, <1>14, <1>15, <1>16, <1>17,
     <1>18, <1>19, <1>20, <1>21, <1>22, <1>23, <1>24, <1>25, <1>26, <1>27,
     <1>28, <1>29, <1>30, <1>31
  DEF Request, Step

(* The handle of a running process is lost only where the model says it    *)
(* may be, whatever fails, if the operations come one by one               *)
(* (launcher.go:81-122, broker.go:184-196, 205-299).                       *)
THEOREM HandlesHold ==
  ASSUME NEW o, Ops = {o}
  PROVE  Spec => HandlesKept
<1>1. AloneInv /\ [Next]_vars => [Keeps]_vars
  <2> SUFFICES ASSUME AloneInv, Next, NEW p \in Procs, Held(p), ~Held(p)',
                      proc'[p] = "running", \A q \in Procs : ~WatcherClears(q)
               PROVE  Register(o) \/ ActivateFromCatalog(o) \/ Publish(o)
                      \/ SetHTTPRuntime(o)
    BY DEF Keeps
  <2>1. TypeOK /\ FitInv /\ Alone(o) /\ StopKillsWhatItStops
    BY DEF AloneInv, StopInv
  <2>2. CASE Request(o) \/ Step(o)
    BY <2>1, <2>2, Keeping, OpsNext
  <2>3. ASSUME NEW q \in Procs, Watcher(q) \/ Exits(q) PROVE FALSE
    BY <2>3 DEF Watcher, WatcherWakes, Exits, Held, Names
  <2>4. QED
    BY <2>2, <2>3 DEF Next
<1>2. [][Keeps]_vars => HandlesKept
  BY PTL DEF HandlesKept, Keeps
<1>3. QED
  BY <1>1, <1>2, AloneHolds, PTL DEF Spec
=============================================================================
