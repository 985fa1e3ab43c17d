------------------------------ MODULE MCPProxy ------------------------------
(***************************************************************************)
(* The broker's one MCPProxy (proxy/proxy.go): it multiplexes the JSON-RPC *)
(* calls of every stdio server.  One reader goroutine per server scans     *)
(* that server's stdout; every call registers a one-place channel under a  *)
(* fresh id in `pending`, writes its request under writeMu and waits for   *)
(* the reader to route the response, for Stop to close the channel, or for *)
(* its timer.  Goroutines are interleaved at every point where the code    *)
(* releases p.mu or p.writeMu or uses a channel.                           *)
(*                                                                         *)
(* A server is one incarnation of a subprocess, so StartReader runs at     *)
(* most once for it; the channels p.readerCh and p.readerDone are named    *)
(* after the server whose StartReader made them.  A call is one sendRPC.   *)
(* Pipes are sets of lines: a response is routed by its id alone.          *)
(***************************************************************************)
EXTENDS Integers, FiniteSets, Functions

CONSTANTS Servers,  (* stdio subprocesses that may be attached to the proxy *)
          Calls,    (* invocations of sendRPC                               *)
          None,     (* a nil pointer, channel or result                     *)
          PipeCap,  (* requests an OS pipe holds before a write blocks      *)
          Noise     (* lines without an id that servers may emit            *)

ASSUME NoneAssumption == None \notin Servers /\ None \notin Calls
InitializedId == 0   \* the id marshalled into "notifications/initialized"
NoId == -1           \* a notification, an empty or a malformed line
TooLong == -2        \* a line above the scanner's 1 MiB buffer

ASSUME PipeAssumption == PipeCap \in Nat \ {0}
ASSUME NoiseAssumption == Noise \subseteq {NoId, TooLong}

ReaderPCs == {"off", "scan", "check", "route", "deliver", "ending", "closing",
              "exited"}
CallPCs == {"new", "lock", "write", "wait", "cleanup", "notify", "notifying",
            "done"}
Results == {"none", "response", "error"}

VARIABLES
  nextID,      \* p.nextID
  pending,     \* p.pending: the call whose channel is registered under an id
  running,     \* p.running
  readerCh,    \* p.readerCh
  readerDone,  \* p.readerDone
  writer,      \* the call that holds p.writeMu
  closedCh,    \* reader channels that were closed
  closedDone,  \* done channels that were closed
  reply,       \* what the channel of a call buffers: None or the sender
  closedReply, \* calls whose channel was closed
  reader,      \* the reader goroutine of each server
  call,        \* the goroutine inside each call
  stdin, inbox, stdout,  \* lines to, held by and from each server
  proc,        \* "up" or "exited"
  panic        \* "none", or the operation that crashed the broker

mutex == <<nextID, pending, running, readerCh, readerDone>>
chans == <<closedCh, closedDone, reply, closedReply>>
world == <<stdin, inbox, stdout, proc>>
vars == <<mutex, chans, world, writer, reader, call, panic>>

Lines == Nat \cup {NoId, TooLong}

ReaderState == [pc : ReaderPCs, ch : Servers \cup {None}, line : Lines,
                to : Calls \cup {None}]
CallState == [pc : CallPCs, id : Nat, srv : Servers \cup {None},
              result : Results, from : Servers \cup {None}]

(* A reader goroutine before it starts; its variables carry nothing over   *)
(* from one line to the next.                                              *)
Idle == [pc |-> "off", ch |-> None, line |-> NoId, to |-> None]

TypeOK ==
  /\ nextID \in Nat \ {0}
  /\ DOMAIN pending \subseteq 1 .. nextID - 1
  /\ pending \in [DOMAIN pending -> Calls]
  /\ running \in BOOLEAN
  /\ readerCh \in Servers \cup {None} /\ readerDone \in Servers \cup {None}
  /\ writer \in Calls \cup {None}
  /\ closedCh \subseteq Servers
  /\ closedDone \subseteq Servers \cup {None}
  /\ reply \in [Calls -> Servers \cup {None}]
  /\ closedReply \subseteq Calls
  /\ reader \in [Servers -> ReaderState]
  /\ call \in [Calls -> CallState]
  /\ stdin \in [Servers -> SUBSET Nat]
  /\ inbox \in [Servers -> SUBSET Nat]
  /\ stdout \in [Servers -> SUBSET Lines]
  /\ proc \in [Servers -> {"up", "exited"}]
  /\ panic \in {"none", "send on closed channel", "close of closed channel"}

(* NewMCPProxy; the subprocesses run but nobody reads their stdout yet. *)
Init ==
  /\ nextID = 1
  /\ pending = [i \in {} |-> None]
  /\ running = FALSE
  /\ readerCh = None /\ readerDone = None
  /\ writer = None
  /\ closedCh = {} /\ closedDone = {}
  /\ reply = [c \in Calls |-> None]
  /\ closedReply = {}
  /\ reader = [s \in Servers |-> Idle]
  /\ call = [c \in Calls |-> [pc |-> "new", id |-> 0, srv |-> None,
                result |-> "none", from |-> None]]
  /\ stdin = [s \in Servers |-> {}]
  /\ inbox = [s \in Servers |-> {}]
  /\ stdout = [s \in Servers |-> {}]
  /\ proc = [s \in Servers |-> "up"]
  /\ panic = "none"

Up == panic = "none"   \* a panic in any goroutine ends the broker process

-----------------------------------------------------------------------------
(* The readers *)

StartReader(s) ==
  /\ Up
  /\ reader[s].pc = "off"
  /\ closedCh' = closedCh \cup ({readerCh} \ {None})
  /\ readerCh' = s
  /\ readerDone' = s
  /\ running' = TRUE
  /\ reader' = [reader EXCEPT ![s].pc = "scan"]
  /\ UNCHANGED <<nextID, pending, closedDone, reply, closedReply, world,
                 writer, call, panic>>

(* Scan returns a line; the reader then copies p.readerCh under the lock. *)
Scan(s) ==
  /\ Up
  /\ reader[s].pc = "scan"
  /\ \E l \in stdout[s] \ {TooLong} :
       /\ stdout' = [stdout EXCEPT ![s] = @ \ {l}]
       /\ reader' = [reader EXCEPT ![s] =
            [pc |-> IF readerCh = None THEN "route" ELSE "check",
             ch |-> readerCh, line |-> l, to |-> None]]
  /\ UNCHANGED <<mutex, chans, stdin, inbox, proc, writer, call, panic>>

(* The select on the copy: a closed channel ends readLoop at once. *)
CheckStop(s) ==
  /\ Up
  /\ reader[s].pc = "check"
  /\ reader' = [reader EXCEPT ![s] =
                  IF @.ch \in closedCh THEN [Idle EXCEPT !.pc = "closing"]
                                       ELSE [@ EXCEPT !.pc = "route", !.ch = None]]
  /\ UNCHANGED <<mutex, chans, world, writer, call, panic>>

(* The lookup in pending.  A line without an id goes to the notification   *)
(* handler and a line with an unknown id is dropped: neither changes state *)
(* of the proxy.                                                           *)
Route(s) ==
  /\ Up
  /\ reader[s].pc = "route"
  /\ IF reader[s].line \in DOMAIN pending
     THEN reader' = [reader EXCEPT ![s] = [@ EXCEPT !.pc = "deliver",
                                                    !.to = pending[reader[s].line]]]
     ELSE reader' = [reader EXCEPT ![s] = [Idle EXCEPT !.pc = "scan"]]
  /\ UNCHANGED <<mutex, chans, world, writer, call, panic>>

(* make(chan, 1): the channel of a call has room for one response.         *)
Room(c) == reply[c] = None

(* The send, outside the lock: blocks on a full channel, panics on a       *)
(* closed one.                                                             *)
Deliver(s) ==
  /\ Up
  /\ reader[s].pc = "deliver"
  /\ \/ /\ reader[s].to \in closedReply
        /\ panic' = "send on closed channel"
        /\ UNCHANGED <<reply, reader>>
     \/ /\ reader[s].to \notin closedReply
        /\ Room(reader[s].to)
        /\ reply' = [reply EXCEPT ![reader[s].to] = s]
        /\ reader' = [reader EXCEPT ![s] = [Idle EXCEPT !.pc = "scan"]]
        /\ UNCHANGED panic
  /\ UNCHANGED <<mutex, closedCh, closedDone, closedReply, world, writer, call>>

(* Scan returns false: end of file, or a line that exceeds the buffer. *)
ScanEnds(s) ==
  /\ Up
  /\ reader[s].pc = "scan"
  /\ \/ proc[s] = "exited" /\ stdout[s] = {}
     \/ TooLong \in stdout[s]
  /\ reader' = [reader EXCEPT ![s].pc = "ending"]
  /\ UNCHANGED <<mutex, chans, world, writer, call, panic>>

MarkStopped(s) ==
  /\ Up
  /\ reader[s].pc = "ending"
  /\ running' = FALSE
  /\ reader' = [reader EXCEPT ![s].pc = "closing"]
  /\ UNCHANGED <<nextID, pending, readerCh, readerDone, chans, world, writer,
                 call, panic>>

(* close(p.readerDone): the field as it is now, read without the lock. *)
CloseDone(s) ==
  /\ Up
  /\ reader[s].pc = "closing"
  /\ \/ /\ readerDone \in closedDone
        /\ panic' = "close of closed channel"
        /\ UNCHANGED <<closedDone, reader>>
     \/ /\ readerDone \notin closedDone
        /\ closedDone' = closedDone \cup {readerDone}
        /\ reader' = [reader EXCEPT ![s].pc = "exited"]
        /\ UNCHANGED panic
  /\ UNCHANGED <<mutex, closedCh, reply, closedReply, world, writer, call>>

(* Mutant: Stop closes its channels but forgets to reset the fields. *)
StopWithoutReset ==
  /\ Up
  /\ closedCh' = closedCh \cup ({readerCh} \ {None})
  /\ running' = FALSE
  /\ closedReply' = closedReply \cup Range(pending)
  /\ UNCHANGED <<nextID, pending, readerCh, readerDone, closedDone, reply,
                 world, writer, reader, call, panic>>

(* Stop closes the channel of every registered call and forgets them. *)
Stop ==
  /\ Up
  /\ closedCh' = closedCh \cup ({readerCh} \ {None})
  /\ readerCh' = None
  /\ running' = FALSE
  /\ closedReply' = closedReply \cup Range(pending)
  /\ pending' = [i \in {} |-> None]
  /\ UNCHANGED <<nextID, readerDone, closedDone, reply, world, writer, reader,
                 call, panic>>

-----------------------------------------------------------------------------
(* The calls *)

(* Mutant: the counter is read but not advanced. *)
SameID == nextID

(* p.nextID++ *)
NextID == nextID + 1

(* Mutant: the call is registered under the id of the next one. *)
RegisterLate(c) == [i \in DOMAIN pending \cup {nextID + 1} |->
                      IF i = nextID + 1 THEN c ELSE pending[i]]

(* p.pending[id] = ch *)
Register(c) == [i \in DOMAIN pending \cup {nextID} |->
                  IF i = nextID THEN c ELSE pending[i]]

(* Mutant: an entry is left behind. *)
KeepRegistered(i) == pending

(* delete(p.pending, id) *)
Unregister(i) == Restrict(pending, DOMAIN pending \ {i})

(* sendRPC under the lock: fails fast, or registers a channel under a      *)
(* fresh id.                                                               *)
Begin(c, s) ==
  /\ Up
  /\ call[c].pc = "new"
  /\ \/ /\ ~running
        /\ call' = [call EXCEPT ![c] = [@ EXCEPT !.pc = "done", !.srv = s,
                                                 !.result = "error"]]
        /\ UNCHANGED <<nextID, pending>>
     \/ /\ running
        /\ nextID' = NextID
        /\ pending' = Register(c)
        /\ call' = [call EXCEPT ![c] = [@ EXCEPT !.pc = "lock", !.srv = s,
                                                 !.id = nextID]]
  /\ UNCHANGED <<running, readerCh, readerDone, chans, world, writer, reader,
                 panic>>

(* json.Marshal of the parameters fails. *)
MarshalFails(c) ==
  /\ Up
  /\ call[c].pc = "lock"
  /\ call' = [call EXCEPT ![c].pc = "cleanup", ![c].result = "error"]
  /\ UNCHANGED <<mutex, chans, world, writer, reader, panic>>

(* writeMu.Lock, before the request and before "initialized". *)
LockWrite(c) ==
  /\ Up
  /\ call[c].pc \in {"lock", "notify"}
  /\ writer = None
  /\ writer' = c
  /\ call' = [call EXCEPT ![c].pc =
                IF call[c].pc = "lock" THEN "write" ELSE "notifying"]
  /\ UNCHANGED <<mutex, chans, world, reader, panic>>

Message(c) == IF call[c].pc = "write" THEN call[c].id ELSE InitializedId

(* stdin.Write returns once the pipe has room, and writeMu is released.    *)
WriteReturns(c) ==
  /\ Up
  /\ writer = c
  /\ proc[call[c].srv] = "up"
  /\ Cardinality(stdin[call[c].srv]) < PipeCap
  /\ stdin' = [stdin EXCEPT ![call[c].srv] = @ \cup {Message(c)}]
  /\ call' = [call EXCEPT ![c].pc =
                IF call[c].pc = "write" THEN "wait" ELSE "done"]
  /\ writer' = None
  /\ UNCHANGED <<mutex, chans, inbox, stdout, proc, reader, panic>>

(* Mutant: the error path returns without writeMu.Unlock. *)
WriteFailsLocked(c) ==
  /\ Up
  /\ writer = c
  /\ proc[call[c].srv] = "exited"
  /\ call' = [call EXCEPT ![c].pc =
                IF call[c].pc = "write" THEN "cleanup" ELSE "done"]
  /\ UNCHANGED <<mutex, chans, world, writer, reader, panic>>

(* stdin.Write fails: the reading end of the pipe is gone. *)
WriteFails(c) ==
  /\ Up
  /\ writer = c
  /\ proc[call[c].srv] = "exited"
  /\ call' = [call EXCEPT ![c] =
       IF @.pc = "write" THEN [@ EXCEPT !.pc = "cleanup", !.result = "error"]
                         ELSE [@ EXCEPT !.pc = "done"]]
  /\ writer' = None
  /\ UNCHANGED <<mutex, chans, world, reader, panic>>

(* The select: a buffered response, the closed channel, or the timer. *)
Receive(c) ==
  /\ Up
  /\ call[c].pc = "wait"
  /\ reply[c] # None
  /\ reply' = [reply EXCEPT ![c] = None]
  /\ call' = [call EXCEPT ![c] = [@ EXCEPT !.pc = "cleanup",
                !.result = "response", !.from = reply[c]]]
  /\ UNCHANGED <<mutex, closedCh, closedDone, closedReply, world, writer,
                 reader, panic>>

ReceiveClosed(c) ==
  /\ Up
  /\ call[c].pc = "wait"
  /\ reply[c] = None /\ c \in closedReply
  /\ call' = [call EXCEPT ![c].pc = "cleanup", ![c].result = "error"]
  /\ UNCHANGED <<mutex, chans, world, writer, reader, panic>>

(* Mutant: a call whose timer fires writes its request again. *)
TimeoutRetries(c) ==
  /\ Up
  /\ call[c].pc = "wait"
  /\ call' = [call EXCEPT ![c].pc = "lock"]
  /\ UNCHANGED <<mutex, chans, world, writer, reader, panic>>

Timeout(c) ==
  /\ Up
  /\ call[c].pc = "wait"
  /\ call' = [call EXCEPT ![c].pc = "cleanup", ![c].result = "error"]
  /\ UNCHANGED <<mutex, chans, world, writer, reader, panic>>

(* Every way out deletes the id under the lock.  A call that is Initialize *)
(* and got a response without an error goes on to write "initialized".     *)
Cleanup(c) ==
  /\ Up
  /\ call[c].pc = "cleanup"
  /\ pending' = Unregister(call[c].id)
  /\ \/ call' = [call EXCEPT ![c].pc = "done"]
     \/ /\ call[c].result = "response"
        /\ call' = [call EXCEPT ![c].pc = "notify"]
  /\ UNCHANGED <<nextID, running, readerCh, readerDone, chans, world, writer,
                 reader, panic>>

-----------------------------------------------------------------------------
(* The subprocesses (external): each answers the requests it has read, in  *)
(* any order, at most once and possibly never; it may emit notifications   *)
(* and may exit.                                                           *)

ServerReads(s) ==
  /\ Up
  /\ proc[s] = "up"
  /\ \E i \in stdin[s] : /\ stdin' = [stdin EXCEPT ![s] = @ \ {i}]
                         /\ inbox' = [inbox EXCEPT ![s] = @ \cup {i}]
  /\ UNCHANGED <<mutex, chans, stdout, proc, writer, reader, call, panic>>

ServerAnswers(s) ==
  /\ Up
  /\ proc[s] = "up"
  /\ \E i \in inbox[s] : \E l \in {i} \cup (Noise \cap {TooLong}) :
       /\ inbox' = [inbox EXCEPT ![s] = @ \ {i}]
       /\ stdout' = [stdout EXCEPT ![s] = @ \cup {l}]
  /\ UNCHANGED <<mutex, chans, stdin, proc, writer, reader, call, panic>>

ServerNotifies(s) ==
  /\ Up
  /\ proc[s] = "up"
  /\ \E l \in Noise : stdout' = [stdout EXCEPT ![s] = @ \cup {l}]
  /\ UNCHANGED <<mutex, chans, stdin, inbox, proc, writer, reader, call, panic>>

ServerExits(s) ==
  /\ Up
  /\ proc[s] = "up"
  /\ proc' = [proc EXCEPT ![s] = "exited"]
  /\ stdin' = [stdin EXCEPT ![s] = {}]
  /\ inbox' = [inbox EXCEPT ![s] = {}]
  /\ UNCHANGED <<mutex, chans, stdout, writer, reader, call, panic>>

-----------------------------------------------------------------------------
ReaderStep(s) == Scan(s) \/ CheckStop(s) \/ Route(s) \/ Deliver(s)
                 \/ ScanEnds(s) \/ MarkStopped(s) \/ CloseDone(s)

CallStep(c) == LockWrite(c) \/ WriteReturns(c) \/ WriteFails(c) \/ Receive(c)
               \/ ReceiveClosed(c) \/ Timeout(c) \/ Cleanup(c)

ServerStep(s) == ServerReads(s) \/ ServerAnswers(s) \/ ServerNotifies(s)
                 \/ ServerExits(s)

Next ==
  \/ \E s \in Servers : StartReader(s) \/ ReaderStep(s) \/ ServerStep(s)
  \/ Stop
  \/ \E c \in Calls, s \in Servers : Begin(c, s)
  \/ \E c \in Calls : MarshalFails(c) \/ CallStep(c)

Spec == Init /\ [][Next]_vars

(* The Go scheduler runs every runnable goroutine and timers fire.  Nothing *)
(* is assumed of the servers: one may stop reading its stdin for ever.      *)
Scheduled == /\ \A s \in Servers : WF_vars(ReaderStep(s))
             /\ \A c \in Calls : WF_vars(CallStep(c))

FairSpec == Spec /\ Scheduled

-----------------------------------------------------------------------------
(* Safety *)

(* A response reaches only the call that asked for it: whatever a call got *)
(* or has in its channel comes from the server it wrote its request to,    *)
(* although all servers share one id space and one pending map             *)
(* (proxy.go:162-165, 325-330).                                            *)
ResponseMatchesRequest ==
  \A c \in Calls : /\ call[c].from \in {None, call[c].srv}
                   /\ reply[c] \in {None, call[c].srv}

(* No way out of sendRPC leaves an entry behind: an id is registered only  *)
(* while the call that registered it is under way (proxy.go:342-380).      *)
InFlight(c) == call[c].pc \in {"lock", "write", "wait", "cleanup"}

NoPendingLeak ==
  \A i \in DOMAIN pending : /\ InFlight(pending[i])
                            /\ call[pending[i]].id = i

(* A reader never blocks on a response channel: the one place is free or   *)
(* the channel is closed, also after the call timed out (proxy.go:329,     *)
(* 165).  A blocked reader would starve every later call on its server.    *)
DeliverNeverBlocks ==
  \A s \in Servers : reader[s].pc = "deliver" =>
     reply[reader[s].to] = None \/ reader[s].to \in closedReply

(* The channel p.readerCh names is open, so neither Stop nor StartReader   *)
(* closes it a second time (proxy.go:104-108, 202-205).                    *)
ReaderChOpen == readerCh # None => readerCh \notin closedCh

(* A registered channel is open, so a second Stop never closes it again    *)
(* (proxy.go:209-212).                                                     *)
RegisteredOpen == \A i \in DOMAIN pending : pending[i] \notin closedReply

(* No channel that Stop or StartReader can still find is closed, however   *)
(* the two alternate, or they would close it twice.                        *)
OpenWhileNamed == ReaderChOpen /\ RegisteredOpen

(* The inductive invariant behind them, in named parts.                    *)
IdsUnique ==
  /\ \A c \in Calls : call[c].id < nextID
  /\ \A c, d \in Calls : call[c].id # 0 /\ call[c].id = call[d].id => c = d

CallShape ==
  \A c \in Calls :
    /\ call[c].pc = "new" => call[c].id = 0 /\ call[c].from = None
    /\ InFlight(c) => call[c].id # 0
    /\ call[c].pc \in {"lock", "write"} => call[c].from = None
    /\ call[c].pc # "new" => call[c].srv \in Servers
    /\ c = writer <=> call[c].pc \in {"write", "notifying"}
    /\ c \in closedReply \/ reply[c] # None \/ call[c].from # None
         => call[c].id # 0

(* A reader channel belongs to a server whose reader was started. *)
ReaderStarted ==
  \A s \in Servers : s = readerCh \/ s \in closedCh => reader[s].pc # "off"

(* The ids a server and its reader hold. *)
Piped(s) == stdin[s] \cup inbox[s] \cup stdout[s] \cup {reader[s].line}

(* An id in the pipes of a server was issued to a call on that server.     *)
Routing ==
  /\ \A s \in Servers : \A i \in Piped(s) : i > 0 =>
        \E c \in Calls : call[c].id = i /\ call[c].srv = s
  /\ \A s \in Servers : reader[s].pc = "deliver" =>
        /\ reader[s].to \in Calls
        /\ call[reader[s].to].id = reader[s].line
        /\ reader[s].line # 0

(* A request and its response are in one place only: not yet written, in a *)
(* pipe, with the server, with the reader, or handed over.                 *)
OnePlace ==
  /\ \A s \in Servers : \A i \in Piped(s) : i > 0 =>
       /\ i \in stdin[s] => i \notin inbox[s] \cup stdout[s] \cup {reader[s].line}
       /\ i \in inbox[s] => i \notin stdout[s] \cup {reader[s].line}
       /\ i \in stdout[s] => i # reader[s].line
  /\ \A c \in Calls, s \in Servers :
       call[c].id # 0 /\ (call[c].pc \in {"lock", "write"}
                          \/ reply[c] # None \/ call[c].from # None)
         => call[c].id \notin Piped(s)
  /\ \A c \in Calls : call[c].pc \in {"lock", "write"} => reply[c] = None

IInv == /\ TypeOK /\ IdsUnique /\ CallShape /\ NoPendingLeak
        /\ ResponseMatchesRequest /\ Routing /\ OnePlace /\ ReaderStarted
        /\ ReaderChOpen /\ RegisteredOpen

-----------------------------------------------------------------------------
(* What the proxy promises its callers *)

Phase == [c \in Calls |->
  IF call[c].pc = "new" THEN "idle"
  ELSE IF call[c].pc \in {"lock", "write", "wait"} THEN "open" ELSE "settled"]

(* Where the request of a call is, or its answer. *)
Sent(c) == call[c].id \in stdin[call[c].srv] \cup inbox[call[c].srv]

Answered(c) == \/ call[c].id \in stdout[call[c].srv]
               \/ call[c].id = reader[call[c].srv].line
               \/ reply[c] # None

Stage == [c \in Calls |->
  IF call[c].pc \in {"new", "lock", "write"} THEN "unsent"
  ELSE IF call[c].id = 0 THEN "gone"
  ELSE IF Sent(c) THEN "sent"
  ELSE IF Answered(c) THEN "answered" ELSE "gone"]

Abstract == INSTANCE Rpc WITH
  phase <- Phase, stage <- Stage, server <- [c \in Calls |-> call[c].srv],
  result <- [c \in Calls |-> call[c].result],
  from <- [c \in Calls |-> call[c].from]

(* sendRPC over the shared pipes is a remote call executed at most once:   *)
(* whatever readers, servers, timers and Stop do and in whatever order, no *)
(* request is written twice, no answer is used twice or by another call,   *)
(* and an outcome, once decided, stays (proxy.go:319-383, 122-181).        *)
AtMostOnceCalls == Abstract!Spec

-----------------------------------------------------------------------------
(* Liveness *)

(* stdin.Write of a call waits for room in the pipe of a running server:   *)
(* no timer bounds it, and the call holds writeMu (proxy.go:345-355).      *)
Blocked(c) == /\ writer = c
              /\ proc[call[c].srv] = "up"
              /\ Cardinality(stdin[call[c].srv]) >= PipeCap

(* One thing alone keeps a sendRPC from returning, its own write or its    *)
(* wait for writeMu: some write is blocked for ever, on a server that runs *)
(* and never reads again.  Lost answers, exits, timers, Stop and failed    *)
(* writes do not, in any order, unless the broker crashes                  *)
(* (proxy.go:319-383).                                                     *)
CallsReturnUnlessBlocked ==
  \A c \in Calls : call[c].pc # "new" ~> \/ call[c].pc = "done" \/ ~Up
                                        \/ \E d \in Calls : []Blocked(d)

-----------------------------------------------------------------------------
(* What comments, documents and tests say of the proxy and the code does   *)
(* not do.                                                                 *)

(* tests/broker_api_test.go:605 "verifies that Broker.Call does not hang   *)
(* indefinitely when the underlying server is unresponsive": every sendRPC *)
(* returns.  The timer is armed after the write (proxy.go:345-366).        *)
EveryCallReturns == \A c \in Calls : call[c].pc # "new" ~> call[c].pc = "done" \/ ~Up

(* broker.go:288 "The shared proxy is NOT stopped -- it is broker-level    *)
(* and used by other servers": only Stop, or the end of the last reader,   *)
(* makes the proxy refuse calls (proxy.go:183-185).                        *)
Serving(s) == reader[s].pc \in {"scan", "check", "route", "deliver"}

OneExitSparesOthers ==
  [][running /\ ~running' => readerCh' = None \/ \A s \in Servers : ~Serving(s)']_vars

(* broker.go:295 "stdout EOF will cause reader to exit": readers exit, the *)
(* broker does not crash (proxy.go:113-116).                               *)
ReadersExitCleanly == panic # "close of closed channel"

(* proxy.go:197 "It closes all pending response channels so waiting        *)
(* sendRPC calls return errors": closing them does not crash the broker    *)
(* (proxy.go:161-165, 209-212).                                            *)
StopIsSafe == panic # "send on closed channel"

(* proxy.go:196 "Stop signals the reader goroutine to exit": a reader that *)
(* sees a line after Stop exits (proxy.go:132-141, 202-205).               *)
StopEndsReaders ==
  \A s \in Servers :
    readerCh = None /\ reader[s].pc = "scan" /\ stdout[s] # {}
      ~> reader[s].pc = "exited" \/ readerCh # None \/ ~Up

(* proxy.go:98 StartReader's goroutine "continuously reads lines from      *)
(* stdout": only Stop takes a reader off its stream at the check, never    *)
(* another server's StartReader (proxy.go:104-107, 132-141).               *)
OnlyStopEndsAReader ==
  [][\A s \in Servers :
       reader[s].pc = "check" /\ reader'[s].pc = "closing" => readerCh = None]_vars

(* proxy.go:241 "Send initialized notification (no ID, fire-and-forget)":  *)
(* no line with the id of the initialized message is written               *)
(* (proxy.go:242-253, types of jsonrpcRequest.ID without omitempty).       *)
InitializedHasNoId == \A s \in Servers : InitializedId \notin stdin[s]
=============================================================================
