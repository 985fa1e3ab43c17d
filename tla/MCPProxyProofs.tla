--------------------------- MODULE MCPProxyProofs ---------------------------
(* Proofs about MCPProxy for every set of servers and calls: its           *)
(* invariants, and then that it implements Rpc.                            *)
EXTENDS MCPProxy, TLAPS

(* Every step preserves the type invariant: one step per action; the       *)
(* A call that goes on changes its place, one that settles its result and  *)
(* where it came from, too.                                                *)
LEMMA CallRecord ==
  ASSUME NEW r \in CallState, NEW p \in CallPCs, NEW e \in Results,
         NEW f \in Servers \cup {None}
  PROVE  /\ [r EXCEPT !.pc = p] \in CallState
         /\ [r EXCEPT !.pc = p, !.result = e] \in CallState
         /\ [r EXCEPT !.pc = p, !.result = e, !.from = f] \in CallState
<1>1. [r EXCEPT !.pc = p] \in CallState
  BY DEF CallState
<1>2. [r EXCEPT !.pc = p, !.result = e] \in CallState
  BY DEF CallState
<1>3. [r EXCEPT !.pc = p, !.result = e, !.from = f] \in CallState
  BY DEF CallState
<1>4. QED
  BY <1>1, <1>2, <1>3

(* So the calls keep their types when one of them does.                    *)
LEMMA CallKept ==
  ASSUME call \in [Calls -> CallState], NEW c \in Calls, NEW r \in CallState,
         call' = [call EXCEPT ![c] = r]
  PROVE  call' \in [Calls -> CallState]
OBVIOUS

(* reader and call records, where an action changes them, come first.      *)
LEMMA TypeStep == TypeOK /\ [Next]_vars => TypeOK'
<1> SUFFICES ASSUME TypeOK, [Next]_vars PROVE TypeOK'
  OBVIOUS
<1>a. reader \in [Servers -> ReaderState] /\ call \in [Calls -> CallState]
  BY DEF TypeOK
<1>c. /\ nextID \in Nat \ {0}
      /\ pending \in [DOMAIN pending -> Calls]
      /\ DOMAIN pending \subseteq 1 .. nextID - 1
  BY DEF TypeOK
<1>d. reply \in [Calls -> Servers \cup {None}]
  BY DEF TypeOK
<1>e. stdin \in [Servers -> SUBSET Nat] /\ inbox \in [Servers -> SUBSET Nat]
  BY DEF TypeOK
<1>b. Idle \in ReaderState
  BY DEF Idle, ReaderState, ReaderPCs, Lines
<1>1. ASSUME NEW s \in Servers, StartReader(s) PROVE TypeOK'
  <2>1. reader' \in [Servers -> ReaderState]
    BY <1>1, <1>a, <1>b DEF StartReader, ReaderState, ReaderPCs
  <2> QED
    BY <1>1, <2>1, NoneAssumption DEF TypeOK, StartReader, mutex, chans, world
<1>2. ASSUME NEW s \in Servers, Scan(s) PROVE TypeOK'
  <2>1. PICK l \in stdout[s] \ {TooLong} :
          /\ stdout' = [stdout EXCEPT ![s] = @ \ {l}]
          /\ reader' = [reader EXCEPT ![s] =
               [pc |-> IF readerCh = None THEN "route" ELSE "check",
                ch |-> readerCh, line |-> l, to |-> None]]
    BY <1>2 DEF Scan
  <2>2. l \in Lines
    BY DEF TypeOK
  <2>3. [pc |-> IF readerCh = None THEN "route" ELSE "check",
         ch |-> readerCh, line |-> l, to |-> None] \in ReaderState
    BY <2>2 DEF TypeOK, ReaderState, ReaderPCs
  <2>4. reader' \in [Servers -> ReaderState]
    BY <2>1, <2>3 DEF TypeOK
  <2>5. stdout' \in [Servers -> SUBSET Lines]
    BY <2>1 DEF TypeOK
  <2> QED
    BY <1>2, <2>4, <2>5 DEF TypeOK, Scan, mutex, chans
<1>3. ASSUME NEW s \in Servers, CheckStop(s) PROVE TypeOK'
  <2>1. reader' \in [Servers -> ReaderState]
    BY <1>3, <1>a, <1>b DEF CheckStop, ReaderState, ReaderPCs
  <2> QED
    BY <1>3, <2>1, NoneAssumption DEF TypeOK, CheckStop, mutex, chans, world
<1>4. ASSUME NEW s \in Servers, Route(s) PROVE TypeOK'
  <2>1. ASSUME reader[s].line \in DOMAIN pending
        PROVE  [reader[s] EXCEPT !.pc = "deliver",
                                 !.to = pending[reader[s].line]] \in ReaderState
    <3>1. pending[reader[s].line] \in Calls
      BY <2>1 DEF TypeOK
    <3> QED
      BY <3>1, <1>a DEF ReaderState, ReaderPCs
  <2>2. [Idle EXCEPT !.pc = "scan"] \in ReaderState
    BY <1>b DEF ReaderState, ReaderPCs
  <2>3. reader' \in [Servers -> ReaderState]
    BY <1>4, <1>a, <2>1, <2>2 DEF Route
  <2> QED
    BY <1>4, <2>3 DEF TypeOK, Route, mutex, chans, world
<1>5. ASSUME NEW s \in Servers, Deliver(s) PROVE TypeOK'
  <2>1. [Idle EXCEPT !.pc = "scan"] \in ReaderState
    BY <1>b DEF ReaderState, ReaderPCs
  <2>2. reader' \in [Servers -> ReaderState]
    BY <1>5, <1>a, <2>1 DEF Deliver
  <2>3. reply' \in [Calls -> Servers \cup {None}]
    BY <1>5, <1>d DEF Deliver
  <2>4. panic' \in {"none", "send on closed channel", "close of closed channel"}
    BY <1>5 DEF Deliver, TypeOK
  <2> QED
    BY <1>5, <2>2, <2>3, <2>4 DEF TypeOK, Deliver, mutex, world
<1>6. ASSUME NEW s \in Servers, ScanEnds(s) PROVE TypeOK'
  <2>1. reader' \in [Servers -> ReaderState]
    BY <1>6, <1>a, <1>b DEF ScanEnds, ReaderState, ReaderPCs
  <2> QED
    BY <1>6, <2>1, NoneAssumption DEF TypeOK, ScanEnds, mutex, chans, world
<1>7. ASSUME NEW s \in Servers, MarkStopped(s) PROVE TypeOK'
  <2>1. reader' \in [Servers -> ReaderState]
    BY <1>7, <1>a, <1>b DEF MarkStopped, ReaderState, ReaderPCs
  <2> QED
    BY <1>7, <2>1, NoneAssumption DEF TypeOK, MarkStopped, mutex, chans, world
<1>8. ASSUME NEW s \in Servers, CloseDone(s) PROVE TypeOK'
  <2>1. [reader EXCEPT ![s].pc = "exited"] \in [Servers -> ReaderState]
    BY <1>a DEF ReaderState, ReaderPCs
  <2>2. reader' \in [Servers -> ReaderState]
    BY <1>8, <1>a, <2>1 DEF CloseDone
  <2>3. /\ closedDone' \subseteq Servers \cup {None}
        /\ panic' \in {"none", "send on closed channel", "close of closed channel"}
    BY <1>8 DEF CloseDone, TypeOK
  <2> QED
    BY <1>8, <2>2, <2>3 DEF TypeOK, CloseDone, mutex, world
<1>9. ASSUME NEW s \in Servers, ServerReads(s) PROVE TypeOK'
  <2>1. stdin' \in [Servers -> SUBSET Nat] /\ inbox' \in [Servers -> SUBSET Nat]
    BY <1>9, <1>e DEF ServerReads
  <2> QED
    BY <1>9, <2>1 DEF TypeOK, ServerReads, mutex, chans
<1>10. ASSUME NEW s \in Servers, ServerAnswers(s) PROVE TypeOK'
  <2>0. PICK i \in inbox[s] : \E l \in {i} \cup (Noise \cap {TooLong}) :
          /\ inbox' = [inbox EXCEPT ![s] = @ \ {i}]
          /\ stdout' = [stdout EXCEPT ![s] = @ \cup {l}]
    BY <1>10 DEF ServerAnswers
  <2>1. PICK l \in {i} \cup (Noise \cap {TooLong}) :
          /\ inbox' = [inbox EXCEPT ![s] = @ \ {i}]
          /\ stdout' = [stdout EXCEPT ![s] = @ \cup {l}]
    BY <2>0
  <2>2. l \in Lines
    BY DEF TypeOK, Lines
  <2>3. stdout' \in [Servers -> SUBSET Lines]
    BY <2>1, <2>2 DEF TypeOK
  <2>4. inbox' \in [Servers -> SUBSET Nat]
    BY <2>1 DEF TypeOK
  <2> QED
    BY <1>10, <2>3, <2>4 DEF TypeOK, ServerAnswers, mutex, chans
<1>11. ASSUME NEW s \in Servers, ServerNotifies(s) PROVE TypeOK'
  <2>1. PICK l \in Noise : stdout' = [stdout EXCEPT ![s] = @ \cup {l}]
    BY <1>11 DEF ServerNotifies
  <2>2. l \in Lines
    BY NoiseAssumption DEF Lines
  <2>3. stdout' \in [Servers -> SUBSET Lines]
    BY <2>1, <2>2 DEF TypeOK
  <2> QED
    BY <1>11, <2>3 DEF TypeOK, ServerNotifies, mutex, chans
<1>12. ASSUME NEW s \in Servers, ServerExits(s) PROVE TypeOK'
  BY <1>12, NoneAssumption, NoiseAssumption DEF TypeOK, ServerExits, mutex, chans, world
<1>13. ASSUME Stop PROVE TypeOK'
  <2>1. Range(pending) \subseteq Calls
    BY <1>c DEF Range
  <2>2. closedReply' \subseteq Calls /\ closedCh' \subseteq Servers
    BY <1>13, <2>1 DEF Stop, TypeOK
  <2>3. /\ pending' \in [DOMAIN pending' -> Calls]
        /\ DOMAIN pending' \subseteq 1 .. nextID' - 1
    BY <1>13 DEF Stop
  <2> QED
    BY <1>13, <2>2, <2>3 DEF TypeOK, Stop, world
<1>14. ASSUME NEW c \in Calls, NEW s \in Servers, Begin(c, s) PROVE TypeOK'
  <2>1. CASE ~running
    <3>1. [call[c] EXCEPT !.pc = "done", !.srv = s, !.result = "error"] \in CallState
      BY <1>a DEF CallState, CallPCs, Results
    <3>2. call' \in [Calls -> CallState]
      BY <1>14, <2>1, <3>1, <1>a DEF Begin
    <3> QED
      BY <1>14, <2>1, <3>2 DEF TypeOK, Begin, chans, world
  <2>2. CASE running
    <3>1. [call[c] EXCEPT !.pc = "lock", !.srv = s, !.id = nextID] \in CallState
      BY <1>a, <1>c, ZenonT(40) DEF CallState, CallPCs
    <3>2. call' \in [Calls -> CallState]
      BY <1>14, <2>2, <3>1, <1>a DEF Begin
    <3>3. /\ pending' = Register(c)
          /\ nextID' = nextID + 1
      BY <1>14, <2>2 DEF Begin, NextID
    <3>4. /\ pending' \in [DOMAIN pending' -> Calls]
          /\ DOMAIN pending' = DOMAIN pending \cup {nextID}
      BY <3>3 DEF Register, TypeOK
    <3>5. nextID' \in Nat \ {0} /\ DOMAIN pending' \subseteq 1 .. nextID' - 1
      BY <3>3, <3>4, <1>c
    <3> QED
      BY <1>14, <2>2, <3>2, <3>4, <3>5 DEF TypeOK, Begin, chans, world
  <2> QED
    BY <2>1, <2>2 DEF TypeOK
<1>15. ASSUME NEW c \in Calls, MarshalFails(c) PROVE TypeOK'
  <2>1. call' \in [Calls -> CallState]
    <3>1. call' = [call EXCEPT ![c] = [call[c] EXCEPT !.pc = "cleanup", !.result = "error"]]
      BY <1>15 DEF MarshalFails
    <3>2. [call[c] EXCEPT !.pc = "cleanup", !.result = "error"] \in CallState
      BY <1>a, CallRecord DEF CallPCs, Results
    <3> QED
      BY <1>a, <3>1, <3>2, CallKept
  <2> QED
    BY <1>15, <2>1, NoneAssumption DEF TypeOK, MarshalFails, mutex, chans, world
<1>16. ASSUME NEW c \in Calls, LockWrite(c) PROVE TypeOK'
  <2>1. call' \in [Calls -> CallState]
    <3>1. PICK p \in CallPCs : call' = [call EXCEPT ![c] = [call[c] EXCEPT !.pc = p]]
      BY <1>16 DEF LockWrite, CallPCs
    <3>2. [call[c] EXCEPT !.pc = p] \in CallState
      BY <1>a, CallRecord DEF Results
    <3> QED
      BY <1>a, <3>1, <3>2, CallKept
  <2> QED
    BY <1>16, <2>1, NoneAssumption DEF TypeOK, LockWrite, mutex, chans, world
<1>17. ASSUME NEW c \in Calls, WriteReturns(c) PROVE TypeOK'
  <2>1. call' \in [Calls -> CallState]
    <3>1. PICK p \in CallPCs : call' = [call EXCEPT ![c] = [call[c] EXCEPT !.pc = p]]
      BY <1>17 DEF WriteReturns, CallPCs
    <3>2. [call[c] EXCEPT !.pc = p] \in CallState
      BY <1>a, CallRecord DEF Results
    <3> QED
      BY <1>a, <3>1, <3>2, CallKept
  <2>2. Message(c) \in Nat
    BY <1>a DEF Message, InitializedId, CallState
  <2>3. stdin' \in [Servers -> SUBSET Nat]
    BY <1>17, <2>2 DEF WriteReturns, TypeOK
  <2> QED
    BY <1>17, <2>1, <2>3 DEF TypeOK, WriteReturns, mutex, chans
<1>18. ASSUME NEW c \in Calls, WriteFails(c) PROVE TypeOK'
  <2>1. call' \in [Calls -> CallState]
    <3>1. \/ call' = [call EXCEPT ![c] = [call[c] EXCEPT !.pc = "cleanup", !.result = "error"]]
          \/ call' = [call EXCEPT ![c] = [call[c] EXCEPT !.pc = "done"]]
      BY <1>18 DEF WriteFails
    <3>2. /\ [call[c] EXCEPT !.pc = "cleanup", !.result = "error"] \in CallState
          /\ [call[c] EXCEPT !.pc = "done"] \in CallState
      BY <1>a, CallRecord DEF CallPCs, Results
    <3> QED
      BY <1>a, <3>1, <3>2, CallKept
  <2> QED
    BY <1>18, <2>1, NoneAssumption DEF TypeOK, WriteFails, mutex, chans, world
<1>19. ASSUME NEW c \in Calls, Receive(c) PROVE TypeOK'
  <2>1. reply[c] \in Servers \cup {None}
    BY DEF TypeOK
  <2>2. [call[c] EXCEPT !.pc = "cleanup", !.result = "response",
                        !.from = reply[c]] \in CallState
    BY <2>1, <1>a, CallRecord DEF CallPCs, Results
  <2>3. call' \in [Calls -> CallState]
    BY <1>19, <2>2, <1>a DEF Receive
  <2> QED
    BY <1>19, <2>3 DEF TypeOK, Receive, mutex, world
<1>20. ASSUME NEW c \in Calls, ReceiveClosed(c) PROVE TypeOK'
  <2>1. call' = [call EXCEPT ![c].pc = "cleanup", ![c].result = "error"]
    BY <1>20 DEF ReceiveClosed
  <2>2. call' \in [Calls -> CallState]
    <3>1. call' = [call EXCEPT ![c] = [call[c] EXCEPT !.pc = "cleanup", !.result = "error"]]
      BY <2>1
    <3>2. [call[c] EXCEPT !.pc = "cleanup", !.result = "error"] \in CallState
      BY <1>a, CallRecord DEF CallPCs, Results
    <3> QED
      BY <1>a, <3>1, <3>2, CallKept
  <2> QED
    BY <1>20, <2>2, NoneAssumption DEF TypeOK, ReceiveClosed, mutex, chans, world
<1>21. ASSUME NEW c \in Calls, Timeout(c) PROVE TypeOK'
  <2>1. call' \in [Calls -> CallState]
    <3>1. call' = [call EXCEPT ![c] = [call[c] EXCEPT !.pc = "cleanup", !.result = "error"]]
      BY <1>21 DEF Timeout
    <3>2. [call[c] EXCEPT !.pc = "cleanup", !.result = "error"] \in CallState
      BY <1>a, CallRecord DEF CallPCs, Results
    <3> QED
      BY <1>a, <3>1, <3>2, CallKept
  <2> QED
    BY <1>21, <2>1, NoneAssumption DEF TypeOK, Timeout, mutex, chans, world
<1>22. ASSUME NEW c \in Calls, Cleanup(c) PROVE TypeOK'
  <2>1. call' \in [Calls -> CallState]
    BY <1>22, <1>a DEF Cleanup, CallState, CallPCs, Results
  <2> QED
    BY <1>22, <2>1, NoneAssumption DEF TypeOK, Cleanup, mutex, chans, world, Unregister, Restrict
<1>23. CASE UNCHANGED vars
  BY <1>23 DEF TypeOK, vars, mutex, chans, world
<1> QED
  BY <1>1, <1>2, <1>3, <1>4, <1>5, <1>6, <1>7, <1>8, <1>9, <1>10, <1>11, <1>12, <1>13, <1>14, <1>15, <1>16, <1>17, <1>18, <1>19, <1>20, <1>21, <1>22, <1>23
     DEF Next, ReaderStep, CallStep, ServerStep

-----------------------------------------------------------------------------
(* What the steps of one kind of goroutine leave alone. *)

(* A reader and a server leave the calls and the next id alone.            *)
LEMMA ServerSide ==
  ASSUME NEW s \in Servers, StartReader(s) \/ ReaderStep(s) \/ ServerStep(s)
  PROVE  UNCHANGED <<nextID, pending, closedReply, call, writer>>
BY DEF StartReader, ReaderStep, Scan, CheckStop, Route, Deliver, ScanEnds,
       MarkStopped, CloseDone, ServerStep, ServerReads, ServerAnswers,
       ServerNotifies, ServerExits, mutex, chans, world

(* A call leaves the readers and their pipes alone.                        *)
LEMMA CallSide ==
  ASSUME NEW c \in Calls, MarshalFails(c) \/ CallStep(c)
  PROVE  UNCHANGED <<nextID, readerCh, closedCh, closedReply, inbox, stdout,
                     reader, running>>
BY DEF MarshalFails, CallStep, LockWrite, WriteReturns, WriteFails, Receive,
       ReceiveClosed, Timeout, Cleanup, mutex, chans, world

(* Only Begin issues an id, and nothing changes the server of a call that  *)
(* has one.                                                                *)
LEMMA IdsKept ==
  ASSUME TypeOK, [Next]_vars
  PROVE  \/ \E c \in Calls, s \in Servers : Begin(c, s)
         \/ /\ nextID' = nextID
            /\ \A c \in Calls : /\ call'[c].id = call[c].id
                                /\ call'[c].srv = call[c].srv
<1>a. call \in [Calls -> CallState]
  BY DEF TypeOK
<1>1. ASSUME NEW s \in Servers, StartReader(s) \/ ReaderStep(s) \/ ServerStep(s)
      PROVE  UNCHANGED <<nextID, call>>
  BY <1>1, ServerSide
<1>2. ASSUME Stop PROVE UNCHANGED <<nextID, call>>
  BY <1>2 DEF Stop
<1>3. ASSUME NEW c \in Calls, MarshalFails(c) \/ CallStep(c)
      PROVE  /\ nextID' = nextID
             /\ \A d \in Calls : /\ call'[d].id = call[d].id
                                 /\ call'[d].srv = call[d].srv
  <2>0. nextID' = nextID
    BY <1>3, CallSide
  <2>1. CASE MarshalFails(c)
    BY <2>0, <2>1, <1>a DEF MarshalFails, CallState
  <2>2. CASE LockWrite(c)
    BY <2>0, <2>2, <1>a DEF LockWrite, CallState
  <2>3. CASE WriteReturns(c)
    BY <2>0, <2>3, <1>a DEF WriteReturns, CallState
  <2>4. CASE WriteFails(c)
    BY <2>0, <2>4, <1>a DEF WriteFails, CallState
  <2>5. CASE Receive(c)
    BY <2>0, <2>5, <1>a DEF Receive, CallState
  <2>6. CASE ReceiveClosed(c)
    BY <2>0, <2>6, <1>a DEF ReceiveClosed, CallState
  <2>7. CASE Timeout(c)
    BY <2>0, <2>7, <1>a DEF Timeout, CallState
  <2>8. CASE Cleanup(c)
    BY <2>0, <2>8, <1>a DEF Cleanup, CallState
  <2> QED
    BY <1>3, <2>1, <2>2, <2>3, <2>4, <2>5, <2>6, <2>7, <2>8 DEF CallStep
<1>4. ASSUME UNCHANGED vars PROVE UNCHANGED <<nextID, call>>
  BY <1>4 DEF vars, mutex
<1> QED
  BY <1>1, <1>2, <1>3, <1>4 DEF Next

-----------------------------------------------------------------------------
(* The parts of the inductive invariant, one lemma each. *)

(* What Begin does to the calls.                                           *)
LEMMA BeginEffect ==
  ASSUME TypeOK, NEW c \in Calls, NEW s \in Servers, Begin(c, s)
  PROVE  /\ call[c].pc = "new"
         /\ \A d \in Calls \ {c} : call'[d] = call[d]
         /\ call'[c].srv = s /\ call'[c].from = call[c].from
         /\ \/ /\ nextID' = nextID /\ pending' = pending
               /\ call'[c].pc = "done" /\ call'[c].id = call[c].id
            \/ /\ nextID' = nextID + 1 /\ pending' = Register(c)
               /\ call'[c].pc = "lock" /\ call'[c].id = nextID
         /\ UNCHANGED <<readerCh, closedCh, reply, closedReply, stdin, inbox,
                        stdout, reader, writer>>
<1>a. call \in [Calls -> CallState]
  BY DEF TypeOK
<1>1. CASE ~running
  <2>1. call' = [call EXCEPT ![c] = [@ EXCEPT !.pc = "done", !.srv = s,
                                             !.result = "error"]]
    BY <1>1 DEF Begin
  <2> QED
    BY <1>1, <2>1, <1>a DEF Begin, CallState, chans, world
<1>2. CASE running
  <2>1. call' = [call EXCEPT ![c] = [@ EXCEPT !.pc = "lock", !.srv = s,
                                             !.id = nextID]]
    BY <1>2 DEF Begin
  <2> QED
    BY <1>2, <2>1, <1>a DEF Begin, NextID, CallState, chans, world
<1> QED
  BY <1>1, <1>2 DEF Begin

(* Ids stay unique.                                                        *)
LEMMA IdsStep ==
  ASSUME TypeOK, IdsUnique, [Next]_vars PROVE IdsUnique'
<1>a. /\ nextID \in Nat \ {0}
      /\ call \in [Calls -> CallState]
      /\ \A c \in Calls : call[c].id \in Nat
  BY DEF TypeOK, CallState
<1>1. ASSUME NEW c \in Calls, NEW s \in Servers, Begin(c, s) PROVE IdsUnique'
  <2>1. CASE nextID' = nextID /\ call'[c].id = call[c].id
    BY <1>1, <2>1, BeginEffect DEF IdsUnique
  <2>2. CASE nextID' = nextID + 1 /\ call'[c].id = nextID
    BY <1>1, <2>2, <1>a, BeginEffect DEF IdsUnique
  <2> QED
    BY <2>1, <2>2, <1>1, BeginEffect
<1>2. ASSUME nextID' = nextID, \A c \in Calls : call'[c].id = call[c].id
      PROVE  IdsUnique'
  BY <1>2 DEF IdsUnique
<1> QED
  BY <1>1, <1>2, IdsKept

(* What a call holds agrees with how far it is.                            *)
LEMMA CallShapeStep ==
  ASSUME TypeOK, CallShape, NoPendingLeak, Routing, [Next]_vars PROVE CallShape'
<1>a. /\ nextID \in Nat \ {0}
      /\ call \in [Calls -> CallState]
      /\ reply \in [Calls -> Servers \cup {None}]
      /\ writer \in Calls \cup {None}
  BY DEF TypeOK
<1>1. ASSUME NEW c \in Calls, NEW s \in Servers, Begin(c, s) PROVE CallShape'
  BY <1>1, <1>a, BeginEffect DEF CallShape, InFlight
<1>2. ASSUME NEW c \in Calls, MarshalFails(c) PROVE CallShape'
  BY <1>2, <1>a, NoneAssumption DEF MarshalFails, CallShape, InFlight, CallState, NextID, mutex, chans
<1>3. ASSUME NEW c \in Calls, LockWrite(c) PROVE CallShape'
  BY <1>3, <1>a, NoneAssumption DEF LockWrite, CallShape, InFlight, CallState, NextID, mutex, chans
<1>4. ASSUME NEW c \in Calls, WriteReturns(c) PROVE CallShape'
  BY <1>4, <1>a, NoneAssumption DEF WriteReturns, CallShape, InFlight, CallState, NextID, mutex, chans
<1>5. ASSUME NEW c \in Calls, WriteFails(c) PROVE CallShape'
  BY <1>5, <1>a, NoneAssumption DEF WriteFails, CallShape, InFlight, CallState, NextID, mutex, chans
<1>6. ASSUME NEW c \in Calls, Receive(c) PROVE CallShape'
  BY <1>6, <1>a, NoneAssumption DEF Receive, CallShape, InFlight, CallState, NextID, mutex, chans
<1>7. ASSUME NEW c \in Calls, ReceiveClosed(c) PROVE CallShape'
  BY <1>7, <1>a, NoneAssumption DEF ReceiveClosed, CallShape, InFlight, CallState, NextID, mutex, chans
<1>8. ASSUME NEW c \in Calls, Timeout(c) PROVE CallShape'
  BY <1>8, <1>a, NoneAssumption DEF Timeout, CallShape, InFlight, CallState, NextID, mutex, chans
<1>9. ASSUME NEW c \in Calls, Cleanup(c) PROVE CallShape'
  BY <1>9, <1>a, NoneAssumption DEF Cleanup, CallShape, InFlight, CallState, NextID, mutex, chans
<1>10. ASSUME Stop PROVE CallShape'
  <2>1. \A i \in DOMAIN pending : pending[i] \in Calls
    BY DEF TypeOK
  <2>2. \A c \in Range(pending) : c \in Calls /\ call[c].id # 0
    BY <2>1 DEF NoPendingLeak, CallShape, Range
  <2> QED
    BY <1>10, <2>2 DEF Stop, CallShape, InFlight
<1>11. ASSUME NEW s \in Servers, StartReader(s) \/ ReaderStep(s) \/ ServerStep(s)
       PROVE  CallShape'
  <2>1. CASE Deliver(s)
    <3>1. /\ reader[s].to \in Calls /\ call[reader[s].to].id # 0
      BY <2>1 DEF Routing, Deliver
    <3> QED
      <4>1. UNCHANGED <<call, writer, closedReply>>
        BY <2>1 DEF Deliver
      <4>2. reply' = reply \/ reply' = [reply EXCEPT ![reader[s].to] = s]
        BY <2>1 DEF Deliver
      <4>3. ASSUME NEW c \in Calls, reply'[c] # None
            PROVE  reply[c] # None \/ call[c].id # 0
        BY <3>1, <4>2, <4>3, <1>a
      <4> QED
        BY <4>1, <4>3 DEF CallShape, InFlight
  <2>2. CASE ~Deliver(s)
    <3>1. reply' = reply
      BY <1>11, <2>2 DEF StartReader, ReaderStep, Scan, CheckStop, Route, ScanEnds,
         MarkStopped, CloseDone, ServerStep, ServerReads, ServerAnswers,
         ServerNotifies, ServerExits, chans
    <3> QED
      BY <1>11, <3>1, ServerSide DEF CallShape, InFlight
  <2> QED
    BY <2>1, <2>2
<1>12. ASSUME UNCHANGED vars PROVE CallShape'
  BY <1>12 DEF vars, mutex, chans, CallShape, InFlight
<1> QED
  BY <1>1, <1>2, <1>3, <1>4, <1>5, <1>6, <1>7, <1>8, <1>9, <1>10, <1>11, <1>12 DEF Next, CallStep

(* What is pending is of a call under way.                                 *)
LEMMA PendingStep ==
  ASSUME TypeOK, IdsUnique, CallShape, NoPendingLeak, [Next]_vars
  PROVE  NoPendingLeak'
<1>a. /\ nextID \in Nat \ {0}
      /\ call \in [Calls -> CallState]
      /\ pending \in [DOMAIN pending -> Calls]
      /\ DOMAIN pending \subseteq 1 .. nextID - 1
  BY DEF TypeOK
<1>1. ASSUME NEW c \in Calls, NEW s \in Servers, Begin(c, s) PROVE NoPendingLeak'
  <2>0. \A i \in DOMAIN pending : pending[i] # c
    BY <1>1 DEF Begin, NoPendingLeak, InFlight
  <2>1. CASE pending' = pending
    BY <1>1, <2>0, <2>1, <1>a, BeginEffect DEF NoPendingLeak, InFlight
  <2>2. CASE pending' = Register(c) /\ call'[c].pc = "lock" /\ call'[c].id = nextID
    BY <1>1, <2>0, <2>2, <1>a, BeginEffect DEF Register, NoPendingLeak, InFlight
  <2> QED
    BY <2>1, <2>2, <1>1, BeginEffect
<1>2. ASSUME NEW c \in Calls, MarshalFails(c) PROVE NoPendingLeak'
  BY <1>2, <1>a, NoneAssumption DEF MarshalFails, NoPendingLeak, CallShape, InFlight, CallState, mutex
<1>3. ASSUME NEW c \in Calls, LockWrite(c) PROVE NoPendingLeak'
  BY <1>3, <1>a, NoneAssumption DEF LockWrite, NoPendingLeak, CallShape, InFlight, CallState, mutex
<1>4. ASSUME NEW c \in Calls, WriteReturns(c) PROVE NoPendingLeak'
  BY <1>4, <1>a, NoneAssumption DEF WriteReturns, NoPendingLeak, CallShape, InFlight, CallState, mutex
<1>5. ASSUME NEW c \in Calls, WriteFails(c) PROVE NoPendingLeak'
  BY <1>5, <1>a, NoneAssumption DEF WriteFails, NoPendingLeak, CallShape, InFlight, CallState, mutex
<1>6. ASSUME NEW c \in Calls, Receive(c) PROVE NoPendingLeak'
  BY <1>6, <1>a, NoneAssumption DEF Receive, NoPendingLeak, CallShape, InFlight, CallState, mutex
<1>7. ASSUME NEW c \in Calls, ReceiveClosed(c) PROVE NoPendingLeak'
  BY <1>7, <1>a, NoneAssumption DEF ReceiveClosed, NoPendingLeak, CallShape, InFlight, CallState, mutex
<1>8. ASSUME NEW c \in Calls, Timeout(c) PROVE NoPendingLeak'
  BY <1>8, <1>a, NoneAssumption DEF Timeout, NoPendingLeak, CallShape, InFlight, CallState, mutex
<1>9. ASSUME NEW c \in Calls, Cleanup(c) PROVE NoPendingLeak'
  <2>1. /\ DOMAIN pending' = DOMAIN pending \ {call[c].id}
        /\ \A i \in DOMAIN pending' : pending'[i] = pending[i]
    BY <1>9 DEF Cleanup, Unregister, Restrict
  <2>2. \A i \in DOMAIN pending' : pending[i] # c
    BY <2>1 DEF NoPendingLeak
  <2>3. \A d \in Calls \ {c} : call'[d] = call[d]
    BY <1>9, <1>a DEF Cleanup
  <2> QED
    BY <2>1, <2>2, <2>3, <1>a DEF NoPendingLeak, InFlight
<1>10. ASSUME Stop PROVE NoPendingLeak'
  BY <1>10 DEF Stop, NoPendingLeak
<1>11. ASSUME NEW s \in Servers, StartReader(s) \/ ReaderStep(s) \/ ServerStep(s)
       PROVE  NoPendingLeak'
  BY <1>11, ServerSide DEF NoPendingLeak, InFlight
<1>12. ASSUME UNCHANGED vars PROVE NoPendingLeak'
  BY <1>12 DEF vars, mutex, NoPendingLeak, InFlight
<1> QED
  BY <1>1, <1>2, <1>3, <1>4, <1>5, <1>6, <1>7, <1>8, <1>9, <1>10, <1>11, <1>12 DEF Next, CallStep

(* The channel readerCh names stays open, and its reader has started.      *)
LEMMA ReaderChStep ==
  ASSUME TypeOK, ReaderStarted, ReaderChOpen, [Next]_vars
  PROVE  ReaderStarted' /\ ReaderChOpen'
<1>a. reader \in [Servers -> ReaderState]
  BY DEF TypeOK
<1>1. ASSUME NEW s \in Servers, StartReader(s) PROVE ReaderStarted' /\ ReaderChOpen'
  BY <1>1, <1>a, NoneAssumption DEF StartReader, ReaderStarted, ReaderChOpen, ReaderState, Idle,
     mutex, chans
<1>2. ASSUME NEW s \in Servers, Scan(s) PROVE ReaderStarted' /\ ReaderChOpen'
  BY <1>2, <1>a, NoneAssumption DEF Scan, ReaderStarted, ReaderChOpen, ReaderState, Idle,
     mutex, chans
<1>3. ASSUME NEW s \in Servers, CheckStop(s) PROVE ReaderStarted' /\ ReaderChOpen'
  BY <1>3, <1>a, NoneAssumption DEF CheckStop, ReaderStarted, ReaderChOpen, ReaderState, Idle,
     mutex, chans
<1>4. ASSUME NEW s \in Servers, Route(s) PROVE ReaderStarted' /\ ReaderChOpen'
  BY <1>4, <1>a, NoneAssumption, ZenonT(40) DEF Route, ReaderStarted, ReaderChOpen, ReaderState, Idle,
     mutex, chans
<1>5. ASSUME NEW s \in Servers, Deliver(s) PROVE ReaderStarted' /\ ReaderChOpen'
  BY <1>5, <1>a, NoneAssumption DEF Deliver, ReaderStarted, ReaderChOpen, ReaderState, Idle,
     mutex, chans
<1>6. ASSUME NEW s \in Servers, ScanEnds(s) PROVE ReaderStarted' /\ ReaderChOpen'
  BY <1>6, <1>a, NoneAssumption DEF ScanEnds, ReaderStarted, ReaderChOpen, ReaderState, Idle,
     mutex, chans
<1>7. ASSUME NEW s \in Servers, MarkStopped(s) PROVE ReaderStarted' /\ ReaderChOpen'
  BY <1>7, <1>a, NoneAssumption DEF MarkStopped, ReaderStarted, ReaderChOpen, ReaderState, Idle,
     mutex, chans
<1>8. ASSUME NEW s \in Servers, CloseDone(s) PROVE ReaderStarted' /\ ReaderChOpen'
  BY <1>8, <1>a, NoneAssumption DEF CloseDone, ReaderStarted, ReaderChOpen, ReaderState, Idle,
     mutex, chans
<1>9. ASSUME NEW s \in Servers, ServerReads(s) PROVE ReaderStarted' /\ ReaderChOpen'
  BY <1>9, <1>a, NoneAssumption DEF ServerReads, ReaderStarted, ReaderChOpen, ReaderState, Idle,
     mutex, chans
<1>10. ASSUME NEW s \in Servers, ServerAnswers(s) PROVE ReaderStarted' /\ ReaderChOpen'
  BY <1>10, <1>a, NoneAssumption DEF ServerAnswers, ReaderStarted, ReaderChOpen, ReaderState, Idle,
     mutex, chans
<1>11. ASSUME NEW s \in Servers, ServerNotifies(s) PROVE ReaderStarted' /\ ReaderChOpen'
  BY <1>11, <1>a, NoneAssumption DEF ServerNotifies, ReaderStarted, ReaderChOpen, ReaderState, Idle,
     mutex, chans
<1>12. ASSUME NEW s \in Servers, ServerExits(s) PROVE ReaderStarted' /\ ReaderChOpen'
  BY <1>12, <1>a, NoneAssumption DEF ServerExits, ReaderStarted, ReaderChOpen, ReaderState, Idle,
     mutex, chans
<1>13. ASSUME NEW c \in Calls, MarshalFails(c) \/ CallStep(c)
       PROVE  ReaderStarted' /\ ReaderChOpen'
  BY <1>13, CallSide DEF ReaderStarted, ReaderChOpen
<1>14. ASSUME NEW c \in Calls, NEW s \in Servers, Begin(c, s)
       PROVE  ReaderStarted' /\ ReaderChOpen'
  BY <1>14, BeginEffect DEF ReaderStarted, ReaderChOpen
<1>15. ASSUME Stop PROVE ReaderStarted' /\ ReaderChOpen'
  BY <1>15, NoneAssumption DEF Stop, ReaderStarted, ReaderChOpen
<1>16. ASSUME UNCHANGED vars PROVE ReaderStarted' /\ ReaderChOpen'
  BY <1>16 DEF vars, mutex, chans, ReaderStarted, ReaderChOpen
<1> QED
  BY <1>1, <1>2, <1>3, <1>4, <1>5, <1>6, <1>7, <1>8, <1>9, <1>10, <1>11, <1>12, <1>13, <1>14, <1>15, <1>16
     DEF Next, ReaderStep, ServerStep

(* The channel of a registered call stays open.                            *)
LEMMA RegisteredStep ==
  ASSUME TypeOK, CallShape, RegisteredOpen, [Next]_vars PROVE RegisteredOpen'
<1>a. /\ pending \in [DOMAIN pending -> Calls]
      /\ DOMAIN pending \subseteq 1 .. nextID - 1
  BY DEF TypeOK
<1>1. ASSUME NEW c \in Calls, NEW s \in Servers, Begin(c, s) PROVE RegisteredOpen'
  <2>1. c \notin closedReply
    BY <1>1, BeginEffect DEF CallShape
  <2>2. closedReply' = closedReply /\ (pending' = pending \/ pending' = Register(c))
    BY <1>1, BeginEffect
  <2> QED
    BY <2>1, <2>2, <1>a DEF Register, RegisteredOpen
<1>2. ASSUME Stop PROVE RegisteredOpen'
  BY <1>2 DEF Stop, RegisteredOpen
<1>3. ASSUME NEW s \in Servers, StartReader(s) \/ ReaderStep(s) \/ ServerStep(s)
      PROVE  RegisteredOpen'
  BY <1>3, ServerSide DEF RegisteredOpen
<1>4. ASSUME NEW c \in Calls, MarshalFails(c) \/ CallStep(c)
      PROVE  RegisteredOpen'
  <2>1. closedReply' = closedReply
    BY <1>4, CallSide
  <2>2. /\ DOMAIN pending' \subseteq DOMAIN pending
        /\ \A i \in DOMAIN pending' : pending'[i] = pending[i]
    BY <1>4 DEF MarshalFails, CallStep, LockWrite, WriteReturns, WriteFails, Receive,
       ReceiveClosed, Timeout, Cleanup, Unregister, Restrict, mutex
  <2> QED
    BY <2>1, <2>2 DEF RegisteredOpen
<1>5. ASSUME UNCHANGED vars PROVE RegisteredOpen'
  BY <1>5 DEF vars, mutex, chans, RegisteredOpen
<1> QED
  BY <1>1, <1>2, <1>3, <1>4, <1>5 DEF Next

(* A line only moves on in its server's pipes; the one way in is the write *)
(* of the request itself (or of a line without an id of its own).          *)
LEMMA PipesFrame ==
  ASSUME TypeOK, [Next]_vars, NEW s \in Servers, NEW i \in Piped(s)', i > 0
  PROVE  \/ i \in Piped(s)
         \/ \E c \in Calls : /\ WriteReturns(c) /\ call[c].pc = "write"
                             /\ call[c].srv = s /\ call[c].id = i
<1>a. /\ reader \in [Servers -> ReaderState]
      /\ call \in [Calls -> CallState]
      /\ stdin \in [Servers -> SUBSET Nat]
      /\ inbox \in [Servers -> SUBSET Nat]
      /\ stdout \in [Servers -> SUBSET Lines]
  BY DEF TypeOK
<1>1. ASSUME NEW t \in Servers, StartReader(t) PROVE i \in Piped(s)
  BY <1>1, <1>a, NoiseAssumption DEF StartReader, Piped, ReaderState, Idle, NoId, TooLong, world
<1>2. ASSUME NEW t \in Servers, Scan(t) PROVE i \in Piped(s)
  BY <1>2, <1>a, NoiseAssumption DEF Scan, Piped, ReaderState, Idle, NoId, TooLong, world
<1>3. ASSUME NEW t \in Servers, CheckStop(t) PROVE i \in Piped(s)
  BY <1>3, <1>a, NoiseAssumption DEF CheckStop, Piped, ReaderState, Idle, NoId, TooLong, world
<1>4. ASSUME NEW t \in Servers, Route(t) PROVE i \in Piped(s)
  <2>1. reader'[s].line \in {reader[s].line, NoId}
    <3>1. CASE reader' = [reader EXCEPT ![t] = [@ EXCEPT !.pc = "deliver",
                                          !.to = pending[reader[t].line]]]
      BY <3>1, <1>a DEF ReaderState
    <3>2. CASE reader' = [reader EXCEPT ![t] = [Idle EXCEPT !.pc = "scan"]]
      BY <3>2, <1>a DEF Idle
    <3> QED
      BY <1>4, <3>1, <3>2 DEF Route
  <2>2. UNCHANGED <<stdin, inbox, stdout>>
    BY <1>4 DEF Route, world
  <2> QED
    BY <2>1, <2>2 DEF Piped, NoId
<1>5. ASSUME NEW t \in Servers, Deliver(t) PROVE i \in Piped(s)
  <2>1. reader'[s].line \in {reader[s].line, NoId}
    BY <1>5, <1>a DEF Deliver, ReaderState, Idle
  <2>2. UNCHANGED <<stdin, inbox, stdout>>
    BY <1>5 DEF Deliver, world
  <2> QED
    BY <2>1, <2>2 DEF Piped, NoId
<1>6. ASSUME NEW t \in Servers, ScanEnds(t) PROVE i \in Piped(s)
  BY <1>6, <1>a, NoiseAssumption DEF ScanEnds, Piped, ReaderState, Idle, NoId, TooLong, world
<1>7. ASSUME NEW t \in Servers, MarkStopped(t) PROVE i \in Piped(s)
  BY <1>7, <1>a, NoiseAssumption DEF MarkStopped, Piped, ReaderState, Idle, NoId, TooLong, world
<1>8. ASSUME NEW t \in Servers, CloseDone(t) PROVE i \in Piped(s)
  <2>1. reader'[s].line \in {reader[s].line, NoId}
    <3>1. CASE reader' = [reader EXCEPT ![t].pc = "exited"]
      BY <3>1, <1>a DEF ReaderState
    <3> QED
      BY <1>8, <3>1 DEF CloseDone
  <2>2. UNCHANGED <<stdin, inbox, stdout>>
    BY <1>8 DEF CloseDone, world
  <2> QED
    BY <2>1, <2>2 DEF Piped, NoId
<1>9. ASSUME NEW t \in Servers, ServerReads(t) PROVE i \in Piped(s)
  BY <1>9, <1>a, NoiseAssumption DEF ServerReads, Piped, ReaderState, Idle, NoId, TooLong, world
<1>10. ASSUME NEW t \in Servers, ServerAnswers(t) PROVE i \in Piped(s)
  BY <1>10, <1>a, NoiseAssumption DEF ServerAnswers, Piped, ReaderState, Idle, NoId, TooLong, world
<1>11. ASSUME NEW t \in Servers, ServerNotifies(t) PROVE i \in Piped(s)
  BY <1>11, <1>a, NoiseAssumption DEF ServerNotifies, Piped, ReaderState, Idle, NoId, TooLong, world
<1>12. ASSUME NEW t \in Servers, ServerExits(t) PROVE i \in Piped(s)
  BY <1>12, <1>a, NoiseAssumption DEF ServerExits, Piped, ReaderState, Idle, NoId, TooLong, world
<1>13. ASSUME NEW c \in Calls, MarshalFails(c) \/ CallStep(c), ~WriteReturns(c)
       PROVE  i \in Piped(s)
  BY <1>13, CallSide DEF Piped, MarshalFails, CallStep, LockWrite, WriteFails,
     Receive, ReceiveClosed, Timeout, Cleanup, world
<1>14. ASSUME NEW c \in Calls, WriteReturns(c)
       PROVE  \/ i \in Piped(s)
              \/ call[c].pc = "write" /\ call[c].srv = s /\ call[c].id = i
  BY <1>14, <1>a DEF WriteReturns, Message, InitializedId, Piped, chans
<1>15. ASSUME NEW c \in Calls, NEW t \in Servers, Begin(c, t) PROVE i \in Piped(s)
  BY <1>15, BeginEffect DEF Piped
<1>16. ASSUME Stop PROVE i \in Piped(s)
  BY <1>16 DEF Stop, Piped, world
<1>17. ASSUME UNCHANGED vars PROVE i \in Piped(s)
  BY <1>17 DEF vars, Piped, world
<1> QED
  BY <1>1, <1>2, <1>3, <1>4, <1>5, <1>6, <1>7, <1>8, <1>9, <1>10, <1>11, <1>12, <1>13, <1>14, <1>15, <1>16, <1>17
     DEF Next, ReaderStep, ServerStep, CallStep

(* A call that has an id keeps it, and its server. *)
LEMMA IssuedKept ==
  ASSUME TypeOK, CallShape, [Next]_vars, NEW c \in Calls, call[c].id # 0
  PROVE  call'[c].id = call[c].id /\ call'[c].srv = call[c].srv
<1>1. CASE \E d \in Calls, s \in Servers : Begin(d, s)
  <2>1. PICK d \in Calls, s \in Servers : Begin(d, s)
    BY <1>1
  <2>2. c # d
    BY <2>1, BeginEffect DEF CallShape
  <2> QED
    BY <2>1, <2>2, BeginEffect
<1> QED
  BY <1>1, IdsKept

(* How a reader comes to hold a channel, a channel a response, and a call  *)
(* its result.                                                             *)
LEMMA DeliverFrame ==
  ASSUME TypeOK, [Next]_vars, NEW s \in Servers, reader'[s].pc = "deliver"
  PROVE  \/ reader'[s] = reader[s]
         \/ /\ reader[s].line \in DOMAIN pending
            /\ reader'[s].to = pending[reader[s].line]
            /\ reader'[s].line = reader[s].line
<1>a. reader \in [Servers -> ReaderState]
  BY DEF TypeOK
<1>1. ASSUME NEW t \in Servers, StartReader(t) PROVE reader'[s] = reader[s]
  BY <1>1, <1>a DEF StartReader, ReaderState, Idle
<1>2. ASSUME NEW t \in Servers, Scan(t) PROVE reader'[s] = reader[s]
  BY <1>2, <1>a DEF Scan, ReaderState, Idle
<1>3. ASSUME NEW t \in Servers, CheckStop(t) PROVE reader'[s] = reader[s]
  BY <1>3, <1>a DEF CheckStop, ReaderState, Idle
<1>4. ASSUME NEW t \in Servers, Route(t)
      PROVE  \/ reader'[s] = reader[s]
             \/ /\ reader[s].line \in DOMAIN pending
                /\ reader'[s].to = pending[reader[s].line]
                /\ reader'[s].line = reader[s].line
  <2>1. CASE reader[t].line \in DOMAIN pending
    <3>1. reader' = [reader EXCEPT ![t] = [@ EXCEPT !.pc = "deliver",
                                          !.to = pending[reader[t].line]]]
      BY <1>4, <2>1 DEF Route
    <3> QED
      BY <2>1, <3>1, <1>a DEF ReaderState
  <2>2. CASE reader[t].line \notin DOMAIN pending
    <3>1. reader' = [reader EXCEPT ![t] = [Idle EXCEPT !.pc = "scan"]]
      BY <1>4, <2>2 DEF Route
    <3> QED
      BY <3>1, <1>a DEF Idle
  <2> QED
    BY <2>1, <2>2
<1>5. ASSUME NEW t \in Servers, Deliver(t) PROVE reader'[s] = reader[s]
  BY <1>5, <1>a DEF Deliver, ReaderState, Idle
<1>6. ASSUME NEW t \in Servers, ScanEnds(t) PROVE reader'[s] = reader[s]
  BY <1>6, <1>a DEF ScanEnds, ReaderState, Idle
<1>7. ASSUME NEW t \in Servers, MarkStopped(t) PROVE reader'[s] = reader[s]
  BY <1>7, <1>a DEF MarkStopped, ReaderState, Idle
<1>8. ASSUME NEW t \in Servers, CloseDone(t) PROVE reader'[s] = reader[s]
  BY <1>8, <1>a DEF CloseDone, ReaderState, Idle
<1>9. ASSUME NEW t \in Servers, ServerReads(t) PROVE reader'[s] = reader[s]
  BY <1>9, <1>a DEF ServerReads, ReaderState, Idle
<1>10. ASSUME NEW t \in Servers, ServerAnswers(t) PROVE reader'[s] = reader[s]
  BY <1>10, <1>a DEF ServerAnswers, ReaderState, Idle
<1>11. ASSUME NEW t \in Servers, ServerNotifies(t) PROVE reader'[s] = reader[s]
  BY <1>11, <1>a DEF ServerNotifies, ReaderState, Idle
<1>12. ASSUME NEW t \in Servers, ServerExits(t) PROVE reader'[s] = reader[s]
  BY <1>12, <1>a DEF ServerExits, ReaderState, Idle
<1>13. ASSUME NEW c \in Calls, MarshalFails(c) \/ CallStep(c) PROVE reader' = reader
  BY <1>13, CallSide
<1>14. ASSUME NEW c \in Calls, NEW t \in Servers, Begin(c, t) PROVE reader' = reader
  BY <1>14, BeginEffect
<1>15. Stop \/ UNCHANGED vars => reader' = reader
  BY DEF Stop, vars
<1> QED
  BY <1>1, <1>2, <1>3, <1>4, <1>5, <1>6, <1>7, <1>8, <1>9, <1>10, <1>11, <1>12, <1>13, <1>14, <1>15
     DEF Next, ReaderStep, ServerStep

(* Only a reader that delivers fills a reply.                              *)
LEMMA ReplyFrame ==
  ASSUME TypeOK, [Next]_vars, NEW c \in Calls
  PROVE  \/ reply'[c] \in {reply[c], None}
         \/ \E s \in Servers : /\ Deliver(s) /\ reader[s].to = c
                               /\ reply'[c] = s
<1>a. reply \in [Calls -> Servers \cup {None}]
  BY DEF TypeOK
<1>1. ASSUME NEW s \in Servers, Deliver(s)
      PROVE  reply'[c] = reply[c] \/ (reader[s].to = c /\ reply'[c] = s)
  BY <1>1, <1>a DEF Deliver
<1>2. ASSUME NEW s \in Servers, StartReader(s) \/ ReaderStep(s) \/ ServerStep(s),
             ~Deliver(s)
      PROVE  reply' = reply
  BY <1>2 DEF StartReader, ReaderStep, Scan, CheckStop, Route, ScanEnds,
     MarkStopped, CloseDone, ServerStep, ServerReads, ServerAnswers,
     ServerNotifies, ServerExits, chans
<1>3. ASSUME NEW d \in Calls, MarshalFails(d) \/ CallStep(d)
      PROVE  reply'[c] \in {reply[c], None}
  BY <1>3, <1>a DEF MarshalFails, CallStep, LockWrite, WriteReturns, WriteFails,
     Receive, ReceiveClosed, Timeout, Cleanup, chans
<1>4. ASSUME NEW d \in Calls, NEW s \in Servers, Begin(d, s) PROVE reply' = reply
  BY <1>4, BeginEffect
<1>5. Stop \/ UNCHANGED vars => reply' = reply
  BY DEF Stop, vars, chans
<1> QED
  BY <1>1, <1>2, <1>3, <1>4, <1>5 DEF Next

(* Only Receive takes a reply, and only Begin starts a call.               *)
LEMMA CallFrame ==
  ASSUME TypeOK, [Next]_vars, NEW c \in Calls
  PROVE  /\ call'[c].from # call[c].from => call'[c].from = reply[c]
         /\ call'[c].pc \in {"lock", "write"} =>
              call[c].pc \in {"lock", "write"} \/ \E s \in Servers : Begin(c, s)
<1> DEFINE Kept == /\ call'[c].from # call[c].from => call'[c].from = reply[c]
                   /\ call'[c].pc \in {"lock", "write"} =>
                        call[c].pc \in {"lock", "write"}
<1>a. call \in [Calls -> CallState]
  BY DEF TypeOK
<1>1. ASSUME NEW d \in Calls, MarshalFails(d) PROVE Kept
  BY <1>1, <1>a DEF MarshalFails, CallState
<1>2. ASSUME NEW d \in Calls, LockWrite(d) PROVE Kept
  BY <1>2, <1>a DEF LockWrite, CallState
<1>3. ASSUME NEW d \in Calls, WriteReturns(d) PROVE Kept
  BY <1>3, <1>a DEF WriteReturns, CallState
<1>4. ASSUME NEW d \in Calls, WriteFails(d) PROVE Kept
  BY <1>4, <1>a DEF WriteFails, CallState
<1>5. ASSUME NEW d \in Calls, Receive(d) PROVE Kept
  BY <1>5, <1>a DEF Receive, CallState
<1>6. ASSUME NEW d \in Calls, ReceiveClosed(d) PROVE Kept
  BY <1>6, <1>a DEF ReceiveClosed, CallState
<1>7. ASSUME NEW d \in Calls, Timeout(d) PROVE Kept
  BY <1>7, <1>a DEF Timeout, CallState
<1>8. ASSUME NEW d \in Calls, Cleanup(d) PROVE Kept
  BY <1>8, <1>a DEF Cleanup, CallState
<1>9. ASSUME NEW s \in Servers, StartReader(s) \/ ReaderStep(s) \/ ServerStep(s)
      PROVE  call' = call
  BY <1>9, ServerSide
<1>10. ASSUME NEW d \in Calls, NEW s \in Servers, Begin(d, s)
       PROVE  Kept \/ (d = c /\ call'[c].from = call[c].from)
  BY <1>10, BeginEffect
<1>11. Stop \/ UNCHANGED vars => call' = call
  BY DEF Stop, vars
<1> QED
  BY <1>1, <1>2, <1>3, <1>4, <1>5, <1>6, <1>7, <1>8, <1>9, <1>10, <1>11
     DEF Next, CallStep

(* The server whose pipes hold an id is the server of the call it was      *)
(* issued to.                                                              *)
LEMMA OwnPipes ==
  ASSUME TypeOK, IdsUnique, Routing, NEW c \in Calls, NEW s \in Servers,
         call[c].id \in Piped(s), call[c].id # 0
  PROVE  call[c].srv = s
<1>1. call[c].id \in Nat
  BY DEF TypeOK, CallState
<1>2. PICK d \in Calls : call[d].id = call[c].id /\ call[d].srv = s
  BY <1>1 DEF Routing
<1> QED
  BY <1>2 DEF IdsUnique

(* An id in a pipe is that of a call to this server.                       *)
LEMMA RoutingStep ==
  ASSUME TypeOK, IdsUnique, CallShape, NoPendingLeak, Routing, [Next]_vars
  PROVE  Routing'
<1>1. ASSUME NEW s \in Servers, NEW i \in Piped(s)', i > 0
      PROVE  \E c \in Calls : call'[c].id = i /\ call'[c].srv = s
  <2>1. PICK c \in Calls : call[c].id = i /\ call[c].srv = s
    BY <1>1, PipesFrame DEF Routing
  <2> QED
    BY <1>1, <2>1, IssuedKept
<1>2. ASSUME NEW s \in Servers, reader'[s].pc = "deliver"
      PROVE  /\ reader'[s].to \in Calls
             /\ call'[reader'[s].to].id = reader'[s].line
             /\ reader'[s].line # 0
  <2>1. CASE reader'[s] = reader[s]
    BY <1>2, <2>1, IssuedKept DEF Routing
  <2>2. CASE /\ reader[s].line \in DOMAIN pending
             /\ reader'[s].to = pending[reader[s].line]
             /\ reader'[s].line = reader[s].line
    <3>0. /\ pending \in [DOMAIN pending -> Calls]
          /\ DOMAIN pending \subseteq 1 .. nextID - 1
          /\ nextID \in Nat
      BY DEF TypeOK
    <3>1. reader'[s].to \in Calls /\ reader[s].line # 0
      BY <2>2, <3>0
    <3>2. call[reader'[s].to].id = reader[s].line
      BY <2>2 DEF NoPendingLeak
    <3> QED
      BY <2>2, <3>1, <3>2, IssuedKept
  <2> QED
    BY <1>2, <2>1, <2>2, DeliverFrame
<1> QED
  BY <1>1, <1>2 DEF Routing

(* A response stays that of the request.                                   *)
LEMMA ResponseStep ==
  ASSUME TypeOK, IdsUnique, CallShape, Routing, ResponseMatchesRequest, [Next]_vars
  PROVE  ResponseMatchesRequest'
<1> SUFFICES ASSUME NEW c \in Calls
             PROVE  /\ call'[c].from \in {None, call'[c].srv}
                    /\ reply'[c] \in {None, call'[c].srv}
  BY DEF ResponseMatchesRequest
<1>1. call'[c].from \in {None, call'[c].srv}
  <2>1. CASE call'[c].from = None
    BY <2>1
  <2>2. CASE call'[c].from # None
    <3>1. call'[c].from \in {call[c].from, reply[c]}
      BY CallFrame
    <3>2. call[c].id # 0
      BY <2>2, <3>1 DEF CallShape
    <3> QED
      BY <2>2, <3>1, <3>2, IssuedKept DEF ResponseMatchesRequest
  <2> QED
    BY <2>1, <2>2
<1>2. reply'[c] \in {None, call'[c].srv}
  <2>1. CASE reply'[c] \in {reply[c], None}
    BY <2>1, IssuedKept DEF ResponseMatchesRequest, CallShape
  <2>2. ASSUME NEW s \in Servers, Deliver(s), reader[s].to = c, reply'[c] = s
        PROVE  reply'[c] = call'[c].srv
    <3>1. call[c].id = reader[s].line /\ call[c].id # 0
      BY <2>2 DEF Deliver, Routing
    <3>2. call[c].srv = s
      BY <3>1, OwnPipes DEF Piped
    <3> QED
      BY <2>2, <3>1, <3>2, IssuedKept
  <2> QED
    BY <2>1, <2>2, ReplyFrame
<1> QED
  BY <1>1, <1>2

(* While the request of a call is unwritten, or its response handed over,  *)
(* its id is in no pipe.                                                   *)
OutOfPipes(c) == call[c].pc \in {"lock", "write"} \/ reply[c] # None
                 \/ call[c].from # None

(* A request or response stays in at most one place.                       *)
LEMMA OnePlaceStep ==
  ASSUME TypeOK, IdsUnique, CallShape, Routing, OnePlace, [Next]_vars
  PROVE  OnePlace'
<1>a. /\ reader \in [Servers -> ReaderState]
      /\ call \in [Calls -> CallState]
      /\ stdin \in [Servers -> SUBSET Nat]
      /\ inbox \in [Servers -> SUBSET Nat]
      /\ stdout \in [Servers -> SUBSET Lines]
      /\ nextID \in Nat
  BY DEF TypeOK
<1>b. \A c \in Calls : call[c].id \in Nat
  BY <1>a DEF CallState
<1>c. ASSUME NEW s \in Servers, NEW i \in Piped(s), i > 0 PROVE i < nextID
  BY <1>c DEF Routing, IdsUnique
<1>d. \A c \in Calls, s \in Servers : call[c].id # 0 /\ OutOfPipes(c)
        => call[c].id \notin Piped(s)
  BY DEF OnePlace, OutOfPipes
(* Nobody delivers to a call whose id is in no pipe. *)
<1>e. ASSUME NEW c \in Calls, OutOfPipes(c), NEW s \in Servers, Deliver(s)
      PROVE  reader[s].to # c
  <2>1. SUFFICES ASSUME reader[s].to = c PROVE FALSE
    OBVIOUS
  <2>2. call[c].id = reader[s].line /\ call[c].id # 0
    BY <1>e, <2>1 DEF Deliver, Routing
  <2> QED
    BY <1>e, <1>d, <2>2 DEF Piped
<1>1. ASSUME NEW s \in Servers, NEW i \in Piped(s)', i > 0
      PROVE  /\ i \in stdin'[s] =>
                  i \notin inbox'[s] \cup stdout'[s] \cup {reader'[s].line}
             /\ i \in inbox'[s] => i \notin stdout'[s] \cup {reader'[s].line}
             /\ i \in stdout'[s] => i # reader'[s].line
  <2> DEFINE Shrinks == /\ stdin'[s] \subseteq stdin[s]
                        /\ inbox'[s] \subseteq inbox[s]
                        /\ stdout'[s] \subseteq stdout[s]
                        /\ reader'[s].line \in {reader[s].line, NoId}
             Apart == /\ i \in stdin'[s] =>
                           i \notin inbox'[s] \cup stdout'[s] \cup {reader'[s].line}
                      /\ i \in inbox'[s] => i \notin stdout'[s] \cup {reader'[s].line}
                      /\ i \in stdout'[s] => i # reader'[s].line
  <2>0. /\ i \in stdin[s] => i \notin inbox[s] \cup stdout[s] \cup {reader[s].line}
        /\ i \in inbox[s] => i \notin stdout[s] \cup {reader[s].line}
        /\ i \in stdout[s] => i # reader[s].line
    BY <1>1 DEF OnePlace, Piped
  <2>s. Shrinks => Apart
    BY <1>1, <2>0 DEF NoId
  <2>1. ASSUME NEW t \in Servers, StartReader(t) PROVE Shrinks
    BY <2>1, <1>a DEF StartReader, ReaderState, Idle, world
  <2>2. ASSUME NEW t \in Servers, Scan(t) PROVE Apart
    BY <1>1, <1>a, <2>0, <2>2, NoiseAssumption DEF Scan, TooLong, NoId
  <2>3. ASSUME NEW t \in Servers, CheckStop(t) PROVE Shrinks
    BY <2>3, <1>a DEF CheckStop, ReaderState, Idle, world
  <2>4. ASSUME NEW t \in Servers, Route(t) PROVE Shrinks
    <3>1. CASE reader' = [reader EXCEPT ![t] = [@ EXCEPT !.pc = "deliver",
                                          !.to = pending[reader[t].line]]]
      BY <2>4, <3>1, <1>a DEF Route, ReaderState, world
    <3>2. CASE reader' = [reader EXCEPT ![t] = [Idle EXCEPT !.pc = "scan"]]
      BY <2>4, <3>2, <1>a DEF Route, Idle, world
    <3> QED
      BY <2>4, <3>1, <3>2 DEF Route
  <2>5. ASSUME NEW t \in Servers, Deliver(t) PROVE Shrinks
    BY <2>5, <1>a, ZenonT(40) DEF Deliver, ReaderState, Idle, world
  <2>6. ASSUME NEW t \in Servers, ScanEnds(t) PROVE Shrinks
    BY <2>6, <1>a DEF ScanEnds, ReaderState, Idle, world
  <2>7. ASSUME NEW t \in Servers, MarkStopped(t) PROVE Shrinks
    BY <2>7, <1>a DEF MarkStopped, ReaderState, Idle, world
  <2>8. ASSUME NEW t \in Servers, CloseDone(t) PROVE Shrinks
    <3>1. CASE reader' = [reader EXCEPT ![t].pc = "exited"]
      <4>1. \A u \in Servers : reader'[u].line = reader[u].line
        BY <3>1, <1>a DEF ReaderState
      <4>2. UNCHANGED <<stdin, inbox, stdout, reply>>
        BY <2>8 DEF CloseDone, world
      <4> QED
        BY <4>1, <4>2
    <3> QED
      BY <2>8, <3>1 DEF CloseDone, world
  <2>9. ASSUME NEW t \in Servers, ServerReads(t) PROVE Apart
    BY <1>1, <1>a, <2>0, <2>9, NoiseAssumption DEF ServerReads, TooLong, NoId
  <2>10. ASSUME NEW t \in Servers, ServerAnswers(t) PROVE Apart
    BY <1>1, <1>a, <2>0, <2>10, NoiseAssumption DEF ServerAnswers, TooLong, NoId
  <2>11. ASSUME NEW t \in Servers, ServerNotifies(t) PROVE Apart
    BY <1>1, <1>a, <2>0, <2>11, NoiseAssumption DEF ServerNotifies, TooLong, NoId
  <2>12. ASSUME NEW t \in Servers, ServerExits(t) PROVE Shrinks
    BY <2>12, <1>a DEF ServerExits, ReaderState, Idle, world
  <2>13. ASSUME NEW c \in Calls, MarshalFails(c) \/ CallStep(c), ~WriteReturns(c)
         PROVE  Shrinks
    BY <2>13, CallSide DEF MarshalFails, CallStep, LockWrite, WriteFails, Receive,
       ReceiveClosed, Timeout, Cleanup, world
  <2>14. ASSUME NEW c \in Calls, WriteReturns(c) PROVE Apart
    <3>1. stdin'[s] \subseteq stdin[s] \cup {Message(c)}
      BY <2>14, <1>a DEF WriteReturns
    <3>2. UNCHANGED <<inbox, stdout, reader>>
      BY <2>14 DEF WriteReturns
    <3>3. Message(c) # i \/ (call[c].pc = "write" /\ i = call[c].id)
      BY <1>1 DEF Message, InitializedId
    <3>4. i = call[c].id /\ call[c].pc = "write" => i \notin Piped(s)
      BY <1>1, <1>d DEF OutOfPipes
    <3> QED
      BY <2>0, <3>1, <3>2, <3>3, <3>4 DEF Piped
  <2>15. ASSUME NEW c \in Calls, NEW t \in Servers, Begin(c, t) PROVE Shrinks
    BY <2>15, BeginEffect
  <2>16. Stop \/ UNCHANGED vars => Shrinks
    BY DEF Stop, vars, world
  <2> QED
    BY <2>s, <2>1, <2>2, <2>3, <2>4, <2>5, <2>6, <2>7, <2>8, <2>9, <2>10, <2>11, <2>12, <2>13, <2>14, <2>15, <2>16
       DEF Next, ReaderStep, ServerStep, CallStep
<1>2. ASSUME NEW c \in Calls, NEW s \in Servers, call'[c].id # 0, OutOfPipes(c)',
             call'[c].id \in Piped(s)'
      PROVE  FALSE
  <2>1. CASE call[c].id = 0
    <3>1. call'[c].id = nextID
      BY <1>2, <2>1, IdsKept, BeginEffect
    <3>2. call'[c].id > 0
      BY <1>2, <1>a, <3>1
    <3>3. \/ call'[c].id \in Piped(s)
          \/ \E d \in Calls : call[d].id = call'[c].id
      BY <1>2, <3>2, PipesFrame
    <3> QED
      BY <3>1, <3>2, <3>3, <1>a, <1>b, <1>c DEF IdsUnique
  <2>2. CASE call[c].id # 0
    <3>1. call'[c].id = call[c].id /\ call[c].id > 0
      BY <2>2, <1>b, IssuedKept
    <3>2. CASE OutOfPipes(c)
      <4>1. PICK d \in Calls : /\ WriteReturns(d) /\ call[d].pc = "write"
                               /\ call[d].srv = s /\ call[d].id = call[c].id
        BY <1>2, <1>d, <2>2, <3>1, <3>2, PipesFrame
      <4>2. d = c
        BY <2>2, <4>1 DEF IdsUnique
      <4>3. call'[c].pc = "wait" /\ call'[c].from = call[c].from /\ reply' = reply
        BY <4>1, <4>2, <1>a DEF WriteReturns, CallState, chans
      <4>4. call[c].from = None /\ reply[c] = None
        BY <4>1, <4>2 DEF CallShape, OnePlace
      <4> QED
        BY <1>2, <4>3, <4>4 DEF OutOfPipes
    <3>3. CASE ~OutOfPipes(c)
      <4>1. /\ call'[c].pc \notin {"lock", "write"}
            /\ call'[c].from = None
        BY <2>2, <3>3, CallFrame, BeginEffect DEF OutOfPipes, CallShape
      <4>2. PICK t \in Servers : Deliver(t) /\ reader[t].to = c /\ reply'[c] = t
        BY <1>2, <3>3, <4>1, ReplyFrame DEF OutOfPipes
      <4>3. call[c].id = reader[t].line
        BY <4>2 DEF Deliver, Routing
      <4>4. call[c].srv = t
        BY <2>2, <4>3, OwnPipes DEF Piped
      <4>5. call[c].id \in Piped(s)
        <5>1. ASSUME NEW d \in Calls, call[d].pc = "write", call[d].id = call[c].id
              PROVE  FALSE
          <6>1. d = c
            BY <2>2, <5>1 DEF IdsUnique
          <6> QED
            BY <3>3, <5>1, <6>1 DEF OutOfPipes
        <5> QED
          BY <1>2, <3>1, <5>1, PipesFrame
      <4>6. s = t
        BY <2>2, <4>4, <4>5, OwnPipes
      <4>7. /\ call[c].id \notin stdin[s] \cup inbox[s] \cup stdout[s]
        BY <4>3, <4>6, <3>1 DEF OnePlace, Piped
      <4>8. CASE reader[t].to \in closedReply
        BY <4>2, <4>8, <3>3, <1>2, <4>1, NoneAssumption DEF Deliver, OutOfPipes
      <4>9. CASE reader[t].to \notin closedReply
        <5>1. reader' = [reader EXCEPT ![t] = [Idle EXCEPT !.pc = "scan"]]
          BY <4>2, <4>9 DEF Deliver
        <5>2. reader'[s].line = NoId
          BY <5>1, <4>6, <1>a DEF Idle
        <5>3. UNCHANGED <<stdin, inbox, stdout>>
          BY <4>2 DEF Deliver, world
        <5>4. call[c].id \in stdin[s] \cup inbox[s] \cup stdout[s] \cup {NoId}
          BY <1>2, <3>1, <4>6, <5>2, <5>3 DEF Piped
        <5> QED
          BY <3>1, <4>7, <5>4 DEF NoId
      <4> QED
        BY <4>8, <4>9
    <3> QED
      BY <3>2, <3>3
  <2> QED
    BY <2>1, <2>2
<1>3. ASSUME NEW c \in Calls, call'[c].pc \in {"lock", "write"} PROVE reply'[c] = None
  <2>1. CASE call[c].pc \in {"lock", "write"}
    <3>1. reply[c] = None
      BY <2>1 DEF OnePlace
    <3> QED
      BY <2>1, <3>1, <1>e, ReplyFrame DEF OutOfPipes
  <2>2. ASSUME NEW s \in Servers, Begin(c, s) PROVE reply'[c] = None
    BY <2>2, BeginEffect DEF CallShape
  <2> QED
    BY <1>3, <2>1, <2>2, CallFrame
<1> QED
  BY <1>1, <1>2, <1>3 DEF OnePlace, OutOfPipes

-----------------------------------------------------------------------------
(* The invariant holds when the proxy starts.                              *)
LEMMA InitInv == Init => IInv
<1> SUFFICES ASSUME Init PROVE IInv
  OBVIOUS
<1>1. Idle \in ReaderState
  BY DEF Idle, ReaderState, ReaderPCs, Lines
<1>2. TypeOK
  <2>1. [pc |-> "new", id |-> 0, srv |-> None, result |-> "none", from |-> None]
          \in CallState
    BY DEF CallState, CallPCs, Results
  <2>2. call \in [Calls -> CallState] /\ reader \in [Servers -> ReaderState]
    BY <1>1, <2>1 DEF Init
  <2>3. /\ DOMAIN pending \subseteq 1 .. nextID - 1
        /\ pending \in [DOMAIN pending -> Calls]
    BY DEF Init
  <2>4. /\ reply \in [Calls -> Servers \cup {None}]
        /\ stdin \in [Servers -> SUBSET Nat] /\ inbox \in [Servers -> SUBSET Nat]
        /\ stdout \in [Servers -> SUBSET Lines]
        /\ proc \in [Servers -> {"up", "exited"}]
    BY DEF Init
  <2>5. running \in BOOLEAN
    BY DEF Init
  <2>6. /\ nextID \in Nat \ {0}
        /\ readerCh \in Servers \cup {None} /\ readerDone \in Servers \cup {None}
        /\ writer \in Calls \cup {None} /\ closedCh \subseteq Servers
        /\ closedDone \subseteq Servers \cup {None} /\ closedReply \subseteq Calls
        /\ panic \in {"none", "send on closed channel", "close of closed channel"}
    BY DEF Init
  <2> QED
    BY <2>2, <2>3, <2>4, <2>5, <2>6 DEF TypeOK
<1>3. IdsUnique /\ CallShape /\ NoPendingLeak /\ ResponseMatchesRequest
  BY NoneAssumption DEF Init, IdsUnique, CallShape, NoPendingLeak, InFlight,
     ResponseMatchesRequest
<1>4. \A s \in Servers : Piped(s) = {NoId}
  BY DEF Init, Piped, Idle
<1>5. Routing /\ OnePlace
  BY <1>4 DEF Init, Routing, OnePlace, Idle, NoId
<1>6. ReaderStarted /\ ReaderChOpen /\ RegisteredOpen
  BY NoneAssumption DEF Init, ReaderStarted, ReaderChOpen, RegisteredOpen
<1> QED
  BY <1>2, <1>3, <1>5, <1>6 DEF IInv

(* The proxy's invariant: every reachable state is well typed, ids are     *)
(* unique, and each request is in one place.                               *)
THEOREM Invariant == Spec => []IInv
<1>1. IInv /\ [Next]_vars => IInv'
  BY TypeStep, IdsStep, CallShapeStep, PendingStep, RoutingStep, ResponseStep,
     OnePlaceStep, ReaderChStep, RegisteredStep DEF IInv
<1> QED
  BY InitInv, <1>1, PTL DEF Spec

(* Every variable keeps its type: in particular no id is registered that   *)
(* was not issued (proxy.go:343-346).                                      *)
THEOREM Typed == Spec => []TypeOK
<1>1. IInv => TypeOK
  BY DEF IInv
<1> QED
  BY Invariant, <1>1, PTL

(* Whatever the number of servers and calls, a call gets a response only   *)
(* from the server it asked (proxy.go:161-166, 325-330, 369-376).          *)
THEOREM Routed == Spec => []ResponseMatchesRequest
<1>1. IInv => ResponseMatchesRequest
  BY DEF IInv
<1> QED
  BY Invariant, <1>1, PTL

(* No way out of sendRPC leaves its id registered (proxy.go:342-380).      *)
THEOREM NoLeak == Spec => []NoPendingLeak
<1>1. IInv => NoPendingLeak
  BY DEF IInv
<1> QED
  BY Invariant, <1>1, PTL

(* The one-place channel is never full when a reader sends to it, so no    *)
(* reader is stuck while it routes (proxy.go:165, 329).                    *)
THEOREM DeliverFree == Spec => []DeliverNeverBlocks
<1>1. IInv => DeliverNeverBlocks
  <2> SUFFICES ASSUME IInv, NEW s \in Servers, reader[s].pc = "deliver"
               PROVE  reply[reader[s].to] = None
    BY DEF DeliverNeverBlocks
  <2>1. /\ reader[s].to \in Calls
        /\ call[reader[s].to].id = reader[s].line
        /\ reader[s].line # 0
    BY DEF IInv, Routing
  <2> QED
    BY <2>1 DEF IInv, OnePlace, Piped
<1> QED
  BY Invariant, <1>1, PTL

(* Neither a reader channel nor a call's channel is closed twice by Stop   *)
(* and StartReader (proxy.go:104-107, 202-212).                            *)
THEOREM ClosedOnce == Spec => []OpenWhileNamed
<1>1. IInv => OpenWhileNamed
  BY DEF IInv, OpenWhileNamed
<1> QED
  BY Invariant, <1>1, PTL

-----------------------------------------------------------------------------
(* The proxy implements the at-most-once calls of Rpc. *)

(* What the maps say of one call, before and after a step. *)
Unsent(c) == call[c].pc \in {"new", "lock", "write"}

(* The stage of a call, by where its id is.                                *)
LEMMA StageOf ==
  ASSUME NEW c \in Calls
  PROVE  /\ Stage[c] = IF Unsent(c) THEN "unsent"
                       ELSE IF call[c].id = 0 THEN "gone"
                       ELSE IF Sent(c) THEN "sent"
                       ELSE IF Answered(c) THEN "answered" ELSE "gone"
         /\ Stage'[c] = IF Unsent(c)' THEN "unsent"
                        ELSE IF call'[c].id = 0 THEN "gone"
                        ELSE IF Sent(c)' THEN "sent"
                        ELSE IF Answered(c)' THEN "answered" ELSE "gone"
BY DEF Stage, Unsent

(* A call that does not move keeps its stage.                              *)
LEMMA SameStage ==
  ASSUME NEW c \in Calls, call'[c] = call[c],
         call[c].id # 0 /\ ~Unsent(c) =>
           (Sent(c)' <=> Sent(c)) /\ (Answered(c)' <=> Answered(c))
  PROVE  Stage'[c] = Stage[c]
BY StageOf DEF Unsent

(* The abstract view of steps that leave every call's record alone. *)
LEMMA CallsKept ==
  ASSUME UNCHANGED call
  PROVE  /\ Phase' = Phase
         /\ [c \in Calls |-> call[c].srv]' = [c \in Calls |-> call[c].srv]
         /\ [c \in Calls |-> call[c].result]' = [c \in Calls |-> call[c].result]
         /\ [c \in Calls |-> call[c].from]' = [c \in Calls |-> call[c].from]
BY DEF Phase

(* A step of readers or servers that moves no request forward loses some,  *)
(* or none.                                                                *)
LEMMA LoseStep ==
  ASSUME UNCHANGED call,
         \A c \in Calls : \/ Stage'[c] = Stage[c]
                          \/ /\ Stage[c] \in {"sent", "answered"}
                             /\ Stage'[c] = "gone"
  PROVE  Abstract!Next \/ UNCHANGED Abstract!vars
<1> DEFINE L == {c \in Calls : Stage'[c] # Stage[c]}
<1>1. Stage' = [c \in Calls |-> IF c \in L THEN "gone" ELSE Stage[c]]
  BY DEF Stage
<1>2. Abstract!Lose(L)
  BY <1>1, CallsKept DEF Abstract!Lose
<1> QED
  BY <1>2 DEF Abstract!Next

-----------------------------------------------------------------------------
(* Readers and servers *)

(* A request and its answer are not under way together. *)
LEMMA Exclusive ==
  ASSUME IInv, NEW c \in Calls, call[c].id # 0, ~Unsent(c)
  PROVE  /\ ~(Sent(c) /\ Answered(c))
         /\ call[c].srv \in Servers /\ call[c].id \in Nat /\ call[c].id > 0
<1>1. /\ call \in [Calls -> CallState]
      /\ stdin \in [Servers -> SUBSET Nat]
      /\ reader \in [Servers -> ReaderState]
  BY DEF IInv, TypeOK
<1>2. call[c].id \in Nat /\ call[c].id > 0
  BY <1>1 DEF CallState
<1>3. call[c].srv \in Servers
  BY DEF IInv, CallShape, Unsent
<1>4. ASSUME Sent(c), Answered(c) PROVE FALSE
  <2>1. call[c].id \in Piped(call[c].srv)
    BY <1>4 DEF Sent, Piped
  <2>2. reply[c] = None
    BY <2>1, <1>2, <1>3 DEF IInv, OnePlace
  <2> QED
    BY <1>2, <1>3, <1>4, <2>1, <2>2 DEF Sent, Answered, IInv, OnePlace
<1> QED
  BY <1>2, <1>3, <1>4

(* A step that only loses requests or responses is one of Rpc, or none.    *)
LEMMA BackwardStep ==
  ASSUME IInv, UNCHANGED call,
         \A c \in Calls : call[c].id # 0 /\ ~Unsent(c) =>
            (Sent(c)' => Sent(c)) /\ (Answered(c)' => Answered(c))
  PROVE  Abstract!Next \/ UNCHANGED Abstract!vars
<1>1. ASSUME NEW c \in Calls
      PROVE  \/ Stage'[c] = Stage[c]
             \/ Stage[c] \in {"sent", "answered"} /\ Stage'[c] = "gone"
  <2>1. CASE call[c].id # 0 /\ ~Unsent(c)
    BY <2>1, StageOf, Exclusive DEF Unsent
  <2>2. CASE call[c].id = 0 \/ Unsent(c)
    BY <2>2, SameStage
  <2> QED
    BY <2>1, <2>2
<1> QED
  BY <1>1, LoseStep

(* Readers only move lines on, to their calls or out of sight. *)
LEMMA ReaderRefines ==
  ASSUME IInv, NEW s \in Servers, StartReader(s) \/ ReaderStep(s)
  PROVE  Abstract!Next \/ UNCHANGED Abstract!vars
<1>0. UNCHANGED call
  BY ServerSide
<1>a. /\ reader \in [Servers -> ReaderState]
      /\ stdout \in [Servers -> SUBSET Lines]
      /\ reply \in [Calls -> Servers \cup {None}]
  BY DEF IInv, TypeOK
<1> SUFFICES ASSUME NEW c \in Calls, call[c].id # 0, ~Unsent(c)
             PROVE  (Sent(c)' => Sent(c)) /\ (Answered(c)' => Answered(c))
  BY <1>0, BackwardStep
<1>b. call[c].srv \in Servers /\ call[c].id > 0 /\ call[c].id \in Nat
  BY Exclusive
<1>c. ASSUME UNCHANGED <<stdin, inbox, reply>>, stdout'[call[c].srv] \subseteq stdout[call[c].srv],
             reader'[call[c].srv].line \in {reader[call[c].srv].line, NoId}
                                           \cup stdout[call[c].srv]
      PROVE  (Sent(c)' => Sent(c)) /\ (Answered(c)' => Answered(c))
  BY <1>0, <1>b, <1>c DEF Sent, Answered, NoId
<1>1. ASSUME StartReader(s) PROVE (Sent(c)' => Sent(c)) /\ (Answered(c)' => Answered(c))
  BY <1>1, <1>a, <1>b, <1>c DEF StartReader, world, ReaderState
<1>2. ASSUME Scan(s) PROVE (Sent(c)' => Sent(c)) /\ (Answered(c)' => Answered(c))
  BY <1>2, <1>a, <1>b, <1>c DEF Scan, chans, ReaderState
<1>3. ASSUME CheckStop(s) PROVE (Sent(c)' => Sent(c)) /\ (Answered(c)' => Answered(c))
  BY <1>3, <1>a, <1>b, <1>c DEF CheckStop, chans, world, ReaderState, Idle
<1>4. ASSUME Route(s) PROVE (Sent(c)' => Sent(c)) /\ (Answered(c)' => Answered(c))
  <2>1. CASE reader' = [reader EXCEPT ![s] = [@ EXCEPT !.pc = "deliver",
                                        !.to = pending[reader[s].line]]]
    BY <1>4, <2>1, <1>a, <1>b, <1>c DEF Route, ReaderState, chans, world
  <2>2. CASE reader' = [reader EXCEPT ![s] = [Idle EXCEPT !.pc = "scan"]]
    BY <1>4, <2>2, <1>a, <1>b, <1>c DEF Route, Idle, chans, world
  <2> QED
    BY <1>4, <2>1, <2>2 DEF Route
<1>5. ASSUME Deliver(s) PROVE (Sent(c)' => Sent(c)) /\ (Answered(c)' => Answered(c))
  <2>1. UNCHANGED <<stdin, inbox, stdout>>
    BY <1>5 DEF Deliver, world
  <2>2. reader'[call[c].srv].line \in {reader[call[c].srv].line, NoId}
    <3>1. reader' = reader \/ reader' = [reader EXCEPT ![s] = [Idle EXCEPT !.pc = "scan"]]
      BY <1>5 DEF Deliver
    <3>2. [Idle EXCEPT !.pc = "scan"].line = NoId
      BY DEF Idle
    <3> QED
      BY <1>a, <1>b, <3>1, <3>2
  <2>3. CASE reader[s].to # c
    <3>1. reply'[c] = reply[c]
      BY <1>5, <2>3, <1>a DEF Deliver
    <3> QED
      BY <1>0, <1>b, <2>1, <2>2, <3>1 DEF Sent, Answered, NoId
  <2>4. CASE reader[s].to = c
    <3>1. call[c].id = reader[s].line
      BY <1>5, <2>4 DEF Deliver, IInv, Routing
    <3>2. call[c].srv = s
      BY <3>1, OwnPipes DEF Piped, IInv
    <3> QED
      BY <1>0, <2>1, <3>1, <3>2 DEF Sent, Answered
  <2> QED
    BY <2>3, <2>4
<1>6. ASSUME ScanEnds(s) PROVE (Sent(c)' => Sent(c)) /\ (Answered(c)' => Answered(c))
  BY <1>6, <1>a, <1>b, <1>c DEF ScanEnds, chans, world, ReaderState
<1>7. ASSUME MarkStopped(s) PROVE (Sent(c)' => Sent(c)) /\ (Answered(c)' => Answered(c))
  BY <1>7, <1>a, <1>b, <1>c DEF MarkStopped, chans, world, ReaderState
<1>8. ASSUME CloseDone(s) PROVE (Sent(c)' => Sent(c)) /\ (Answered(c)' => Answered(c))
  <2>1. reader' = reader \/ reader' = [reader EXCEPT ![s].pc = "exited"]
    BY <1>8 DEF CloseDone
  <2>2. reader'[call[c].srv].line = reader[call[c].srv].line
    BY <2>1, <1>a, <1>b DEF ReaderState
  <2> QED
    BY <1>8, <1>c, <2>2 DEF CloseDone, world
<1> QED
  BY <1>1, <1>2, <1>3, <1>4, <1>5, <1>6, <1>7, <1>8 DEF ReaderStep

(* An answer completes the one request it carries the id of. *)
LEMMA AnswerRefines ==
  ASSUME IInv, NEW s \in Servers, ServerAnswers(s)
  PROVE  Abstract!Next \/ UNCHANGED Abstract!vars
<1>0. UNCHANGED <<call, reply, stdin, reader>>
  BY DEF ServerAnswers, mutex, chans
<1>a. /\ inbox \in [Servers -> SUBSET Nat] /\ stdin \in [Servers -> SUBSET Nat]
      /\ stdout \in [Servers -> SUBSET Lines]
      /\ call \in [Calls -> CallState]
  BY DEF IInv, TypeOK
<1>1. PICK i \in inbox[s] : \E l \in {i} \cup (Noise \cap {TooLong}) :
        /\ inbox' = [inbox EXCEPT ![s] = @ \ {i}]
        /\ stdout' = [stdout EXCEPT ![s] = @ \cup {l}]
  BY DEF ServerAnswers
<1>2. PICK l \in {i} \cup (Noise \cap {TooLong}) :
        /\ inbox' = [inbox EXCEPT ![s] = @ \ {i}]
        /\ stdout' = [stdout EXCEPT ![s] = @ \cup {l}]
  BY <1>1
<1>b. i \in Nat
  BY <1>a
(* Nothing moves for a call with another id, or none. *)
<1>3. ASSUME NEW c \in Calls, call[c].id # 0, ~Unsent(c), call[c].id # i
      PROVE  (Sent(c)' <=> Sent(c)) /\ (Answered(c)' <=> Answered(c))
  <2>1. call[c].srv \in Servers /\ call[c].id > 0 /\ call[c].id \in Nat
    BY <1>3, Exclusive
  <2> QED
    BY <1>0, <1>2, <1>3, <1>a, <2>1 DEF Sent, Answered, TooLong
<1>4. CASE l # i
  <2>1. l = TooLong
    BY <1>4
  <2>2. ASSUME NEW c \in Calls, call[c].id # 0, ~Unsent(c)
        PROVE  (Sent(c)' => Sent(c)) /\ (Answered(c)' => Answered(c))
    <3>1. call[c].srv \in Servers /\ call[c].id > 0 /\ call[c].id \in Nat
      BY <2>2, Exclusive
    <3> QED
      BY <1>0, <1>2, <1>a, <2>1, <3>1 DEF Sent, Answered, TooLong
  <2> QED
    BY <1>0, <2>2, BackwardStep
<1>5. CASE l = i /\ i = 0
  <2>1. \A c \in Calls : Stage'[c] = Stage[c]
    BY <1>0, <1>3, <1>5, SameStage
  <2> QED
    BY <1>0, <2>1, LoseStep
<1>6. CASE l = i /\ i > 0
  <2>1. i \in Piped(s)
    BY DEF Piped
  <2>2. PICK c \in Calls : call[c].id = i /\ call[c].srv = s
    BY <1>6, <2>1 DEF IInv, Routing
  <2>3. ~Unsent(c)
    BY <1>6, <2>1, <2>2 DEF IInv, OnePlace, CallShape, Unsent
  <2>4. Stage[c] = "sent"
    BY <1>6, <2>2, <2>3, StageOf DEF Sent
  <2>5. Stage'[c] = "answered"
    <3>1. ~Sent(c)'
      BY <1>0, <1>2, <1>6, <1>a, <2>1, <2>2 DEF Sent, IInv, OnePlace
    <3>2. Answered(c)'
      BY <1>0, <1>2, <1>6, <1>a, <2>2 DEF Answered
    <3>3. ~Unsent(c)' /\ call'[c].id # 0
      BY <1>0, <1>6, <2>2, <2>3 DEF Unsent
    <3> QED
      BY <3>1, <3>2, <3>3, StageOf
  <2>6. ASSUME NEW d \in Calls, d # c PROVE Stage'[d] = Stage[d]
    <3>1. call[d].id # i
      BY <1>6, <2>2, <2>6 DEF IInv, IdsUnique
    <3> QED
      BY <1>0, <1>3, <3>1, SameStage
  <2>7. Stage' = [Stage EXCEPT ![c] = "answered"]
    BY <2>5, <2>6 DEF Stage
  <2>8. Abstract!Answer(c)
    BY <1>0, <2>4, <2>7, CallsKept DEF Abstract!Answer
  <2> QED
    BY <2>8 DEF Abstract!Next
<1> QED
  BY <1>4, <1>5, <1>6, <1>b

(* A server's step is one of Rpc, or none.                                 *)
LEMMA ServerRefines ==
  ASSUME IInv, NEW s \in Servers, ServerStep(s)
  PROVE  Abstract!Next \/ UNCHANGED Abstract!vars
<1>0. UNCHANGED call
  BY ServerSide
<1>a. /\ inbox \in [Servers -> SUBSET Nat] /\ stdin \in [Servers -> SUBSET Nat]
      /\ stdout \in [Servers -> SUBSET Lines]
  BY DEF IInv, TypeOK
<1>1. CASE ServerAnswers(s)
  BY <1>1, AnswerRefines
<1>2. CASE ServerReads(s) \/ ServerNotifies(s) \/ ServerExits(s)
  <2> SUFFICES ASSUME NEW c \in Calls, call[c].id # 0, ~Unsent(c)
               PROVE  (Sent(c)' => Sent(c)) /\ (Answered(c)' => Answered(c))
    BY <1>0, BackwardStep
  <2>b. call[c].srv \in Servers /\ call[c].id > 0 /\ call[c].id \in Nat
    BY Exclusive
  <2>1. CASE ServerReads(s)
    BY <1>0, <1>a, <2>b, <2>1 DEF ServerReads, chans, Sent, Answered
  <2>2. CASE ServerNotifies(s)
    <3>1. PICK l \in Noise : stdout' = [stdout EXCEPT ![s] = @ \cup {l}]
      BY <2>2 DEF ServerNotifies
    <3>2. l # call[c].id
      BY <2>b, NoiseAssumption DEF NoId, TooLong
    <3> QED
      BY <1>0, <1>a, <2>b, <2>2, <3>1, <3>2 DEF ServerNotifies, chans, Sent, Answered
  <2>3. CASE ServerExits(s)
    BY <1>0, <1>a, <2>b, <2>3 DEF ServerExits, chans, Sent, Answered
  <2> QED
    BY <1>2, <2>1, <2>2, <2>3
<1> QED
  BY <1>1, <1>2 DEF ServerStep

-----------------------------------------------------------------------------
(* Calls *)

(* The step of one call leaves every other call where it was: the only     *)
(* line it writes carries its own id, or that of no call.                  *)
LEMMA OthersKept ==
  ASSUME IInv, NEW c \in Calls, NEW d \in Calls, d # c,
         \/ MarshalFails(c) \/ CallStep(c)
         \/ \E s \in Servers : Begin(c, s)
  PROVE  call'[d] = call[d] /\ Stage'[d] = Stage[d]
<1>a. /\ call \in [Calls -> CallState]
      /\ stdin \in [Servers -> SUBSET Nat]
      /\ reply \in [Calls -> Servers \cup {None}]
  BY DEF IInv, TypeOK
<1>1. ASSUME UNCHANGED <<stdin, inbox, stdout, reader>>, call'[d] = call[d],
             reply'[d] = reply[d]
      PROVE  Stage'[d] = Stage[d]
  <2>1. (Sent(d)' <=> Sent(d)) /\ (Answered(d)' <=> Answered(d))
    BY <1>1 DEF Sent, Answered
  <2> QED
    BY <1>1, <2>1, SameStage
<1>2. ASSUME NEW s \in Servers, Begin(c, s)
      PROVE  call'[d] = call[d] /\ Stage'[d] = Stage[d]
  BY <1>1, <1>2, BeginEffect DEF IInv
<1>3. ASSUME WriteReturns(c) PROVE call'[d] = call[d] /\ Stage'[d] = Stage[d]
  <2>1. call'[d] = call[d]
    BY <1>3, <1>a DEF WriteReturns
  <2>2. ASSUME call[d].id # 0, ~Unsent(d)
        PROVE  (Sent(d)' <=> Sent(d)) /\ (Answered(d)' <=> Answered(d))
    <3>1. Message(c) # call[d].id
      BY <2>2 DEF Message, InitializedId, IInv, IdsUnique
    <3>2. call[d].srv \in Servers
      BY <2>2, Exclusive
    <3>3. \A i \in Nat : i # Message(c) =>
            (i \in stdin'[call[d].srv] <=> i \in stdin[call[d].srv])
      BY <1>3, <1>a, <3>2 DEF WriteReturns
    <3>4. UNCHANGED <<inbox, stdout, reader, reply>>
      BY <1>3 DEF WriteReturns, chans
    <3> QED
      BY <2>1, <2>2, <3>1, <3>3, <3>4, Exclusive DEF Sent, Answered
  <2> QED
    BY <2>1, <2>2, SameStage
<1>4. ASSUME Receive(c) PROVE call'[d] = call[d] /\ Stage'[d] = Stage[d]
  <2>1. call'[d] = call[d] /\ reply'[d] = reply[d]
    BY <1>4, <1>a DEF Receive
  <2> QED
    BY <1>1, <1>4, <2>1 DEF Receive, world
<1>5. ASSUME \/ MarshalFails(c) \/ LockWrite(c) \/ ReceiveClosed(c)
             \/ Timeout(c) \/ WriteFails(c)
      PROVE  call'[d] = call[d] /\ Stage'[d] = Stage[d]
  <2>1. call'[d] = call[d] /\ UNCHANGED <<reply, stdin, inbox, stdout, reader>>
    BY <1>5, <1>a DEF MarshalFails, LockWrite, ReceiveClosed, Timeout, WriteFails,
       chans, world
  <2> QED
    BY <1>1, <2>1
<1>6. ASSUME Cleanup(c) PROVE call'[d] = call[d] /\ Stage'[d] = Stage[d]
  <2>1. call'[d] = call[d] /\ UNCHANGED <<reply, stdin, inbox, stdout, reader>>
    BY <1>6, <1>a DEF Cleanup, chans, world
  <2> QED
    BY <1>1, <2>1
<1> QED
  BY <1>2, <1>3, <1>4, <1>5, <1>6 DEF CallStep

(* What the abstract variables become when one call moves. *)
LEMMA OneMoves ==
  ASSUME NEW c \in Calls, NEW r, call \in [Calls -> CallState],
         call' = [call EXCEPT ![c] = r],
         \A d \in Calls \ {c} : Stage'[d] = Stage[d]
  PROVE  /\ Stage' = [Stage EXCEPT ![c] = Stage'[c]]
         /\ Phase' = [Phase EXCEPT ![c] =
              IF r.pc = "new" THEN "idle"
              ELSE IF r.pc \in {"lock", "write", "wait"} THEN "open" ELSE "settled"]
         /\ [d \in Calls |-> call[d].srv]' =
              [[d \in Calls |-> call[d].srv] EXCEPT ![c] = r.srv]
         /\ [d \in Calls |-> call[d].result]' =
              [[d \in Calls |-> call[d].result] EXCEPT ![c] = r.result]
         /\ [d \in Calls |-> call[d].from]' =
              [[d \in Calls |-> call[d].from] EXCEPT ![c] = r.from]
<1>1. call'[c] = r /\ \A d \in Calls \ {c} : call'[d] = call[d]
  OBVIOUS
<1>2. Stage' = [Stage EXCEPT ![c] = Stage'[c]]
  <2>1. Stage = [d \in Calls |-> Stage[d]] /\ Stage' = [d \in Calls |-> Stage'[d]]
    BY DEF Stage
  <2>2. QED
    BY <2>1, Zenon
<1>3. Phase' = [Phase EXCEPT ![c] =
        IF r.pc = "new" THEN "idle"
        ELSE IF r.pc \in {"lock", "write", "wait"} THEN "open" ELSE "settled"]
  BY <1>1 DEF Phase
<1> QED
  BY <1>1, <1>2, <1>3

(* To begin a call is a step of Rpc.                                       *)
LEMMA BeginRefines ==
  ASSUME IInv, NEW c \in Calls, NEW s \in Servers, Begin(c, s)
  PROVE  Abstract!Next
<1>a. call \in [Calls -> CallState]
  BY DEF IInv, TypeOK
<1>b. /\ call[c].pc = "new" /\ call[c].id = 0 /\ Stage[c] = "unsent"
      /\ Phase[c] = "idle"
  BY StageOf DEF Begin, IInv, CallShape, Unsent, Phase
<1>c. \A d \in Calls \ {c} : Stage'[d] = Stage[d]
  BY OthersKept
<1>1. CASE ~running
  <2> DEFINE r == [call[c] EXCEPT !.pc = "done", !.srv = s, !.result = "error"]
  <2>1. call' = [call EXCEPT ![c] = r]
    BY <1>1 DEF Begin
  <2>2. /\ r.pc = "done" /\ r.srv = s /\ r.result = "error"
        /\ r.from = call[c].from /\ r.id = 0
    BY <1>a, <1>b DEF CallState
  <2>3. Stage'[c] = "gone"
    BY <1>a, <2>1, <2>2, StageOf DEF Unsent
  <2> HIDE DEF r
  <2>4. Abstract!Refuse(c, s)
    BY <1>a, <1>b, <1>c, <2>1, <2>2, <2>3, OneMoves DEF Abstract!Refuse
  <2> QED
    BY <2>4 DEF Abstract!Next
<1>2. CASE running
  <2> DEFINE r == [call[c] EXCEPT !.pc = "lock", !.srv = s, !.id = nextID]
  <2>1. call' = [call EXCEPT ![c] = r]
    BY <1>2 DEF Begin
  <2>2. /\ r.pc = "lock" /\ r.srv = s /\ r.result = call[c].result
        /\ r.from = call[c].from
    BY <1>a DEF CallState
  <2>3. Stage'[c] = Stage[c]
    BY <1>a, <1>b, <2>1, <2>2, StageOf DEF Unsent
  <2> HIDE DEF r
  <2>4. Stage' = Stage
    BY <1>c, <2>3 DEF Stage
  <2>5. Abstract!Issue(c, s)
    BY <1>a, <1>b, <1>c, <2>1, <2>2, <2>4, OneMoves DEF Abstract!Issue
  <2> QED
    BY <2>5 DEF Abstract!Next
<1> QED
  BY <1>1, <1>2

(* A call that gives up, at whatever point, keeps what it knows of its     *)
(* request.                                                                *)
LEMMA GiveUpRefines ==
  ASSUME IInv, NEW c \in Calls,
         call[c].pc \in {"lock", "write", "wait"},
         \A d \in Calls \ {c} : Stage'[d] = Stage[d],
         call' = [call EXCEPT ![c] = [@ EXCEPT !.pc = "cleanup", !.result = "error"]],
         UNCHANGED <<reply, stdin, inbox, stdout, reader>>
  PROVE  Abstract!Next
<1>a. call \in [Calls -> CallState]
  BY DEF IInv, TypeOK
<1> DEFINE r == [call[c] EXCEPT !.pc = "cleanup", !.result = "error"]
<1>1. call' = [call EXCEPT ![c] = r]
  OBVIOUS
<1>2. /\ r.pc = "cleanup" /\ r.result = "error" /\ r.srv = call[c].srv
      /\ r.from = call[c].from /\ r.id = call[c].id
  BY <1>a DEF CallState
<1>b. call[c].id # 0
  BY DEF IInv, CallShape, InFlight
<1>3. (Sent(c)' <=> Sent(c)) /\ (Answered(c)' <=> Answered(c))
  BY <1>a, <1>1, <1>2 DEF Sent, Answered
<1>4. call'[c].pc = "cleanup" /\ call'[c].id # 0
  BY <1>a, <1>b, <1>1, <1>2
<1>5. Stage'[c] = IF Stage[c] = "unsent" THEN "gone" ELSE Stage[c]
  <2>1. CASE call[c].pc \in {"lock", "write"}
    <3>1. ~Sent(c) /\ ~Answered(c)
      BY <1>b, <2>1 DEF IInv, OnePlace, Sent, Answered, CallShape, Piped
    <3> QED
      BY <1>3, <1>4, <2>1, <3>1, StageOf DEF Unsent
  <2>2. CASE call[c].pc = "wait"
    BY <1>b, <1>3, <1>4, <2>2, StageOf DEF Unsent
  <2> QED
    BY <2>1, <2>2
<1>6. Phase[c] = "open"
  BY DEF Phase
<1> HIDE DEF r
<1>7. Stage' = [Stage EXCEPT ![c] = IF @ = "unsent" THEN "gone" ELSE @]
  <2>1. Stage' = [Stage EXCEPT ![c] = Stage'[c]]
    BY <1>a, <1>1, OneMoves
  <2> QED
    BY <1>5, <2>1 DEF Stage
<1>8. /\ Phase' = [Phase EXCEPT ![c] = "settled"]
      /\ [d \in Calls |-> call[d].srv]' = [d \in Calls |-> call[d].srv]
      /\ [d \in Calls |-> call[d].result]' =
            [[d \in Calls |-> call[d].result] EXCEPT ![c] = "error"]
      /\ [d \in Calls |-> call[d].from]' = [d \in Calls |-> call[d].from]
  <2>1. /\ Phase' = [Phase EXCEPT ![c] =
              IF r.pc = "new" THEN "idle"
              ELSE IF r.pc \in {"lock", "write", "wait"} THEN "open" ELSE "settled"]
        /\ [d \in Calls |-> call[d].srv]' =
              [[d \in Calls |-> call[d].srv] EXCEPT ![c] = r.srv]
        /\ [d \in Calls |-> call[d].result]' =
              [[d \in Calls |-> call[d].result] EXCEPT ![c] = r.result]
        /\ [d \in Calls |-> call[d].from]' =
              [[d \in Calls |-> call[d].from] EXCEPT ![c] = r.from]
    BY <1>a, <1>1, OneMoves
  <2>2. Phase' = [Phase EXCEPT ![c] = "settled"]
    BY <1>2, <2>1
  <2>3. [d \in Calls |-> call[d].srv]' = [d \in Calls |-> call[d].srv]
    BY <1>2, <2>1
  <2>4. [d \in Calls |-> call[d].from]' = [d \in Calls |-> call[d].from]
    BY <1>2, <2>1
  <2> QED
    BY <1>2, <2>1, <2>2, <2>3, <2>4
<1>9. Abstract!Fail(c)
  BY <1>6, <1>7, <1>8 DEF Abstract!Fail
<1> QED
  BY <1>9 DEF Abstract!Next

(* Taking writeMu, deleting the id and writing "initialized" are nothing   *)
(* to the caller.                                                          *)
LEMMA SilentRefines ==
  ASSUME IInv, NEW c \in Calls, NEW q,
         \/ call[c].pc = "lock" /\ q = "write"
         \/ call[c].pc \in {"cleanup", "notify", "notifying"}
              /\ q \in {"notify", "notifying", "done"},
         \A d \in Calls \ {c} : Stage'[d] = Stage[d],
         call' = [call EXCEPT ![c] = [@ EXCEPT !.pc = q]],
         UNCHANGED <<reply, inbox, stdout, reader>>,
         call[c].id # 0 => (Sent(c)' <=> Sent(c))
  PROVE  UNCHANGED Abstract!vars
<1>a. call \in [Calls -> CallState]
  BY DEF IInv, TypeOK
<1> DEFINE r == [call[c] EXCEPT !.pc = q]
<1>1. call' = [call EXCEPT ![c] = r]
  OBVIOUS
<1>2. /\ r.pc = q /\ r.result = call[c].result /\ r.srv = call[c].srv
      /\ r.from = call[c].from /\ r.id = call[c].id
  BY <1>a DEF CallState
<1>3. call'[c].id = call[c].id /\ call'[c].srv = call[c].srv /\ call'[c].pc = q
  BY <1>a, <1>1, <1>2
<1>4. Answered(c)' <=> Answered(c)
  BY <1>3 DEF Answered
<1>5. Stage'[c] = Stage[c]
  BY <1>3, <1>4, StageOf DEF Unsent
<1> HIDE DEF r
<1>6. Stage' = Stage
  BY <1>5 DEF Stage
<1>7. Phase' = Phase
  <2>1. Phase' = [Phase EXCEPT ![c] =
          IF r.pc = "new" THEN "idle"
          ELSE IF r.pc \in {"lock", "write", "wait"} THEN "open" ELSE "settled"]
    BY <1>a, <1>1, OneMoves
  <2> QED
    BY <1>2, <2>1 DEF Phase
<1>8. /\ [d \in Calls |-> call[d].srv]' = [d \in Calls |-> call[d].srv]
      /\ [d \in Calls |-> call[d].result]' = [d \in Calls |-> call[d].result]
      /\ [d \in Calls |-> call[d].from]' = [d \in Calls |-> call[d].from]
  BY <1>a, <1>1, <1>2, OneMoves, SMTT(30)
<1> QED
  BY <1>6, <1>7, <1>8 DEF Abstract!vars

(* A write is a step of Rpc, or none.                                      *)
LEMMA WriteRefines ==
  ASSUME IInv, NEW c \in Calls, WriteReturns(c)
  PROVE  Abstract!Next \/ UNCHANGED Abstract!vars
<1>a. /\ call \in [Calls -> CallState]
      /\ stdin \in [Servers -> SUBSET Nat]
  BY DEF IInv, TypeOK
<1>b. /\ call[c].pc \in {"write", "notifying"} /\ call[c].srv \in Servers
  BY DEF WriteReturns, IInv, CallShape
<1>c. /\ stdin' = [stdin EXCEPT ![call[c].srv] = @ \cup {Message(c)}]
      /\ UNCHANGED <<reply, inbox, stdout, reader>>
  BY DEF WriteReturns, chans
<1>d. \A d \in Calls \ {c} : Stage'[d] = Stage[d]
  BY OthersKept DEF CallStep
<1>1. CASE call[c].pc = "write"
  <2> DEFINE r == [call[c] EXCEPT !.pc = "wait"]
  <2>1. call' = [call EXCEPT ![c] = r]
    BY <1>1 DEF WriteReturns
  <2>2. /\ r.pc = "wait" /\ r.result = call[c].result /\ r.srv = call[c].srv
        /\ r.from = call[c].from /\ r.id = call[c].id
    BY <1>a DEF CallState
  <2>3. call'[c].id = call[c].id /\ call'[c].srv = call[c].srv /\ call'[c].pc = "wait"
    BY <1>a, <2>1, <2>2
  <2>4. call[c].id # 0
    BY <1>1 DEF IInv, CallShape, InFlight
  <2>5. Sent(c)'
    BY <1>1, <1>a, <1>b, <1>c, <2>3 DEF Sent, Message
  <2>6. Stage[c] = "unsent" /\ Stage'[c] = "sent"
    BY <1>1, <2>3, <2>4, <2>5, StageOf DEF Unsent
  <2> HIDE DEF r
  <2>7. Stage' = [Stage EXCEPT ![c] = "sent"]
    BY <1>d, <2>6 DEF Stage
  <2>8. Phase[c] = "open" /\ Phase' = Phase
    <3>1. Phase' = [Phase EXCEPT ![c] = "open"]
      BY <1>a, <1>d, <2>1, <2>2, OneMoves
    <3> QED
      BY <1>1, <3>1 DEF Phase
  <2>9. /\ [d \in Calls |-> call[d].srv]' = [d \in Calls |-> call[d].srv]
        /\ [d \in Calls |-> call[d].result]' = [d \in Calls |-> call[d].result]
        /\ [d \in Calls |-> call[d].from]' = [d \in Calls |-> call[d].from]
    BY <1>a, <1>d, <2>1, <2>2, OneMoves
  <2>10. Abstract!Send(c)
    BY <2>6, <2>7, <2>8, <2>9 DEF Abstract!Send
  <2> QED
    BY <2>10 DEF Abstract!Next
<1>2. CASE call[c].pc = "notifying"
  <2>1. call' = [call EXCEPT ![c] = [@ EXCEPT !.pc = "done"]]
    BY <1>2, <1>a DEF WriteReturns, CallState
  <2>2. call'[c].id = call[c].id /\ call'[c].srv = call[c].srv
    BY <1>a, <2>1 DEF CallState
  <2>3. call[c].id # 0 => (Sent(c)' <=> Sent(c))
    BY <1>2, <1>a, <1>b, <1>c, <2>2 DEF Sent, Message, InitializedId
  <2> QED
    BY <1>2, <1>c, <1>d, <2>1, <2>3, SilentRefines
<1> QED
  BY <1>b, <1>1, <1>2

(* A received response is a step of Rpc.                                   *)
LEMMA ReceiveRefines ==
  ASSUME IInv, NEW c \in Calls, Receive(c)
  PROVE  Abstract!Next
<1>a. /\ call \in [Calls -> CallState]
      /\ reply \in [Calls -> Servers \cup {None}]
  BY DEF IInv, TypeOK
<1>b. /\ call[c].pc = "wait" /\ reply[c] # None /\ call[c].id # 0
      /\ reply[c] = call[c].srv /\ call[c].srv \in Servers
  BY DEF Receive, IInv, CallShape, InFlight, ResponseMatchesRequest
<1>c. \A d \in Calls \ {c} : Stage'[d] = Stage[d]
  BY OthersKept DEF CallStep
<1>d. call[c].id \notin Piped(call[c].srv)
  BY <1>b DEF IInv, OnePlace
<1> DEFINE r == [call[c] EXCEPT !.pc = "cleanup", !.result = "response",
                                !.from = reply[c]]
<1>1. call' = [call EXCEPT ![c] = r] /\ reply' = [reply EXCEPT ![c] = None]
  BY DEF Receive
<1>2. /\ r.pc = "cleanup" /\ r.result = "response" /\ r.srv = call[c].srv
      /\ r.from = call[c].srv /\ r.id = call[c].id
  BY <1>a, <1>b DEF CallState
<1>3. /\ call'[c].id = call[c].id /\ call'[c].srv = call[c].srv
      /\ call'[c].pc = "cleanup" /\ reply'[c] = None
  BY <1>a, <1>1, <1>2
<1>4. UNCHANGED <<stdin, inbox, stdout, reader>>
  BY DEF Receive, world
<1>5. ~Sent(c) /\ ~Sent(c)' /\ ~Answered(c)' /\ Answered(c)
  BY <1>b, <1>d, <1>3, <1>4 DEF Sent, Answered, Piped
<1>6. Stage[c] = "answered" /\ Stage'[c] = "gone"
  BY <1>b, <1>3, <1>5, StageOf DEF Unsent
<1> HIDE DEF r
<1>7. Stage' = [Stage EXCEPT ![c] = "gone"]
  BY <1>c, <1>6 DEF Stage
<1>8. /\ Phase' = [Phase EXCEPT ![c] = "settled"]
      /\ [d \in Calls |-> call[d].srv]' = [d \in Calls |-> call[d].srv]
      /\ [d \in Calls |-> call[d].result]' =
            [[d \in Calls |-> call[d].result] EXCEPT ![c] = "response"]
      /\ [d \in Calls |-> call[d].from]' =
            [[d \in Calls |-> call[d].from] EXCEPT ![c] = call[c].srv]
  BY <1>a, <1>c, <1>1, <1>2, OneMoves
<1>9. Phase[c] = "open"
  BY <1>b DEF Phase
<1>10. Abstract!Accept(c)
  BY <1>6, <1>7, <1>8, <1>9 DEF Abstract!Accept
<1> QED
  BY <1>10 DEF Abstract!Next

(* So is every other step of a call, or none.                              *)
LEMMA CallRefines ==
  ASSUME IInv, NEW c \in Calls, MarshalFails(c) \/ CallStep(c)
  PROVE  Abstract!Next \/ UNCHANGED Abstract!vars
<1>a. call \in [Calls -> CallState]
  BY DEF IInv, TypeOK
<1>b. \A d \in Calls \ {c} : Stage'[d] = Stage[d]
  BY OthersKept
<1>c. UNCHANGED <<inbox, stdout, reader>>
  BY CallSide
<1>1. CASE MarshalFails(c) \/ ReceiveClosed(c) \/ Timeout(c)
  <2>1. /\ call[c].pc \in {"lock", "wait"}
        /\ call' = [call EXCEPT ![c].pc = "cleanup", ![c].result = "error"]
        /\ UNCHANGED <<reply, stdin>>
    BY <1>1 DEF MarshalFails, ReceiveClosed, Timeout, chans, world
  <2>2. call' = [call EXCEPT ![c] = [@ EXCEPT !.pc = "cleanup", !.result = "error"]]
    BY <1>a, <2>1 DEF CallState
  <2> QED
    BY <1>b, <1>c, <2>1, <2>2, GiveUpRefines
<1>2. CASE WriteFails(c)
  <2>1. UNCHANGED <<reply, stdin>>
    BY <1>2 DEF WriteFails, chans, world
  <2>2. CASE call[c].pc = "write"
    <3>1. call' = [call EXCEPT ![c] = [@ EXCEPT !.pc = "cleanup", !.result = "error"]]
      BY <1>2, <2>2 DEF WriteFails
    <3> QED
      BY <1>b, <1>c, <2>1, <2>2, <3>1, GiveUpRefines
  <2>3. CASE call[c].pc = "notifying"
    <3>1. call' = [call EXCEPT ![c] = [@ EXCEPT !.pc = "done"]]
      BY <1>2, <2>3 DEF WriteFails
    <3>2. Sent(c)' <=> Sent(c)
      BY <1>a, <1>c, <2>1, <3>1 DEF Sent, CallState
    <3> QED
      BY <1>b, <1>c, <2>1, <2>3, <3>1, <3>2, SilentRefines
  <2> QED
    BY <1>2, <2>2, <2>3 DEF WriteFails, IInv, CallShape
<1>3. CASE LockWrite(c)
  <2>1. UNCHANGED <<reply, stdin>>
    BY <1>3 DEF LockWrite, chans, world
  <2>2. PICK q : /\ call' = [call EXCEPT ![c].pc = q]
                 /\ \/ call[c].pc = "lock" /\ q = "write"
                    \/ call[c].pc = "notify" /\ q = "notifying"
    BY <1>3 DEF LockWrite
  <2>3. call' = [call EXCEPT ![c] = [@ EXCEPT !.pc = q]]
    BY <1>a, <2>2 DEF CallState
  <2>4. Sent(c)' <=> Sent(c)
    BY <1>a, <1>c, <2>1, <2>3 DEF Sent, CallState
  <2> QED
    BY <1>b, <1>c, <2>1, <2>2, <2>3, <2>4, SilentRefines
<1>4. CASE Cleanup(c)
  <2>1. UNCHANGED <<reply, stdin>>
    BY <1>4 DEF Cleanup, chans, world
  <2>2. PICK q \in {"done", "notify"} : call' = [call EXCEPT ![c].pc = q]
    BY <1>4 DEF Cleanup
  <2>3. call' = [call EXCEPT ![c] = [@ EXCEPT !.pc = q]]
    BY <1>a, <2>2 DEF CallState
  <2>4. Sent(c)' <=> Sent(c)
    BY <1>a, <1>c, <2>1, <2>3 DEF Sent, CallState
  <2>5. call[c].pc = "cleanup"
    BY <1>4 DEF Cleanup
  <2> QED
    BY <1>b, <1>c, <2>1, <2>2, <2>3, <2>4, <2>5, SilentRefines
<1>5. CASE WriteReturns(c)
  BY <1>5, WriteRefines
<1>6. CASE Receive(c)
  BY <1>6, ReceiveRefines
<1> QED
  BY <1>1, <1>2, <1>3, <1>4, <1>5, <1>6 DEF CallStep

(* Stop is none.                                                           *)
LEMMA StopRefines ==
  ASSUME Stop \/ UNCHANGED vars PROVE UNCHANGED Abstract!vars
<1>1. UNCHANGED <<call, reply, stdin, inbox, stdout, reader>>
  BY DEF Stop, vars, world, chans
<1>2. Stage' = Stage
  BY <1>1 DEF Stage, Sent, Answered
<1> QED
  BY <1>1, <1>2, CallsKept DEF Abstract!vars

-----------------------------------------------------------------------------
(* The whole refinement: initial states map to initial states, and every   *)
(* step of readers, servers, calls and Stop is an abstract step or none.   *)
(* So the run's at-most-once property holds for any number of servers and  *)
(* calls (proxy.go:122-181, 319-383).                                      *)
THEOREM Refines == Spec => AtMostOnceCalls
<1>1. Init => Abstract!Init
  <2> SUFFICES ASSUME Init PROVE Abstract!Init
    OBVIOUS
  <2>1. \A c \in Calls : call[c] = [pc |-> "new", id |-> 0, srv |-> None,
                                    result |-> "none", from |-> None]
    BY DEF Init
  <2> QED
    BY <2>1 DEF Abstract!Init, Phase, Stage
<1>2. IInv /\ [Next]_vars => [Abstract!Next]_(Abstract!vars)
  <2> SUFFICES ASSUME IInv, [Next]_vars
               PROVE  Abstract!Next \/ UNCHANGED Abstract!vars
    OBVIOUS
  <2> QED
    BY ReaderRefines, ServerRefines, BeginRefines, CallRefines, StopRefines DEF Next
<1> QED
  BY Invariant, <1>1, <1>2, PTL DEF Spec, AtMostOnceCalls, Abstract!Spec
=============================================================================
