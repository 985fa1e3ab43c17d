----------------------------- MODULE BrokerCall -----------------------------
(***************************************************************************)
(* Broker.Call (broker.go): the decision of the permission matrix, the     *)
(* request over HTTP or through the shared stdio proxy, and the one audit  *)
(* record of the call, while the matrix changes and the audit writer is    *)
(* closed at any time.  The transports are what MCPProxy is shown to       *)
(* implement (Rpc): a request is executed at most once, and an error says  *)
(* nothing about whether it was.  The audit writer is what AuditWriter is  *)
(* shown to implement (Log).                                               *)
(***************************************************************************)
EXTENDS AccessControl, Naturals, Sequences, Functions, FiniteSets

CONSTANTS Calls,      (* calls of Broker.Call                              *)
          AuditFaulty (* the sink of the audit writer may break            *)

ASSUME FaultyAssumption == AuditFaulty \in BOOLEAN

VARIABLES
  call,     \* the locals of every call
  request,  \* its request: "none", "sent" or "executed" by the server
  earlier,  \* history: the calls that had returned when it began
  denials,  \* history: what CanAccess could have said since it began
  closed,   \* the audit writer takes no more records
  refused,  \* calls whose record came after that
  accepted, due, log, broken, sealed, \* of the audit log
  crashed   \* the Go runtime found two goroutines in the map

auditLog == <<accepted, due, log, broken, sealed>>
calling == <<call, request, earlier>>
callVars == <<vars, calling, denials, closed, refused, auditLog, crashed>>

Outcomes == {"denied", "error", "ok"}

CallState == [pc      : {"idle", "check", "hints", "route", "send", "wait",
                         "audit", "returned"},
              role    : Roles,
              server  : Servers,
              outcome : Outcomes \cup {"none"},
              hints   : SUBSET Servers]  \* ErrUnauthorized.AvailableServers

Records == [call : Calls, outcome : Outcomes]

Audit == INSTANCE Log WITH Faulty <- AuditFaulty

CallTypeOK ==
  /\ TypeOK
  /\ call \in [Calls -> CallState]
  /\ request \in [Calls -> {"none", "sent", "executed"}]
  /\ earlier \in [Calls -> SUBSET Calls]
  /\ denials \in [Calls -> SUBSET BOOLEAN]
  /\ closed \in BOOLEAN /\ broken \in BOOLEAN /\ sealed \in BOOLEAN
  /\ crashed \in BOOLEAN
  /\ refused \subseteq Calls
  /\ accepted \in Seq(Records) /\ due \in Seq(Records) /\ log \in Seq(Records)

CallInit ==
  /\ Init
  /\ \E role \in Roles, server \in Servers :
       call = [c \in Calls |-> [pc |-> "idle", role |-> role, server |-> server,
                                outcome |-> "none", hints |-> {}]]
  /\ request = [c \in Calls |-> "none"]
  /\ earlier = [c \in Calls |-> {}]
  /\ denials = [c \in Calls |-> {}]
  /\ closed = FALSE /\ refused = {} /\ crashed = FALSE
  /\ Audit!Init

Returned == {c \in Calls : call[c].pc = "returned"}
Denied(c) == ~CanAccess(call[c].role, call[c].server)

-----------------------------------------------------------------------------
Begin(c) ==
  /\ call[c].pc = "idle"
  /\ \E role \in Roles, server \in Servers :
       /\ call' = [call EXCEPT ![c].pc = "check", ![c].role = role,
                               ![c].server = server]
       /\ denials' = [denials EXCEPT ![c] = {~CanAccess(role, server)}]
  /\ earlier' = [earlier EXCEPT ![c] = Returned]
  /\ UNCHANGED <<vars, request, closed, refused, auditLog, crashed>>

(* Mutant: it is enough that some role may call the server. *)
CheckAnybody(c) ==
  /\ call[c].pc = "check"
  /\ call' = [call EXCEPT ![c].pc =
                 IF \A role \in Roles : ~CanAccess(role, call[c].server)
                 THEN "hints" ELSE "route"]
  /\ UNCHANGED <<vars, request, earlier, denials, closed, refused, auditLog, crashed>>

(* The decision. *)
Check(c) ==
  /\ call[c].pc = "check"
  /\ call' = [call EXCEPT ![c].pc = IF Denied(c) THEN "hints" ELSE "route"]
  /\ UNCHANGED <<vars, request, earlier, denials, closed, refused, auditLog, crashed>>

(* A refusal lists the servers the role may call, by then. *)
Refuse(c) ==
  /\ call[c].pc = "hints"
  /\ call' = [call EXCEPT ![c].pc = "audit", ![c].outcome = "denied",
                          ![c].hints = GetAccessibleServers(call[c].role)]
  /\ UNCHANGED <<vars, request, earlier, denials, closed, refused, auditLog, crashed>>

Fail(c) == call' = [call EXCEPT ![c].pc = "audit", ![c].outcome = "error"]

(* There is an HTTP client, or the entry has pipes, or there is none: the  *)
(* operations of ServerLifecycle may change either at any time.            *)
Route(c) ==
  /\ call[c].pc = "route"
  /\ Fail(c) \/ call' = [call EXCEPT ![c].pc = "send"]
  /\ UNCHANGED <<vars, request, earlier, denials, closed, refused, auditLog, crashed>>

(* The request leaves, over either transport. *)
Send(c) ==
  /\ call[c].pc = "send"
  /\ call' = [call EXCEPT ![c].pc = "wait"]
  /\ request' = [request EXCEPT ![c] = "sent"]
  /\ UNCHANGED <<vars, earlier, denials, closed, refused, auditLog, crashed>>

(* The server executes it, possibly after the caller has given up. *)
Executes(c) ==
  /\ request[c] = "sent"
  /\ request' = [request EXCEPT ![c] = "executed"]
  /\ UNCHANGED <<vars, call, earlier, denials, closed, refused, auditLog, crashed>>

(* An answer; or none in time, a lost connection, or an error of the tool. *)
Receive(c) ==
  /\ call[c].pc \in {"send", "wait"}
  /\ \/ Fail(c)
     \/ /\ request[c] = "executed"
        /\ call' = [call EXCEPT ![c].pc = "audit", ![c].outcome = "ok"]
  /\ UNCHANGED <<vars, request, earlier, denials, closed, refused, auditLog, crashed>>

(* Mutant: a refused call leaves no record. *)
AnswersOnly(c) == call[c].outcome # "denied"

(* Every call that gets here is recorded. *)
Recorded(c) == TRUE

(* Mutant: the record is built before the call has an outcome. *)
RecordBefore(c) == [call |-> c, outcome |-> "none"]

RecordOf(c) == [call |-> c, outcome |-> call[c].outcome]

(* auditWriter.Write, and Call returns. *)
Return(c) ==
  /\ call[c].pc = "audit"
  /\ call' = [call EXCEPT ![c].pc = "returned"]
  /\ CASE ~Recorded(c) -> UNCHANGED <<refused, auditLog>>
       [] closed       -> refused' = refused \cup {c} /\ UNCHANGED auditLog
       [] OTHER        -> Audit!Accept(RecordOf(c)) /\ UNCHANGED refused
  /\ UNCHANGED <<vars, request, earlier, denials, closed, crashed>>

-----------------------------------------------------------------------------
(* Whoever has the matrix from Broker.AccessControl changes it; no lock    *)
(* orders that and the two reads of a call.                                *)
Change ==
  /\ Next
  /\ UNCHANGED <<calling, closed, refused, auditLog, crashed>>
  /\ denials' = [c \in Calls |->
                   IF call[c].pc = "idle" THEN {} ELSE denials[c] \cup {Denied(c)'}]

(* When they overlap, the runtime may notice and end the process. *)
MapRace ==
  /\ \E c \in Calls : /\ call[c].pc \in {"check", "hints"}
                      /\ call[c].role # Orchestrator
  /\ crashed' = TRUE
  /\ UNCHANGED <<vars, calling, denials, closed, refused, auditLog>>

CloseWriter ==
  /\ ~closed
  /\ closed' = TRUE
  /\ UNCHANGED <<vars, calling, denials, refused, auditLog, crashed>>

(* The writer writes or loses what is due; Close seals the log. *)
LogStep ==
  /\ \/ \E n \in 1 .. Len(due) : Audit!Put(n) \/ Audit!Lose(n)
     \/ closed /\ Audit!Seal
  /\ UNCHANGED <<vars, calling, denials, closed, refused, crashed>>

CallStep(c) == \/ Check(c) \/ Refuse(c) \/ Route(c) \/ Send(c) \/ Receive(c)
               \/ Return(c)

CallNext ==
  /\ ~crashed
  /\ \/ \E c \in Calls : Begin(c) \/ CallStep(c) \/ Executes(c)
     \/ Change \/ MapRace \/ CloseWriter \/ LogStep

CallSpec == CallInit /\ [][CallNext]_callVars

(* The audit writer writes what it holds, as AuditWriter is shown to do.   *)
(* A call need not return: its request may block before any timer is set.  *)
CallFairness == WF_callVars(~crashed /\ LogStep)

FairCallSpec == CallSpec /\ CallFairness
-----------------------------------------------------------------------------
(* A role that could not call the server from the beginning of a call to   *)
(* its end is refused, and nothing is sent; one that could all the time is *)
(* never refused, however the matrix changes in between                    *)
(* (broker.go:493-506, access.go:99-200).                                  *)
DecisionIsTimely ==
  \A c \in Calls :
    /\ denials[c] = {TRUE} => /\ request[c] = "none"
                              /\ call[c].outcome \in {"none", "denied"}
    /\ denials[c] = {FALSE} => call[c].outcome # "denied"

(* The trail of the calls: a call that returned left one record, with the  *)
(* outcome its caller saw, unless the writer was closed; a call that has   *)
(* not left none; and the record of a call that had returned before        *)
(* another began comes first (broker.go:493-506, 553-563, audit.go:201-214)*)
OneRecordPerCall ==
  /\ \A c \in Returned \ refused : \E i \in DOMAIN accepted : accepted[i] = RecordOf(c)
  /\ \A i, j \in DOMAIN accepted :
       /\ accepted[i].call \in Returned \ refused
       /\ accepted[i].call = accepted[j].call => i = j
       /\ accepted[j].call \in earlier[accepted[i].call] => j < i

(* The record of a call that returned gets to the log, unless the writer   *)
(* was closed before, the sink broke or the process died.                  *)
RecordArrives ==
  \A c \in Calls :
    c \in Returned ~> c \in refused \/ broken \/ crashed \/ RecordOf(c) \in Range(log)
=============================================================================
