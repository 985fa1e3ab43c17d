--------------------------- MODULE BrokerCallProofs ---------------------------
(***************************************************************************)
(* Proofs of the safety properties of BrokerCall, for every set of calls,  *)
(* roles and servers, every initial matrix and any sequence of grants and  *)
(* revocations between the steps of the calls.                             *)
(***************************************************************************)
EXTENDS BrokerCall, AccessControlProofs, SequenceTheorems

(* What the program counter of a call says of its other fields. *)
Shape(c) ==
  /\ call[c].pc = "idle" => denials[c] = {} /\ earlier[c] = {}
  /\ call[c].pc \in {"idle", "check", "hints", "route", "send"} => request[c] = "none"
  /\ call[c].outcome = "none" <=> call[c].pc \notin {"audit", "returned"}

(* CanAccess said yes. *)
Admitted(c) == \/ call[c].pc \in {"route", "send", "wait"}
               \/ request[c] # "none"
               \/ call[c].outcome \in {"error", "ok"}

(* Where a call got to says what CanAccess could answer on the way. *)
Decided(c) ==
  /\ call[c].pc # "idle" => Denied(c) \in denials[c]
  /\ Admitted(c) => FALSE \in denials[c]
  /\ call[c].pc = "hints" \/ call[c].outcome = "denied" => TRUE \in denials[c]

(* Only calls that returned are looked back at, refused a record or logged. *)
Past == /\ refused \subseteq Returned
        /\ \A c \in Calls : earlier[c] \subseteq Returned

CallIInv ==
  /\ CallTypeOK
  /\ \A c \in Calls : Shape(c) /\ Decided(c)
  /\ Past
  /\ OneRecordPerCall

-----------------------------------------------------------------------------
(* Types *)

(* The calls are records with these fields. *)
LEMMA CallFields ==
  ASSUME CallTypeOK, NEW c \in Calls
  PROVE  /\ call[c] \in CallState
         /\ call[c].pc \in {"idle", "check", "hints", "route", "send", "wait",
                            "audit", "returned"}
         /\ call[c].role \in Roles /\ call[c].server \in Servers
         /\ call[c].outcome \in Outcomes \cup {"none"}
<1>1. call[c] \in CallState
  BY DEF CallTypeOK
<1>2. QED
  BY <1>1 DEF CallState

(* A record of a call with an outcome is an audit record. *)
LEMMA RecordType ==
  ASSUME CallTypeOK, NEW c \in Calls, call[c].outcome \in Outcomes
  PROVE  RecordOf(c) \in Records
BY DEF RecordOf, Records

(* A list a refusal names is a set of servers. *)
LEMMA HintsType ==
  ASSUME CallTypeOK, NEW role \in Roles
  PROVE  GetAccessibleServers(role) \subseteq Servers
<1>1. DOMAIN serverRoles \subseteq Servers
  BY MatrixElim DEF CallTypeOK, TypeOK
<1>2. QED
  BY <1>1 DEF GetAccessibleServers

(* Grant and Revoke keep the types of the matrix. *)
LEMMA MatrixStep ==
  ASSUME TypeOK, Next
  PROVE  TypeOK'
<1>1. PICK role \in Roles, server \in Servers :
        Grant(role, server) \/ Revoke(role, server)
  BY DEF Next
<1>2. CASE Grant(role, server)
  <2>1. serverRoles' \in Matrices
    BY <1>2, GrantEffect
  <2>2. QED
    BY <1>2, <2>1 DEF Grant, TypeOK
<1>3. CASE Revoke(role, server)
  <2>1. serverRoles' \in Matrices
    BY <1>3, RevokeEffect
  <2>2. QED
    BY <1>3, <2>1 DEF Revoke, TypeOK
<1>4. QED
  BY <1>1, <1>2, <1>3

(* The conjuncts of CallTypeOK that speak of the calls. *)
CallsTyped == /\ call \in [Calls -> CallState]
              /\ request \in [Calls -> {"none", "sent", "executed"}]
              /\ earlier \in [Calls -> SUBSET Calls]
              /\ denials \in [Calls -> SUBSET BOOLEAN]
              /\ refused \subseteq Calls

LogTyped == accepted \in Seq(Records) /\ due \in Seq(Records) /\ log \in Seq(Records)

(* Replacing the fields of one call leaves the others alone. *)
LEMMA Replaced ==
  ASSUME CallTypeOK, NEW c \in Calls, NEW r \in CallState,
         call' = [call EXCEPT ![c] = r]
  PROVE  /\ call' \in [Calls -> CallState]
         /\ call'[c] = r
         /\ \A d \in Calls \ {c} : call'[d] = call[d]
BY DEF CallTypeOK

Places == {"idle", "check", "hints", "route", "send", "wait", "audit", "returned"}

(* A step that moves the program counter. *)
LEMMA Moved ==
  ASSUME CallTypeOK, NEW c \in Calls, NEW p \in Places,
         call' = [call EXCEPT ![c].pc = p]
  PROVE  /\ call' \in [Calls -> CallState]
         /\ call'[c].pc = p /\ call'[c].outcome = call[c].outcome
         /\ call'[c].role = call[c].role /\ call'[c].server = call[c].server
         /\ \A d \in Calls \ {c} : call'[d] = call[d]
<1> DEFINE r == [call[c] EXCEPT !.pc = p]
<1>1. call[c] \in CallState
  BY CallFields
<1>2. /\ r \in CallState
      /\ r.pc = p /\ r.outcome = call[c].outcome
      /\ r.role = call[c].role /\ r.server = call[c].server
  BY <1>1 DEF CallState, Places
<1>3. call' = [call EXCEPT ![c] = r]
  BY DEF CallTypeOK
<1> HIDE DEF r
<1>4. QED
  BY <1>2, <1>3, Replaced

(* A step that also settles the outcome. *)
LEMMA Settled ==
  ASSUME CallTypeOK, NEW c \in Calls, NEW o \in Outcomes,
         call' = [call EXCEPT ![c].pc = "audit", ![c].outcome = o]
  PROVE  /\ call' \in [Calls -> CallState]
         /\ call'[c].pc = "audit" /\ call'[c].outcome = o
         /\ call'[c].role = call[c].role /\ call'[c].server = call[c].server
         /\ \A d \in Calls \ {c} : call'[d] = call[d]
<1> DEFINE r == [call[c] EXCEPT !.pc = "audit", !.outcome = o]
<1>1. call[c] \in CallState
  BY CallFields
<1>2. /\ r \in CallState
      /\ r.pc = "audit" /\ r.outcome = o
      /\ r.role = call[c].role /\ r.server = call[c].server
  BY <1>1 DEF CallState
<1>3. call' = [call EXCEPT ![c] = r]
  BY DEF CallTypeOK
<1> HIDE DEF r
<1>4. QED
  BY <1>2, <1>3, Replaced

(* A refusal settles the outcome and keeps a list of servers. *)
LEMMA Refused ==
  ASSUME CallTypeOK, NEW c \in Calls, Refuse(c)
  PROVE  /\ call' \in [Calls -> CallState]
         /\ call'[c].pc = "audit" /\ call'[c].outcome = "denied"
         /\ call'[c].role = call[c].role /\ call'[c].server = call[c].server
         /\ \A d \in Calls \ {c} : call'[d] = call[d]
<1> DEFINE h == GetAccessibleServers(call[c].role)
           r == [call[c] EXCEPT !.pc = "audit", !.outcome = "denied", !.hints = h]
<1>1. call[c] \in CallState /\ call[c].role \in Roles
  BY CallFields
<1>2. h \in SUBSET Servers
  BY <1>1, HintsType
<1>3. call' = [call EXCEPT ![c].pc = "audit", ![c].outcome = "denied", ![c].hints = h]
  BY DEF Refuse
<1> HIDE DEF h
<1>4. /\ r \in CallState
      /\ r.pc = "audit" /\ r.outcome = "denied"
      /\ r.role = call[c].role /\ r.server = call[c].server
  BY <1>1, <1>2 DEF CallState, Outcomes
<1>5. call' = [call EXCEPT ![c] = r]
  BY <1>3 DEF CallTypeOK
<1> HIDE DEF r
<1>6. QED
  BY <1>4, <1>5, Replaced

(* A call begins for some role and server and asks CanAccess about them. *)
LEMMA Begun ==
  ASSUME CallTypeOK, NEW c \in Calls, Begin(c)
  PROVE  /\ call' \in [Calls -> CallState]
         /\ call'[c].pc = "check" /\ call'[c].outcome = call[c].outcome
         /\ denials'[c] = {Denied(c)'}
         /\ \A d \in Calls \ {c} : call'[d] = call[d]
<1>1. PICK role \in Roles, server \in Servers :
        /\ call' = [call EXCEPT ![c].pc = "check", ![c].role = role,
                                ![c].server = server]
        /\ denials' = [denials EXCEPT ![c] = {~CanAccess(role, server)}]
  BY DEF Begin
<1> DEFINE r == [call[c] EXCEPT !.pc = "check", !.role = role, !.server = server]
<1>2. call[c] \in CallState
  BY CallFields
<1>3. /\ r \in CallState
      /\ r.pc = "check" /\ r.outcome = call[c].outcome
      /\ r.role = role /\ r.server = server
  BY <1>2 DEF CallState
<1>4. call' = [call EXCEPT ![c] = r]
  BY <1>1 DEF CallTypeOK
<1> HIDE DEF r
<1>5. /\ call' \in [Calls -> CallState]
      /\ call'[c] = r
      /\ \A d \in Calls \ {c} : call'[d] = call[d]
  BY <1>3, <1>4, Replaced
<1>6. denials'[c] = {~CanAccess(role, server)}
  BY <1>1 DEF CallTypeOK
<1>7. Denied(c)' = ~CanAccess(role, server)
  BY <1>3, <1>5 DEF Begin, Denied, CanAccess, vars
<1>8. QED
  BY <1>3, <1>5, <1>6, <1>7

(* A record that is accepted goes to the end of both sequences. *)
LEMMA AcceptEffect ==
  ASSUME CallTypeOK, NEW r \in Records, Audit!Accept(r)
  PROVE  LogTyped'
BY DEF Audit!Accept, CallTypeOK, LogTyped

(* A turn of the log keeps its sequences typed. *)
LEMMA LogStepTypes ==
  ASSUME CallTypeOK, LogStep
  PROVE  LogTyped' /\ broken' \in BOOLEAN /\ sealed' \in BOOLEAN
<1>1. accepted \in Seq(Records) /\ due \in Seq(Records) /\ log \in Seq(Records)
  BY DEF CallTypeOK
<1>2. ASSUME NEW n \in 1 .. Len(due)
      PROVE  /\ SubSeq(due, n + 1, Len(due)) \in Seq(Records)
             /\ SubSeq(due, 1, n) \in Seq(Records)
  <2>1. Len(due) \in Nat /\ \A i \in 1 .. Len(due) : due[i] \in Records
    BY <1>1, LenProperties, ElementOfSeq
  <2>2. n \in Int /\ n + 1 \in Int /\ Len(due) \in Int
    BY <2>1
  <2>3. \A i \in (n + 1) .. Len(due) : due[i] \in Records
    BY <2>1
  <2>4. \A i \in 1 .. n : due[i] \in Records
    BY <2>1
  <2>5. SubSeq(due, n + 1, Len(due)) \in Seq(Records)
    BY <2>2, <2>3, SubSeqProperties
  <2>6. SubSeq(due, 1, n) \in Seq(Records)
    BY <2>2, <2>4, SubSeqProperties
  <2>7. QED
    BY <2>5, <2>6
<1>3. CASE closed /\ Audit!Seal
  BY <1>1, <1>3 DEF Audit!Seal, LogTyped, CallTypeOK
<1>4. CASE \E n \in 1 .. Len(due) : Audit!Put(n) \/ Audit!Lose(n)
  <2>1. PICK n \in 1 .. Len(due) : Audit!Put(n) \/ Audit!Lose(n)
    BY <1>4
  <2>2. CASE Audit!Put(n)
    <3>1. log \o SubSeq(due, 1, n) \in Seq(Records)
      BY <1>1, <1>2, ConcatProperties
    <3>2. QED
      BY <1>1, <1>2, <2>2, <3>1
      DEF Audit!Put, Audit!Turn, LogTyped, CallTypeOK
  <2>3. CASE Audit!Lose(n)
    BY <1>1, <1>2, <2>3 DEF Audit!Lose, Audit!Turn, LogTyped, CallTypeOK
  <2>4. QED
    BY <2>1, <2>2, <2>3
<1>5. QED
  BY <1>3, <1>4 DEF LogStep

-----------------------------------------------------------------------------
(* Frames *)

(* A step of one call leaves the matrix and the other calls alone. *)
LEMMA Frame ==
  ASSUME CallTypeOK, NEW c \in Calls, Begin(c) \/ CallStep(c) \/ Executes(c)
  PROVE  /\ UNCHANGED vars
         /\ call' \in [Calls -> CallState]
         /\ \A d \in Calls \ {c} : /\ call'[d] = call[d]
                                    /\ request'[d] = request[d]
                                    /\ denials'[d] = denials[d]
                                    /\ earlier'[d] = earlier[d]
<1> USE DEF Places, Outcomes
<1>1. CASE Begin(c)
  BY <1>1, Begun DEF Begin, CallTypeOK
<1>2. CASE Check(c)
  <2>1. \E p \in Places : call' = [call EXCEPT ![c].pc = p]
    BY <1>2 DEF Check
  <2>2. QED
    BY <1>2, <2>1, Moved DEF Check
<1>3. CASE Refuse(c)
  BY <1>3, Refused DEF Refuse
<1>4. CASE Route(c)
  <2>1. CASE Fail(c)
    BY <1>4, <2>1, Settled DEF Route, Fail
  <2>2. CASE call' = [call EXCEPT ![c].pc = "send"]
    BY <1>4, <2>2, Moved DEF Route
  <2>3. QED
    BY <1>4, <2>1, <2>2 DEF Route
<1>5. CASE Send(c)
  <2>1. call' = [call EXCEPT ![c].pc = "wait"] /\ request' = [request EXCEPT ![c] = "sent"]
    BY <1>5 DEF Send
  <2>2. call' \in [Calls -> CallState]
    BY <2>1, Moved
  <2>3. QED
    BY <1>5, <2>1, <2>2 DEF Send, CallTypeOK
<1>6. CASE Receive(c)
  <2>1. \E o \in Outcomes : call' = [call EXCEPT ![c].pc = "audit", ![c].outcome = o]
    BY <1>6 DEF Receive, Fail
  <2>2. QED
    BY <1>6, <2>1, Settled DEF Receive
<1>7. CASE Return(c)
  BY <1>7, Moved DEF Return
<1>8. CASE Executes(c)
  BY <1>8 DEF Executes, CallTypeOK
<1>9. QED
  BY <1>1, <1>2, <1>3, <1>4, <1>5, <1>6, <1>7, <1>8 DEF CallStep

(* What the steps of a call do to its own variables. *)
LEMMA CheckEffect ==
  ASSUME CallTypeOK, NEW c \in Calls, Check(c)
  PROVE  /\ call[c].pc = "check"
         /\ call'[c].pc = IF Denied(c) THEN "hints" ELSE "route"
         /\ call'[c].outcome = call[c].outcome
         /\ call'[c].role = call[c].role /\ call'[c].server = call[c].server
<1> DEFINE p == IF Denied(c) THEN "hints" ELSE "route"
<1>1. p \in Places /\ call' = [call EXCEPT ![c].pc = p]
  BY DEF Check, Places
<1> HIDE DEF p
<1>2. call'[c].pc = p /\ call'[c].outcome = call[c].outcome
      /\ call'[c].role = call[c].role /\ call'[c].server = call[c].server
  BY <1>1, Moved
<1>3. QED
  BY <1>2 DEF Check, p

(* The shape and the decision of a call hold after its own step. *)
LEMMA OwnStep ==
  ASSUME CallTypeOK, NEW c \in Calls, Begin(c) \/ CallStep(c) \/ Executes(c),
         Shape(c), Decided(c)
  PROVE  Shape(c)' /\ Decided(c)'
<1> USE DEF Places, Outcomes, Shape, Decided, Admitted
<1>0. /\ UNCHANGED vars
      /\ denials \in [Calls -> SUBSET BOOLEAN]
      /\ request \in [Calls -> {"none", "sent", "executed"}]
      /\ earlier \in [Calls -> SUBSET Calls]
      /\ Denied(c) \in BOOLEAN
      /\ call[c].outcome \in Outcomes \cup {"none"}
  BY Frame, CallFields DEF Denied, CallTypeOK
<1>a. ASSUME call'[c].role = call[c].role, call'[c].server = call[c].server
      PROVE  Denied(c)' = Denied(c)
  BY <1>0, <1>a DEF Denied, CanAccess, vars
<1>1. CASE Begin(c)
  <2>1. /\ call[c].pc = "idle" /\ call'[c].pc = "check"
        /\ call'[c].outcome = call[c].outcome
        /\ UNCHANGED request
        /\ denials'[c] = {Denied(c)'}
    BY <1>1, Begun DEF Begin
  <2>2. QED
    BY <2>1
<1>2. CASE Check(c)
  <2>1. /\ call[c].pc = "check"
        /\ call'[c].pc = IF Denied(c) THEN "hints" ELSE "route"
        /\ call'[c].outcome = call[c].outcome
        /\ Denied(c)' = Denied(c)
    BY <1>2, <1>a, CheckEffect
  <2>2. UNCHANGED <<request, denials, earlier>>
    BY <1>2 DEF Check
  <2>3. CASE Denied(c)
    BY <2>1, <2>2, <2>3, <1>0
  <2>4. CASE ~Denied(c)
    BY <2>1, <2>2, <2>4, <1>0
  <2>5. QED
    BY <2>3, <2>4
<1>3. CASE Refuse(c)
  <2>1. /\ call[c].pc = "hints" /\ call'[c].pc = "audit"
        /\ call'[c].outcome = "denied"
        /\ Denied(c)' = Denied(c)
        /\ UNCHANGED <<request, denials, earlier>>
    BY <1>3, <1>a, Refused DEF Refuse
  <2>2. QED
    BY <2>1
<1>4. CASE Route(c)
  <2>1. call[c].pc = "route" /\ UNCHANGED <<request, denials, earlier>>
    BY <1>4 DEF Route
  <2>2. CASE Fail(c)
    <3>1. /\ call'[c].pc = "audit" /\ call'[c].outcome = "error"
          /\ Denied(c)' = Denied(c)
      BY <2>2, <1>a, Settled DEF Fail
    <3>2. QED
      BY <2>1, <3>1
  <2>3. CASE call' = [call EXCEPT ![c].pc = "send"]
    <3>1. /\ call'[c].pc = "send" /\ call'[c].outcome = call[c].outcome
          /\ Denied(c)' = Denied(c)
      BY <2>3, <1>a, Moved
    <3>2. QED
      BY <2>1, <3>1
  <2>4. QED
    BY <1>4, <2>2, <2>3 DEF Route
<1>5. CASE Send(c)
  <2>1. /\ call[c].pc = "send" /\ call'[c].pc = "wait"
        /\ call'[c].outcome = call[c].outcome
        /\ Denied(c)' = Denied(c)
        /\ UNCHANGED <<denials, earlier>>
    BY <1>5, <1>a, Moved DEF Send
  <2>2. QED
    BY <2>1
<1>6. CASE Receive(c)
  <2>1. PICK o \in {"error", "ok"} :
          call' = [call EXCEPT ![c].pc = "audit", ![c].outcome = o]
    BY <1>6 DEF Receive, Fail
  <2>2. /\ call'[c].pc = "audit" /\ call'[c].outcome = o
        /\ Denied(c)' = Denied(c)
    BY <2>1, <1>a, Settled
  <2>3. call[c].pc \in {"send", "wait"} /\ UNCHANGED <<request, denials, earlier>>
    BY <1>6 DEF Receive
  <2>4. QED
    BY <2>2, <2>3
<1>7. CASE Return(c)
  <2>1. /\ call[c].pc = "audit" /\ call'[c].pc = "returned"
        /\ call'[c].outcome = call[c].outcome
        /\ Denied(c)' = Denied(c)
        /\ UNCHANGED <<request, denials, earlier>>
    BY <1>7, <1>a, Moved DEF Return
  <2>2. QED
    BY <2>1
<1>8. CASE Executes(c)
  <2>1. /\ request[c] = "sent" /\ UNCHANGED <<call, denials, earlier>>
    BY <1>8 DEF Executes
  <2>2. Denied(c)' = Denied(c)
    BY <2>1, <1>a
  <2>3. QED
    BY <2>1, <2>2
<1>9. QED
  BY <1>1, <1>2, <1>3, <1>4, <1>5, <1>6, <1>7, <1>8 DEF CallStep

(* The step of one call keeps the shape and the decision of another. *)
LEMMA OthersStep ==
  ASSUME NEW d \in Calls, UNCHANGED vars, Shape(d), Decided(d),
         call'[d] = call[d], request'[d] = request[d],
         denials'[d] = denials[d], earlier'[d] = earlier[d]
  PROVE  Shape(d)' /\ Decided(d)'
<1>1. Denied(d)' = Denied(d)
  BY DEF Denied, CanAccess, vars
<1>2. Shape(d)'
  BY DEF Shape
<1>3. Decided(d)'
  BY <1>1 DEF Decided, Admitted
<1>4. QED
  BY <1>2, <1>3

(* A change of the matrix adds the new answer to what a call may have seen. *)
LEMMA ChangeStep ==
  ASSUME CallTypeOK, Change, NEW c \in Calls, Shape(c), Decided(c)
  PROVE  Shape(c)' /\ Decided(c)'
<1>1. /\ UNCHANGED <<call, request, earlier>>
      /\ denials'[c] = IF call[c].pc = "idle" THEN {}
                       ELSE denials[c] \cup {Denied(c)'}
  BY DEF Change, calling
<1>2. CASE call[c].pc = "idle"
  <2>1. denials'[c] = {} /\ denials[c] = {}
    BY <1>1, <1>2 DEF Shape
  <2>2. Shape(c)'
    BY <1>1, <2>1 DEF Shape
  <2>3. Decided(c)'
    BY <1>1, <1>2, <2>1 DEF Decided, Admitted
  <2>4. QED
    BY <2>2, <2>3
<1>3. CASE call[c].pc # "idle"
  <2>1. denials'[c] = denials[c] \cup {Denied(c)'}
    BY <1>1, <1>3
  <2>2. Shape(c)'
    BY <1>1, <1>3 DEF Shape
  <2>3. Decided(c)'
    BY <1>1, <1>3, <2>1 DEF Decided, Admitted
  <2>4. QED
    BY <2>2, <2>3
<1>4. QED
  BY <1>2, <1>3

-----------------------------------------------------------------------------
(* The trail *)

(* The calls whose records the trail is about. *)
LEMMA ReturnedPlace ==
  ASSUME NEW c \in Calls
  PROVE  c \in Returned <=> call[c].pc = "returned"
BY DEF Returned

(* Steps by which no call returns keep the trail. *)
LEMMA TrailKept ==
  ASSUME CallTypeOK, Past, OneRecordPerCall,
         UNCHANGED <<accepted, refused>>,
         \A d \in Calls : \/ call'[d] = call[d]
                          \/ call[d].pc # "returned" /\ call'[d].pc # "returned",
         \A d \in Calls : \/ earlier'[d] = earlier[d]
                          \/ d \notin Returned /\ earlier'[d] = Returned
  PROVE  Past' /\ OneRecordPerCall'
<1>1. Returned' = Returned
  BY DEF Returned
<1>2. \A d \in Returned : call'[d] = call[d] /\ earlier'[d] = earlier[d]
  BY DEF Returned
<1>3. Past'
  BY <1>1 DEF Past
<1>4. \A d \in Returned : RecordOf(d)' = RecordOf(d)
  BY <1>2 DEF RecordOf
<1>5. \A d \in Returned' \ refused' : \E i \in DOMAIN accepted' : accepted'[i] = RecordOf(d)'
  BY <1>1, <1>4 DEF OneRecordPerCall
<1>6. ASSUME NEW i \in DOMAIN accepted', NEW j \in DOMAIN accepted'
      PROVE  /\ accepted'[i].call \in Returned' \ refused'
             /\ accepted'[i].call = accepted'[j].call => i = j
             /\ accepted'[j].call \in earlier'[accepted'[i].call] => j < i
  BY <1>1, <1>2 DEF OneRecordPerCall
<1>7. QED
  BY <1>3, <1>5, <1>6 DEF OneRecordPerCall

(* A call that returns leaves its record behind all others, or is refused. *)
LEMMA TrailGrows ==
  ASSUME CallTypeOK, Past, OneRecordPerCall, NEW c \in Calls,
         Shape(c), Return(c)
  PROVE  Past' /\ OneRecordPerCall'
<1>1. /\ call[c].pc = "audit" /\ call'[c].pc = "returned"
      /\ call'[c].outcome = call[c].outcome
      /\ \A d \in Calls \ {c} : call'[d] = call[d]
      /\ UNCHANGED earlier
  BY Moved DEF Return, Places
<1>2. Returned' = Returned \cup {c} /\ c \notin Returned
  BY <1>1 DEF Returned
<1>3. \A d \in Calls : RecordOf(d)' = RecordOf(d)
  BY <1>1 DEF RecordOf
<1>4. call[c].outcome \in Outcomes
  BY <1>1, CallFields DEF Shape
<1>5. RecordOf(c) \in Records /\ RecordOf(c).call = c
  BY <1>4, RecordType DEF RecordOf
<1>6. c \notin refused /\ \A d \in Calls : c \notin earlier[d]
  BY <1>2 DEF Past
<1>7. \A i \in DOMAIN accepted : accepted[i].call # c /\ accepted[i].call \in Returned
  BY <1>2 DEF OneRecordPerCall
<1>8. CASE closed
  <2>1. refused' = refused \cup {c} /\ UNCHANGED accepted
    BY <1>8 DEF Return, Recorded, auditLog
  <2>2. Past'
    BY <1>1, <1>2, <2>1 DEF Past
  <2>3. Returned' \ refused' = Returned \ refused
    BY <1>2, <1>6, <2>1
  <2>4. \A d \in Returned' \ refused' : \E i \in DOMAIN accepted' : accepted'[i] = RecordOf(d)'
    <3>1. \A d \in Returned : d \in Calls
      BY DEF Returned
    <3>2. QED
      BY <1>3, <2>1, <2>3, <3>1 DEF OneRecordPerCall
  <2>5. ASSUME NEW i \in DOMAIN accepted', NEW j \in DOMAIN accepted'
        PROVE  /\ accepted'[i].call \in Returned' \ refused'
               /\ accepted'[i].call = accepted'[j].call => i = j
               /\ accepted'[j].call \in earlier'[accepted'[i].call] => j < i
    BY <1>1, <2>1, <2>3 DEF OneRecordPerCall
  <2>6. QED
    BY <2>2, <2>4, <2>5 DEF OneRecordPerCall
<1>9. CASE ~closed
  <2>1. Audit!Accept(RecordOf(c)) /\ UNCHANGED refused
    BY <1>9 DEF Return, Recorded
  <2>2. accepted' = Append(accepted, RecordOf(c))
    BY <2>1 DEF Audit!Accept
  <2>3. accepted \in Seq(Records)
    BY DEF CallTypeOK
  <2> DEFINE n == Len(accepted)
  <2>4. /\ n \in Nat /\ DOMAIN accepted = 1 .. n
        /\ DOMAIN accepted' = 1 .. (n + 1)
        /\ accepted'[n + 1] = RecordOf(c)
        /\ \A i \in 1 .. n : accepted'[i] = accepted[i]
    BY <1>5, <2>2, <2>3
  <2> HIDE DEF n
  <2>5. Past'
    BY <1>1, <1>2, <2>1 DEF Past
  <2>6. \A d \in Returned' \ refused' : \E i \in DOMAIN accepted' : accepted'[i] = RecordOf(d)'
    <3>1. SUFFICES ASSUME NEW d \in Returned' \ refused'
                   PROVE  \E i \in DOMAIN accepted' : accepted'[i] = RecordOf(d)'
      OBVIOUS
    <3>2. CASE d = c
      BY <1>3, <2>4, <3>2
    <3>3. CASE d # c
      <4>1. d \in Returned \ refused /\ d \in Calls
        BY <1>2, <2>1, <3>3 DEF Returned
      <4>2. PICK i \in DOMAIN accepted : accepted[i] = RecordOf(d)
        BY <4>1 DEF OneRecordPerCall
      <4>3. QED
        BY <1>3, <2>4, <4>1, <4>2
    <3>4. QED
      BY <3>2, <3>3
  <2>7. ASSUME NEW i \in DOMAIN accepted', NEW j \in DOMAIN accepted'
        PROVE  /\ accepted'[i].call \in Returned' \ refused'
               /\ accepted'[i].call = accepted'[j].call => i = j
               /\ accepted'[j].call \in earlier'[accepted'[i].call] => j < i
    <3>0. i \in 1 .. (n + 1) /\ j \in 1 .. (n + 1)
      BY <2>4
    <3>1. CASE i \in 1 .. n /\ j \in 1 .. n
      <4>1. accepted'[i] = accepted[i] /\ accepted'[j] = accepted[j]
        BY <2>4, <3>1
      <4>2. QED
        BY <1>1, <1>2, <2>1, <2>4, <3>1, <4>1 DEF OneRecordPerCall
    <3>2. CASE i = n + 1 /\ j \in 1 .. n
      <4>1. accepted'[i].call = c /\ accepted'[j].call # c /\ j < i
        BY <1>5, <1>7, <2>4, <3>2
      <4>2. QED
        BY <1>2, <1>6, <2>1, <4>1
    <3>3. CASE i \in 1 .. n /\ j = n + 1
      <4>1. accepted'[j].call = c /\ accepted'[i] = accepted[i]
        BY <1>5, <2>4, <3>3
      <4>2. /\ accepted[i].call # c /\ accepted[i].call \in Returned \ refused
            /\ accepted[i].call \in Calls
        BY <1>7, <2>4, <3>3 DEF OneRecordPerCall, Returned
      <4>3. QED
        BY <1>1, <1>2, <1>6, <2>1, <4>1, <4>2
    <3>4. CASE i = n + 1 /\ j = n + 1
      <4>1. accepted'[i].call = c
        BY <1>5, <2>4, <3>4
      <4>2. QED
        BY <1>1, <1>2, <1>6, <2>1, <3>4, <4>1
    <3>5. QED
      BY <2>4, <3>0, <3>1, <3>2, <3>3, <3>4
  <2>8. QED
    BY <2>5, <2>6, <2>7 DEF OneRecordPerCall
<1>10. QED
  BY <1>8, <1>9

-----------------------------------------------------------------------------
(* The invariant *)

(* The conjuncts of CallTypeOK, from the groups they are shown in. *)
LEMMA TypesJoin ==
  ASSUME TypeOK', CallsTyped', LogTyped',
         closed' \in BOOLEAN, broken' \in BOOLEAN, sealed' \in BOOLEAN,
         crashed' \in BOOLEAN
  PROVE  CallTypeOK'
BY DEF CallTypeOK, CallsTyped, LogTyped

(* A step of a call keeps the types of its other variables. *)
LEMMA CallsStep ==
  ASSUME CallTypeOK, NEW c \in Calls, Begin(c) \/ CallStep(c) \/ Executes(c)
  PROVE  CallsTyped'
<1>1. call' \in [Calls -> CallState]
  BY Frame
<1>2. /\ request \in [Calls -> {"none", "sent", "executed"}]
      /\ earlier \in [Calls -> SUBSET Calls]
      /\ denials \in [Calls -> SUBSET BOOLEAN]
      /\ refused \subseteq Calls
  BY DEF CallTypeOK
<1>3. CASE Begin(c)
  <2>1. denials' \in [Calls -> SUBSET BOOLEAN]
    <3>1. PICK role \in Roles, server \in Servers :
            denials' = [denials EXCEPT ![c] = {~CanAccess(role, server)}]
      BY <1>3 DEF Begin
    <3>2. {~CanAccess(role, server)} \in SUBSET BOOLEAN
      BY DEF CanAccess
    <3>3. QED
      BY <1>2, <3>1, <3>2
  <2>2. earlier' \in [Calls -> SUBSET Calls]
    BY <1>2, <1>3 DEF Begin, Returned
  <2>3. UNCHANGED <<request, refused>>
    BY <1>3 DEF Begin
  <2>4. QED
    BY <1>1, <1>2, <2>1, <2>2, <2>3 DEF CallsTyped
<1>4. CASE Send(c)
  BY <1>1, <1>2, <1>4 DEF Send, CallsTyped
<1>5. CASE Executes(c)
  BY <1>1, <1>2, <1>5 DEF Executes, CallsTyped
<1>6. CASE Return(c)
  <2>1. refused' = refused \/ refused' = refused \cup {c}
    BY <1>6 DEF Return
  <2>2. UNCHANGED <<request, earlier, denials>>
    BY <1>6 DEF Return
  <2>3. QED
    BY <1>1, <1>2, <2>1, <2>2 DEF CallsTyped
<1>7. CASE Check(c) \/ Refuse(c) \/ Route(c) \/ Receive(c)
  <2>1. UNCHANGED <<request, earlier, denials, refused>>
    BY <1>7 DEF Check, Refuse, Route, Receive
  <2>2. QED
    BY <1>1, <1>2, <2>1 DEF CallsTyped
<1>8. QED
  BY <1>3, <1>4, <1>5, <1>6, <1>7 DEF CallStep

(* The step of a call keeps all types. *)
LEMMA CallStepTypes ==
  ASSUME CallTypeOK, NEW c \in Calls, Shape(c),
         Begin(c) \/ CallStep(c) \/ Executes(c)
  PROVE  CallTypeOK'
<1>1. TypeOK'
  <2>1. UNCHANGED vars /\ TypeOK
    BY Frame DEF CallTypeOK
  <2>2. QED
    BY <2>1 DEF TypeOK, vars
<1>2. CallsTyped'
  BY CallsStep
<1>3. UNCHANGED <<closed, crashed>>
  BY DEF Begin, CallStep, Executes, Check, Refuse, Route, Send, Receive, Return
<1>4. LogTyped' /\ broken' \in BOOLEAN /\ sealed' \in BOOLEAN
  <2>1. CASE UNCHANGED auditLog
    BY <2>1 DEF auditLog, CallTypeOK, LogTyped
  <2>2. CASE Return(c) /\ ~closed
    <3>1. Audit!Accept(RecordOf(c))
      BY <2>2 DEF Return, Recorded
    <3>2. RecordOf(c) \in Records
      <4>1. call[c].outcome \in Outcomes
        BY <2>2, CallFields DEF Return, Shape
      <4>2. QED
        BY <4>1, RecordType
    <3>3. LogTyped'
      BY <3>1, <3>2, AcceptEffect
    <3>4. UNCHANGED <<broken, sealed>>
      BY <3>1 DEF Audit!Accept
    <3>5. QED
      BY <3>3, <3>4 DEF CallTypeOK
  <2>3. CASE Return(c) /\ closed
    BY <2>1, <2>3 DEF Return, Recorded
  <2>4. CASE ~Return(c)
    BY <2>1, <2>4
    DEF Begin, CallStep, Executes, Check, Refuse, Route, Send, Receive
  <2>5. QED
    BY <2>2, <2>3, <2>4
<1>5. closed \in BOOLEAN /\ crashed \in BOOLEAN
  BY DEF CallTypeOK
<1>6. QED
  BY <1>1, <1>2, <1>3, <1>4, <1>5, TypesJoin

(* Between the calls, too, types are kept. *)
LEMMA OtherTypes ==
  ASSUME CallTypeOK, Change \/ MapRace \/ CloseWriter \/ LogStep
  PROVE  CallTypeOK'
<1>1. CASE Change
  <2>1. TypeOK'
    BY <1>1, MatrixStep DEF Change, CallTypeOK
  <2>2. denials' \in [Calls -> SUBSET BOOLEAN]
    <3>1. denials' = [c \in Calls |->
                       IF call[c].pc = "idle" THEN {} ELSE denials[c] \cup {Denied(c)'}]
      BY <1>1 DEF Change
    <3>2. \A c \in Calls : Denied(c)' \in BOOLEAN
      BY DEF Denied, CanAccess
    <3>3. QED
      BY <3>1, <3>2 DEF CallTypeOK
  <2>3. CallsTyped' /\ LogTyped' /\ UNCHANGED <<closed, crashed, broken, sealed>>
    BY <1>1, <2>2 DEF Change, calling, auditLog, CallsTyped, LogTyped, CallTypeOK
  <2>4. QED
    BY <2>1, <2>3, TypesJoin DEF CallTypeOK
<1>2. CASE MapRace
  <2>1. TypeOK' /\ CallsTyped' /\ LogTyped' /\ crashed' = TRUE
        /\ UNCHANGED <<closed, broken, sealed>>
    BY <1>2 DEF MapRace, vars, calling, auditLog, TypeOK, CallsTyped, LogTyped,
                CallTypeOK
  <2>2. QED
    BY <2>1, TypesJoin DEF CallTypeOK
<1>3. CASE CloseWriter
  <2>1. TypeOK' /\ CallsTyped' /\ LogTyped' /\ closed' = TRUE
        /\ UNCHANGED <<crashed, broken, sealed>>
    BY <1>3 DEF CloseWriter, vars, calling, auditLog, TypeOK, CallsTyped, LogTyped,
                CallTypeOK
  <2>2. QED
    BY <2>1, TypesJoin DEF CallTypeOK
<1>4. CASE LogStep
  <2>1. TypeOK' /\ CallsTyped' /\ UNCHANGED <<closed, crashed>>
    BY <1>4 DEF LogStep, vars, calling, TypeOK, CallsTyped, CallTypeOK
  <2>2. QED
    BY <1>4, <2>1, LogStepTypes, TypesJoin DEF CallTypeOK
<1>5. QED
  BY <1>1, <1>2, <1>3, <1>4

(* The invariant holds before the first step. *)
LEMMA InvariantInit == CallInit => CallIInv
<1> SUFFICES ASSUME CallInit PROVE CallIInv
  OBVIOUS
<1>1. PICK role \in Roles, server \in Servers :
        call = [c \in Calls |-> [pc |-> "idle", role |-> role, server |-> server,
                                outcome |-> "none", hints |-> {}]]
  BY DEF CallInit
<1>2. call \in [Calls -> CallState]
  <2> DEFINE r == [pc |-> "idle", role |-> role, server |-> server,
                   outcome |-> "none", hints |-> {}]
  <2>1. r \in CallState
    BY DEF CallState
  <2>2. QED
    BY <1>1, <2>1
<1>3. \A c \in Calls : call[c].pc = "idle" /\ call[c].outcome = "none"
  BY <1>1
<1>4. accepted = <<>> /\ due = <<>> /\ log = <<>> /\ broken = FALSE /\ sealed = FALSE
  BY DEF CallInit, Audit!Init
<1>5. CallTypeOK
  <2>1. TypeOK
    BY DEF CallInit, Init, TypeOK
  <2>2. <<>> \in Seq(Records)
    BY EmptySeq
  <2>3. /\ request = [c \in Calls |-> "none"]
        /\ earlier = [c \in Calls |-> {}]
        /\ denials = [c \in Calls |-> {}]
        /\ closed = FALSE /\ refused = {} /\ crashed = FALSE
    BY DEF CallInit
  <2>4. QED
    BY <1>2, <1>4, <2>1, <2>2, <2>3 DEF CallTypeOK
<1>6. \A c \in Calls : Shape(c) /\ Decided(c)
  BY <1>3 DEF CallInit, Shape, Decided, Admitted
<1>7. Returned = {}
  BY <1>3 DEF Returned
<1>8. Past
  BY <1>7 DEF Past, CallInit
<1>9. OneRecordPerCall
  BY <1>4, <1>7 DEF OneRecordPerCall
<1>10. QED
  BY <1>5, <1>6, <1>8, <1>9 DEF CallIInv

(* Every step keeps it. *)
LEMMA InvariantStep == CallIInv /\ [CallNext]_callVars => CallIInv'
<1> SUFFICES ASSUME CallIInv, [CallNext]_callVars PROVE CallIInv'
  OBVIOUS
<1>0. /\ CallTypeOK /\ Past /\ OneRecordPerCall
      /\ \A c \in Calls : Shape(c) /\ Decided(c)
  BY DEF CallIInv
<1>1. CASE \E c \in Calls : Begin(c) \/ CallStep(c) \/ Executes(c)
  <2>1. PICK c \in Calls : Begin(c) \/ CallStep(c) \/ Executes(c)
    BY <1>1
  <2>2. CallTypeOK'
    BY <1>0, <2>1, CallStepTypes
  <2>3. Shape(c)' /\ Decided(c)'
    BY <1>0, <2>1, OwnStep
  <2>4. ASSUME NEW d \in Calls \ {c}
        PROVE  Shape(d)' /\ Decided(d)'
    BY <1>0, <2>1, Frame, OthersStep
  <2>5. Past' /\ OneRecordPerCall'
    <3>1. CASE Return(c)
      BY <1>0, <3>1, TrailGrows
    <3>2. CASE ~Return(c)
      <4>1. UNCHANGED <<accepted, refused>>
        BY <2>1, <3>2
        DEF Begin, CallStep, Executes, Check, Refuse, Route, Send, Receive, auditLog
      <4>2. call[c].pc # "returned" \/ call' = call
        BY <2>1, <3>2
        DEF Begin, CallStep, Executes, Check, Refuse, Route, Send, Receive
      <4>3. call' = call \/ call'[c].pc # "returned"
        <5>1. CASE Begin(c)
          BY <1>0, <5>1, Begun
        <5>2. CASE Check(c)
          BY <1>0, <5>2, CheckEffect
        <5>3. CASE Refuse(c)
          BY <1>0, <5>3, Refused
        <5>4. CASE Route(c)
          BY <1>0, <5>4, Settled, Moved DEF Route, Fail, Places, Outcomes
        <5>5. CASE Send(c)
          BY <1>0, <5>5, Moved DEF Send, Places
        <5>6. CASE Receive(c)
          <6>1. PICK o \in Outcomes :
                  call' = [call EXCEPT ![c].pc = "audit", ![c].outcome = o]
            BY <5>6 DEF Receive, Fail, Outcomes
          <6>2. QED
            BY <1>0, <6>1, Settled
        <5>7. CASE Executes(c)
          BY <5>7 DEF Executes
        <5>8. QED
          BY <2>1, <3>2, <5>1, <5>2, <5>3, <5>4, <5>5, <5>6, <5>7 DEF CallStep
      <4>4. \A d \in Calls : \/ call'[d] = call[d]
                             \/ call[d].pc # "returned" /\ call'[d].pc # "returned"
        BY <1>0, <2>1, <4>2, <4>3, Frame
      <4>5. \A d \in Calls : \/ earlier'[d] = earlier[d]
                             \/ d \notin Returned /\ earlier'[d] = Returned
        <5>1. CASE Begin(c)
          BY <1>0, <5>1 DEF Begin, CallTypeOK, Returned
        <5>2. CASE ~Begin(c)
          BY <2>1, <5>2
          DEF CallStep, Executes, Check, Refuse, Route, Send, Receive, Return
        <5>3. QED
          BY <5>1, <5>2
      <4>6. QED
        BY <1>0, <4>1, <4>4, <4>5, TrailKept
    <3>3. QED
      BY <3>1, <3>2
  <2>6. QED
    BY <2>2, <2>3, <2>4, <2>5 DEF CallIInv
<1>2. CASE Change
  <2>1. CallTypeOK'
    BY <1>0, <1>2, OtherTypes
  <2>2. \A c \in Calls : Shape(c)' /\ Decided(c)'
    BY <1>0, <1>2, ChangeStep
  <2>3. UNCHANGED <<call, earlier, accepted, refused>>
    BY <1>2 DEF Change, calling, auditLog
  <2>4. Past' /\ OneRecordPerCall'
    BY <1>0, <2>3, TrailKept
  <2>5. QED
    BY <2>1, <2>2, <2>4 DEF CallIInv
<1>3. CASE MapRace \/ CloseWriter \/ LogStep
  <2>1. CallTypeOK'
    BY <1>0, <1>3, OtherTypes
  <2>2. UNCHANGED <<vars, call, request, earlier, denials, refused, accepted>>
    BY <1>3 DEF MapRace, CloseWriter, LogStep, Audit!Put, Audit!Lose, Audit!Seal,
                calling, auditLog
  <2>3. \A c \in Calls : Shape(c)' /\ Decided(c)'
    BY <1>0, <2>2, OthersStep
  <2>4. Past' /\ OneRecordPerCall'
    BY <1>0, <2>2, TrailKept
  <2>5. QED
    BY <2>1, <2>3, <2>4 DEF CallIInv
<1>4. CASE UNCHANGED callVars
  <2>1. UNCHANGED <<vars, call, request, earlier, denials, refused, accepted>>
        /\ UNCHANGED <<closed, due, log, broken, sealed, crashed>>
    BY <1>4 DEF callVars, calling, auditLog
  <2>2. CallTypeOK'
    BY <1>0, <2>1 DEF CallTypeOK, TypeOK, vars
  <2>3. \A c \in Calls : Shape(c)' /\ Decided(c)'
    BY <1>0, <2>1, OthersStep
  <2>4. Past' /\ OneRecordPerCall'
    BY <1>0, <2>1, TrailKept
  <2>5. QED
    BY <2>2, <2>3, <2>4 DEF CallIInv
<1>5. QED
  BY <1>1, <1>2, <1>3, <1>4 DEF CallNext

(* The inductive invariant holds in every reachable state. *)
THEOREM CallInvariant == CallSpec => []CallIInv
BY InvariantInit, InvariantStep, PTL DEF CallSpec

(* The calls, the matrix and the log keep their types. *)
THEOREM CallTyped == CallSpec => []CallTypeOK
<1>1. CallIInv => CallTypeOK
  BY DEF CallIInv
<1>2. QED
  BY <1>1, CallInvariant, PTL

(* A role that could not call the server at any time of a call is refused  *)
(* and nothing is sent; one that always could is not refused.              *)
THEOREM Timely == CallSpec => []DecisionIsTimely
<1>1. CallIInv => DecisionIsTimely
  <2> SUFFICES ASSUME CallIInv, NEW c \in Calls
               PROVE  /\ denials[c] = {TRUE} => /\ request[c] = "none"
                                                /\ call[c].outcome \in {"none", "denied"}
                      /\ denials[c] = {FALSE} => call[c].outcome # "denied"
    BY DEF DecisionIsTimely
  <2>1. Decided(c) /\ call[c].outcome \in Outcomes \cup {"none"}
    BY CallFields DEF CallIInv
  <2>2. CASE denials[c] = {TRUE}
    <3>1. ~Admitted(c)
      BY <2>1, <2>2 DEF Decided
    <3>2. QED
      BY <2>1, <2>2, <3>1 DEF Admitted, Outcomes
  <2>3. CASE denials[c] = {FALSE}
    BY <2>1, <2>3 DEF Decided
  <2>4. QED
    BY <2>2, <2>3
<1>2. QED
  BY <1>1, CallInvariant, PTL

(* Every call that returned left exactly one record, with its outcome and  *)
(* in the order of the calls, unless the writer was closed.                *)
THEOREM Recording == CallSpec => []OneRecordPerCall
<1>1. CallIInv => OneRecordPerCall
  BY DEF CallIInv
<1>2. QED
  BY <1>1, CallInvariant, PTL
=============================================================================
