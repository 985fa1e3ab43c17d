-------------------------------- MODULE Rpc --------------------------------
(***************************************************************************)
(* What a caller of the proxy may rely on, whatever pipes, readers, ids    *)
(* and channels lie in between: a remote call that is executed at most     *)
(* once.  The request leaves for one server at most once, the server       *)
(* answers it at most once, and the call ends exactly once, with the       *)
(* answer of that very server or with an error.  An error says nothing     *)
(* about whether the request was executed.                                 *)
(***************************************************************************)
CONSTANTS Servers, Calls, None

VARIABLES
  phase,   \* of the call: "idle", "open" or "settled"
  stage,   \* of its request: "unsent", "sent", "answered" or "gone"
  server,  \* the server the call is for
  result,  \* what the caller gets: "none", "response" or "error"
  from     \* the server whose answer it is

vars == <<phase, stage, server, result, from>>

Init ==
  /\ phase = [c \in Calls |-> "idle"]
  /\ stage = [c \in Calls |-> "unsent"]
  /\ server = [c \in Calls |-> None]
  /\ result = [c \in Calls |-> "none"]
  /\ from = [c \in Calls |-> None]

Issue(c, s) ==
  /\ phase[c] = "idle"
  /\ phase' = [phase EXCEPT ![c] = "open"]
  /\ server' = [server EXCEPT ![c] = s]
  /\ UNCHANGED <<stage, result, from>>

(* The call fails before anything is sent. *)
Refuse(c, s) ==
  /\ phase[c] = "idle"
  /\ phase' = [phase EXCEPT ![c] = "settled"]
  /\ stage' = [stage EXCEPT ![c] = "gone"]
  /\ server' = [server EXCEPT ![c] = s]
  /\ result' = [result EXCEPT ![c] = "error"]
  /\ UNCHANGED from

Send(c) ==
  /\ phase[c] = "open" /\ stage[c] = "unsent"
  /\ stage' = [stage EXCEPT ![c] = "sent"]
  /\ UNCHANGED <<phase, server, result, from>>

(* The server may answer after the caller has given up. *)
Answer(c) ==
  /\ stage[c] = "sent"
  /\ stage' = [stage EXCEPT ![c] = "answered"]
  /\ UNCHANGED <<phase, server, result, from>>

(* Requests and answers that are under way get lost, never duplicated. *)
Lose(L) ==
  /\ \A c \in L : stage[c] \in {"sent", "answered"}
  /\ stage' = [c \in Calls |-> IF c \in L THEN "gone" ELSE stage[c]]
  /\ UNCHANGED <<phase, server, result, from>>

Accept(c) ==
  /\ phase[c] = "open" /\ stage[c] = "answered"
  /\ phase' = [phase EXCEPT ![c] = "settled"]
  /\ stage' = [stage EXCEPT ![c] = "gone"]
  /\ result' = [result EXCEPT ![c] = "response"]
  /\ from' = [from EXCEPT ![c] = server[c]]
  /\ UNCHANGED server

Fail(c) ==
  /\ phase[c] = "open"
  /\ phase' = [phase EXCEPT ![c] = "settled"]
  /\ stage' = [stage EXCEPT ![c] = IF @ = "unsent" THEN "gone" ELSE @]
  /\ result' = [result EXCEPT ![c] = "error"]
  /\ UNCHANGED <<server, from>>

Next ==
  \/ \E c \in Calls, s \in Servers : Issue(c, s) \/ Refuse(c, s)
  \/ \E c \in Calls : Send(c) \/ Answer(c) \/ Accept(c) \/ Fail(c)
  \/ \E L \in SUBSET Calls : Lose(L)

Spec == Init /\ [][Next]_vars
=============================================================================
