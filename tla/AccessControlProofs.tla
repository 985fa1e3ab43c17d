------------------------- MODULE AccessControlProofs -------------------------
(***************************************************************************)
(* Proofs of the properties of AccessControl, for every set of roles and   *)
(* of servers and every initial matrix.                                    *)
(***************************************************************************)
EXTENDS AccessControl, TLAPS

(* A matrix is a function from some servers to sets of roles, and every    *)
(* such function is a matrix.                                              *)
LEMMA MatrixElim ==
  ASSUME serverRoles \in Matrices
  PROVE  /\ DOMAIN serverRoles \subseteq Servers
         /\ \A s \in DOMAIN serverRoles : serverRoles[s] \subseteq Roles
<1>1. PICK D \in SUBSET Servers : serverRoles \in [D -> SUBSET Roles]
  BY DEF Matrices
<1>2. QED
  BY <1>1

(* Storing a list keeps the map a matrix, changes that list and no other.  *)
LEMMA PutEffect ==
  ASSUME NEW server \in Servers, NEW roles \in SUBSET Roles,
         serverRoles \in Matrices, Put(server, roles)
  PROVE  /\ serverRoles' \in Matrices
         /\ DOMAIN serverRoles' = DOMAIN serverRoles \cup {server}
         /\ serverRoles'[server] = roles
         /\ \A s \in DOMAIN serverRoles \ {server} :
              serverRoles'[s] = serverRoles[s]
<1> DEFINE E == DOMAIN serverRoles \cup {server}
<1>1. serverRoles' = [s \in E |-> IF s = server THEN roles ELSE serverRoles[s]]
  BY DEF Put
<1>2. E \in SUBSET Servers
  BY MatrixElim
<1>3. \A s \in E : (IF s = server THEN roles ELSE serverRoles[s]) \in SUBSET Roles
  BY MatrixElim
<1>4. serverRoles' \in [E -> SUBSET Roles]
  BY <1>1, <1>3
<1>5. serverRoles' \in Matrices
  BY <1>2, <1>4 DEF Matrices
<1>6. QED
  BY <1>1, <1>5

(* What Grant does to the named entry. *)
LEMMA GrantEffect ==
  ASSUME NEW role \in Roles, NEW server \in Servers, TypeOK, Grant(role, server)
  PROVE  /\ serverRoles' \in Matrices
         /\ DOMAIN serverRoles' = DOMAIN serverRoles \cup {server}
         /\ serverRoles'[server] = Granting(role, server)
         /\ \A s \in DOMAIN serverRoles \ {server} :
              serverRoles'[s] = serverRoles[s]
<1>1. serverRoles \in Matrices
  BY DEF TypeOK
<1>2. Granting(role, server) \in SUBSET Roles
  BY <1>1, MatrixElim DEF Granting
<1>3. Put(server, Granting(role, server))
  BY DEF Grant
<1>4. QED
  BY <1>1, <1>2, <1>3, PutEffect

(* What Revoke does to the named entry. *)
LEMMA RevokeEffect ==
  ASSUME NEW role \in Roles, NEW server \in Servers, TypeOK, Revoke(role, server)
  PROVE  /\ serverRoles' \in Matrices
         /\ DOMAIN serverRoles' = DOMAIN serverRoles
         /\ serverRoles'[server] = serverRoles[server] \ {role}
         /\ \A s \in DOMAIN serverRoles \ {server} :
              serverRoles'[s] = serverRoles[s]
<1>1. serverRoles \in Matrices /\ server \in DOMAIN serverRoles
  BY DEF TypeOK, Revoke
<1>2. serverRoles[server] \ {role} \in SUBSET Roles
  BY <1>1, MatrixElim
<1>3. Put(server, serverRoles[server] \ {role})
  BY DEF Revoke
<1>4. QED
  BY <1>1, <1>2, <1>3, PutEffect

(* The inductive invariant: a pair granted last is on its server's list, a *)
(* pair revoked last is not.                                               *)
THEOREM Invariant == Spec => []IInv
<1>1. Init => IInv
  BY DEF Init, IInv, TypeOK
<1>2. IInv /\ [Next]_vars => IInv'
  <2> SUFFICES ASSUME IInv, [Next]_vars PROVE IInv'
    OBVIOUS
  <2>1. CASE UNCHANGED vars
    BY <2>1 DEF vars, IInv, TypeOK
  <2>2. CASE \E role \in Roles, server \in Servers : Grant(role, server)
    <3>1. PICK role \in Roles, server \in Servers : Grant(role, server)
      BY <2>2
    <3>2. TypeOK
      BY DEF IInv
    <3>3. /\ serverRoles' \in Matrices
          /\ DOMAIN serverRoles' = DOMAIN serverRoles \cup {server}
          /\ serverRoles'[server] = Granting(role, server)
          /\ \A s \in DOMAIN serverRoles \ {server} :
               serverRoles'[s] = serverRoles[s]
      BY <3>1, <3>2, GrantEffect
    <3>4. /\ granted' = granted \cup {<<role, server>>}
          /\ revoked' = revoked \ {<<role, server>>}
      BY <3>1 DEF Grant
    <3>5. TypeOK'
      BY <3>2, <3>3, <3>4 DEF TypeOK
    <3>6. ASSUME NEW r \in Roles, NEW s \in Servers
          PROVE  /\ <<r, s>> \in granted'
                      => s \in DOMAIN serverRoles' /\ r \in serverRoles'[s]
                 /\ <<r, s>> \in revoked'
                      => s \in DOMAIN serverRoles' /\ r \notin serverRoles'[s]
      BY <3>3, <3>4 DEF IInv, Granting
    <3>7. QED
      BY <3>5, <3>6 DEF IInv
  <2>3. CASE \E role \in Roles, server \in Servers : Revoke(role, server)
    <3>1. PICK role \in Roles, server \in Servers : Revoke(role, server)
      BY <2>3
    <3>2. TypeOK /\ server \in DOMAIN serverRoles
      BY <3>1 DEF IInv, Revoke
    <3>3. /\ serverRoles' \in Matrices
          /\ DOMAIN serverRoles' = DOMAIN serverRoles
          /\ serverRoles'[server] = serverRoles[server] \ {role}
          /\ \A s \in DOMAIN serverRoles \ {server} :
               serverRoles'[s] = serverRoles[s]
      BY <3>1, <3>2, RevokeEffect
    <3>4. /\ granted' = granted \ {<<role, server>>}
          /\ revoked' = revoked \cup {<<role, server>>}
      BY <3>1 DEF Revoke
    <3>5. TypeOK'
      BY <3>2, <3>3, <3>4 DEF TypeOK
    <3>6. ASSUME NEW r \in Roles, NEW s \in Servers
          PROVE  /\ <<r, s>> \in granted'
                      => s \in DOMAIN serverRoles' /\ r \in serverRoles'[s]
                 /\ <<r, s>> \in revoked'
                      => s \in DOMAIN serverRoles' /\ r \notin serverRoles'[s]
      BY <3>2, <3>3, <3>4 DEF IInv
    <3>7. QED
      BY <3>5, <3>6 DEF IInv
  <2>4. QED
    BY <2>1, <2>2, <2>3 DEF Next
<1>3. QED
  BY <1>1, <1>2, PTL DEF Spec

(* The matrix stays a map from servers to sets of roles. *)
THEOREM TypeCorrect == Spec => []TypeOK
<1>1. IInv => TypeOK
  BY DEF IInv
<1>2. QED
  BY <1>1, Invariant, PTL

(* A granted role keeps its server until it is revoked. *)
THEOREM GrantHolds == Spec => []GrantedCanAccess
<1>1. IInv => GrantedCanAccess
  BY DEF IInv, GrantedCanAccess, CanAccess
<1>2. QED
  BY <1>1, Invariant, PTL

(* A revoked role stays out, unless the list became empty. *)
THEOREM RevokeHolds == Spec => []RevokedIsLocked
<1>1. IInv => RevokedIsLocked
  BY DEF IInv, RevokedIsLocked, CanAccess
<1>2. QED
  BY <1>1, Invariant, PTL

(* The list of a refusal and the decision of CanAccess agree. *)
THEOREM ListingHolds == Spec => []ListingAgrees
<1>1. ListingAgrees
  BY DEF ListingAgrees, GetAccessibleServers, CanAccess
<1>2. QED
  BY <1>1, PTL

(* Access is lost by the revoked role alone, or when an open list closes.  *)
THEOREM LossHolds == Spec => OnlyNamedLoseAccess
<1>1. IInv /\ [Next]_vars => [LossIsNamed]_vars
  <2> SUFFICES ASSUME IInv, Next, NEW r \in Roles, NEW s \in Servers,
                      CanAccess(r, s), ~CanAccess(r, s)'
               PROVE  \/ <<r, s>> \in revoked' \ revoked
                      \/ /\ s \notin DOMAIN serverRoles \/ serverRoles[s] = {}
                         /\ \E q \in Roles : <<q, s>> \in granted' \ granted
    BY DEF LossIsNamed
  <2>1. r # Orchestrator /\ s \in DOMAIN serverRoles'
    BY DEF CanAccess
  <2>2. serverRoles'[s] # {} /\ r \notin serverRoles'[s]
    BY DEF CanAccess
  <2>3. TypeOK
    BY DEF IInv
  <2>4. CASE \E role \in Roles, server \in Servers : Grant(role, server)
    <3>1. PICK role \in Roles, server \in Servers : Grant(role, server)
      BY <2>4
    <3>2. /\ DOMAIN serverRoles' = DOMAIN serverRoles \cup {server}
          /\ serverRoles'[server] = Granting(role, server)
          /\ \A t \in DOMAIN serverRoles \ {server} :
               serverRoles'[t] = serverRoles[t]
      BY <3>1, <2>3, GrantEffect
    <3>3. s = server
      BY <3>2, <2>1, <2>2 DEF CanAccess
    <3>4. s \notin DOMAIN serverRoles \/ serverRoles[s] = {}
      BY <3>2, <3>3, <2>1, <2>2 DEF CanAccess, Granting
    <3>5. <<role, s>> \in granted' \ granted
      BY <3>1, <3>3, <3>4 DEF Grant, IInv
    <3>6. QED
      BY <3>4, <3>5
  <2>5. CASE \E role \in Roles, server \in Servers : Revoke(role, server)
    <3>1. PICK role \in Roles, server \in Servers : Revoke(role, server)
      BY <2>5
    <3>2. /\ DOMAIN serverRoles' = DOMAIN serverRoles
          /\ serverRoles'[server] = serverRoles[server] \ {role}
          /\ \A t \in DOMAIN serverRoles \ {server} :
               serverRoles'[t] = serverRoles[t]
      BY <3>1, <2>3, RevokeEffect
    <3>3. s = server
      BY <3>2, <2>1, <2>2 DEF CanAccess
    <3>4. r \in serverRoles[s] /\ r = role
      BY <3>2, <3>3, <2>1, <2>2 DEF CanAccess
    <3>5. <<r, s>> \in revoked' \ revoked
      BY <3>1, <3>3, <3>4 DEF Revoke, IInv
    <3>6. QED
      BY <3>5
  <2>6. QED
    BY <2>4, <2>5 DEF Next
<1>2. QED
  BY <1>1, Invariant, PTL DEF Spec, OnlyNamedLoseAccess
=============================================================================
