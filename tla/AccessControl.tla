---------------------------- MODULE AccessControl ----------------------------
(***************************************************************************)
(* The role-based permission matrix (access/access.go): which roles may    *)
(* call which MCP server.  A server that has no entry, or an entry with an *)
(* empty list, is open to every role; the orchestrator may call every      *)
(* server.  The order of a list, and a role listed twice, make no          *)
(* difference to any operation, so a list is the set of its roles.         *)
(***************************************************************************)
CONSTANTS Roles,        (* role names, the strings callers pass            *)
          Orchestrator, (* RoleOrchestrator                                *)
          Servers       (* server names                                    *)

ASSUME RoleAssumption == Orchestrator \in Roles

VARIABLES
  serverRoles, \* ac.serverRoles
  granted,     \* history: <<role, server>> granted and not revoked since
  revoked      \* history: <<role, server>> revoked and not granted since

vars == <<serverRoles, granted, revoked>>

(* A map from some of the servers to their lists. *)
Matrices == UNION {[D -> SUBSET Roles] : D \in SUBSET Servers}

TypeOK ==
  /\ serverRoles \in Matrices
  /\ granted \subseteq Roles \X Servers
  /\ revoked \subseteq Roles \X Servers

(* NewAccessControl copies the matrix it is given. *)
Init ==
  /\ serverRoles \in Matrices
  /\ granted = {} /\ revoked = {}

-----------------------------------------------------------------------------
(* The decision made before every call of a tool. *)
CanAccess(role, server) ==
  \/ role = Orchestrator
  \/ server \notin DOMAIN serverRoles
  \/ serverRoles[server] = {}
  \/ role \in serverRoles[server]

(* Mutant: the listing leaves out the servers that are open to all. *)
ListedOnly(role) ==
  IF role = Orchestrator
  THEN DOMAIN serverRoles
  ELSE {server \in DOMAIN serverRoles : role \in serverRoles[server]}

(* The servers a refusal names as alternatives. *)
GetAccessibleServers(role) ==
  IF role = Orchestrator
  THEN DOMAIN serverRoles
  ELSE {server \in DOMAIN serverRoles : \/ serverRoles[server] = {}
                                        \/ role \in serverRoles[server]}

(* Mutant: the list is started anew every time. *)
GrantingAnew(role, server) == {role}

(* The list Grant stores: the server's list, if it has one, and the role. *)
Granting(role, server) ==
  {role} \cup (IF server \in DOMAIN serverRoles THEN serverRoles[server] ELSE {})

(* The map with one server's list replaced or added. *)
Put(server, roles) ==
  serverRoles' = [s \in DOMAIN serverRoles \cup {server} |->
                    IF s = server THEN roles ELSE serverRoles[s]]

Grant(role, server) ==
  /\ Put(server, Granting(role, server))
  /\ granted' = granted \cup {<<role, server>>}
  /\ revoked' = revoked \ {<<role, server>>}

(* A server that has no entry has nothing to revoke. *)
Revoke(role, server) ==
  /\ server \in DOMAIN serverRoles
  /\ Put(server, serverRoles[server] \ {role})
  /\ granted' = granted \ {<<role, server>>}
  /\ revoked' = revoked \cup {<<role, server>>}

Next == \E role \in Roles, server \in Servers :
          \/ Grant(role, server)
          \/ Revoke(role, server)

Spec == Init /\ [][Next]_vars

-----------------------------------------------------------------------------
(* A role that was granted a server can call it until it is revoked,       *)
(* whatever Grant and Revoke do for other roles and servers in between,    *)
(* the steps from an open list to a restricted one and back included.      *)
GrantedCanAccess ==
  \A role \in Roles, server \in Servers :
    <<role, server>> \in granted => CanAccess(role, server)

(* A revoked role regains the server only by a grant or when nobody is     *)
(* left on its list, which opens it to all.                                *)
RevokedIsLocked ==
  \A role \in Roles \ {Orchestrator}, server \in Servers :
    <<role, server>> \in revoked /\ CanAccess(role, server)
      => serverRoles[server] = {}

(* GetAccessibleServers and CanAccess, two loops over the same matrix,     *)
(* agree: a refusal never offers a server that would be refused as well    *)
(* and leaves out none that has an entry.                                  *)
ListingAgrees ==
  \A role \in Roles, server \in DOMAIN serverRoles :
    server \in GetAccessibleServers(role) <=> CanAccess(role, server)

LossIsNamed ==
  \A role \in Roles, server \in Servers :
    CanAccess(role, server) /\ ~CanAccess(role, server)'
      => \/ <<role, server>> \in revoked' \ revoked
         \/ /\ server \notin DOMAIN serverRoles \/ serverRoles[server] = {}
            /\ \E r \in Roles : <<r, server>> \in granted' \ granted

(* No step on one server changes who may call another one, and a step      *)
(* takes a server from a role it does not name only when a Grant closes a  *)
(* server that was open to all.                                            *)
OnlyNamedLoseAccess == [][LossIsNamed]_vars

(* What the comment of Revoke says: "If removing the last role from a      *)
(* server's list, the server becomes inaccessible to all non-orchestrator  *)
(* roles (empty non-nil list)" (access.go:184-185).                        *)
LastRevokeCloses ==
  [][\A server \in DOMAIN serverRoles :
       serverRoles[server] # {} /\ serverRoles'[server] = {}
         => \A role \in Roles \ {Orchestrator} : ~CanAccess(role, server)']_vars

-----------------------------------------------------------------------------
(* What makes the two histories inductive. *)
IInv ==
  /\ TypeOK
  /\ \A role \in Roles, server \in Servers :
       /\ <<role, server>> \in granted
            => server \in DOMAIN serverRoles /\ role \in serverRoles[server]
       /\ <<role, server>> \in revoked
            => server \in DOMAIN serverRoles /\ role \notin serverRoles[server]
=============================================================================
