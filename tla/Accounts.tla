------------------------------ MODULE Accounts ------------------------------
(***************************************************************************)
(* Users, roles, passwords and console sessions (internal/control/auth.go, *)
(* http.go), and who may own a node (CreateNode, DeleteNode).              *)
(*                                                                         *)
(* A request of the console reads the database several times before its    *)
(* transaction: when its session is authenticated, when the CSRF token is  *)
(* compared, and when the handler asks again who is acting.  A login reads *)
(* the password and inserts the session later.  Between two reads every    *)
(* other request may commit.  A refusal changes nothing; it ends the       *)
(* request.                                                                *)
(***************************************************************************)
EXTENDS Naturals, FiniteSets

CONSTANTS
  Users,        \* user ids, each with its own user name
  Requests,     \* requests being served
  Passwords,
  Nodes,
  Ips,          \* addresses logins come from
  None,         \* no owner, no user
  MaxAttempts,  \* attempts of an address in a minute (5 in the code)
  MaxEntries,   \* addresses in the table of attempts (1024 in the code)
  MaxTokens,    \* bound: sessions opened
  MaxVersion    \* bound: changes of a user's session_version

ASSUME ConstantsAssumption ==
  /\ None \notin Users
  /\ MaxAttempts \in Nat
  /\ MaxEntries \in Nat
  /\ MaxTokens \in Nat
  /\ MaxVersion \in Nat \ {0}

VARIABLES
  users,     \* the rows: role ("none" when there is none), enabled, password, version
  sessions,  \* the rows, with the role and password they were opened under as history
  minted,    \* tokens made so far
  owner,     \* nodes.owner_id, None for a node that does not exist
  attempts,  \* logins counted for each address, 0 when it is not in the table
  req,       \* the local state of each request
  recover    \* the user whose RecoverAdmin is between its two transactions

vars == <<users, sessions, minted, owner, attempts, req, recover>>

Roles == {"admin", "provider", "member"}
Tokens == 1..MaxTokens
UserRows == [role : Roles \cup {"none"}, enabled : BOOLEAN, password : Passwords, version : 1..MaxVersion]
SessionRows == [token : Tokens, user : Users, version : 1..MaxVersion, live : BOOLEAN,
                role : Roles, password : Passwords]

\* pc is where the request is, the rest what it has read or was given by then.
Console == [pc : {"csrf", "handler"}, token : Tokens]
Acting == [pc : {"store"}, actor : Users, role : Roles]
Login == [pc : {"setup", "login"}, user : Users, password : Passwords, ip : Ips]
Compared == [pc : {"insert"}, user : Users, version : 1..MaxVersion, ip : Ips,
             role : Roles, password : Passwords]
Idle == [pc |-> "idle"]

TypeOK ==
  /\ users \in [Users -> UserRows]
  /\ sessions \subseteq SessionRows
  /\ minted \in 0..MaxTokens
  /\ owner \in [Nodes -> Users \cup {None}]
  /\ attempts \in [Ips -> 0..MaxAttempts]
  /\ req \in [Requests -> Console \cup Acting \cup Login \cup Compared \cup {Idle}]
  /\ recover \in Users \cup {None}

Init ==
  /\ \E p \in Passwords :
       users = [u \in Users |-> [role |-> "none", enabled |-> FALSE, password |-> p, version |-> 1]]
  /\ sessions = {}
  /\ minted = 0
  /\ owner = [n \in Nodes |-> None]
  /\ attempts = [i \in Ips |-> 0]
  /\ req = [r \in Requests |-> Idle]
  /\ recover = None

-----------------------------------------------------------------------------

Exists(u) == users[u].role # "none"
hasAdmin == \E u \in Users : users[u].role = "admin"

\* Authenticate: the session that a token stands for is in time, and its user is as at login.
Authentic(s) == s.live /\ s.version = users[s.user].version /\ users[s.user].enabled

\* activeActor, in the transaction: the actor is enabled and has the role it was seen with.
activeActor(a, role) == users[a].enabled /\ users[a].role = role

\* RequireOwner, of a user with that role.
RequireOwner(a, role, u) == role = "admin" \/ a = u

Respond(r) == req' = [req EXCEPT ![r] = Idle]

\* The end of SetUserRole, ChangePassword and SetUserEnabled: the user's sessions go, and
\* the version with them, so that a login that has read the old row inserts nothing.
Update(u, row) ==
  /\ users[u].version < MaxVersion
  /\ users' = [users EXCEPT ![u] = [row EXCEPT !.version = @ + 1]]
  /\ sessions' = {s \in sessions : s.user # u}

-----------------------------------------------------------------------------

\* ServeHTTP: a request with a session cookie.
Begin(r, s) ==
  /\ req[r] = Idle
  /\ Authentic(s)
  /\ req' = [req EXCEPT ![r] = [pc |-> "csrf", token |-> s.token]]
  /\ UNCHANGED <<users, sessions, minted, owner, attempts, recover>>

\* checkCSRF: the row is still there, and the header has the token that belongs to it.
CheckCSRF(r) ==
  /\ req[r].pc = "csrf"
  /\ \E s \in sessions : s.token = req[r].token
  /\ req' = [req EXCEPT ![r].pc = "handler"]
  /\ UNCHANGED <<users, sessions, minted, owner, attempts, recover>>

\* h.actor: the handler authenticates again; without a session the actor is the zero Actor,
\* whom every handler refuses.
ReadActor(r) ==
  /\ req[r].pc = "handler"
  /\ \E s \in sessions :
       /\ s.token = req[r].token
       /\ Authentic(s)
       /\ req' = [req EXCEPT ![r] = [pc |-> "store", actor |-> s.user, role |-> users[s.user].role]]
  /\ UNCHANGED <<users, sessions, minted, owner, attempts, recover>>

\* Every refusal and error, and every handler that only reads.
Refuse(r) ==
  /\ req[r].pc # "idle"
  /\ Respond(r)
  /\ UNCHANGED <<users, sessions, minted, owner, attempts, recover>>

\* POST /api/v1/logout does not ask for the actor.
Logout(r) ==
  /\ req[r].pc = "handler"
  /\ sessions' = {s \in sessions : s.token # req[r].token}
  /\ Respond(r)
  /\ UNCHANGED <<users, minted, owner, attempts, recover>>

\* Fault: the transaction trusts the actor the handler has read.
Active_Trusting(r) ==
  /\ req[r].pc = "store"
  /\ Respond(r)

\* The request's transaction may begin: its actor is still who it was.
Active(r) ==
  /\ req[r].pc = "store"
  /\ activeActor(req[r].actor, req[r].role)
  /\ Respond(r)

NewUser(u, role, p) ==
  /\ ~Exists(u)
  /\ users' = [users EXCEPT ![u] = [@ EXCEPT !.role = role, !.enabled = TRUE, !.password = p]]

\* CreateUser, CreateMember.
CreateUser(r, u, role, p) ==
  /\ Active(r)
  /\ req[r].role = "admin"
  /\ role \in {"provider", "member"}
  /\ NewUser(u, role, p)
  /\ UNCHANGED <<sessions, minted, owner, attempts, recover>>

SetUserRole(r, u, role) ==
  /\ Active(r)
  /\ req[r].role = "admin"
  /\ role \in {"provider", "member"} \ {users[u].role}
  /\ users[u].role \in {"provider", "member"}
  /\ role = "member" => \A n \in Nodes : owner[n] # u
  /\ Update(u, [users[u] EXCEPT !.role = role])
  /\ UNCHANGED <<minted, owner, attempts, recover>>

ChangePassword(r, u, p) ==
  /\ Active(r)
  /\ RequireOwner(req[r].actor, req[r].role, u)
  /\ Exists(u)
  /\ Update(u, [users[u] EXCEPT !.password = p])
  /\ UNCHANGED <<minted, owner, attempts, recover>>

\* The policies it builds are in Grants.
SetUserEnabled(r, u, b) ==
  /\ Active(r)
  /\ req[r].role = "admin"
  /\ Exists(u)
  /\ Update(u, [users[u] EXCEPT !.enabled = b])
  /\ UNCHANGED <<minted, owner, attempts, recover>>

CreateNode(r, n) ==
  /\ Active(r)
  /\ req[r].role \in {"admin", "provider"}
  /\ owner[n] = None
  /\ owner' = [owner EXCEPT ![n] = req[r].actor]
  /\ UNCHANGED <<users, sessions, minted, attempts, recover>>

\* When a node may go is the subject of PolicyControl.
DeleteNode(r, n) ==
  /\ Active(r)
  /\ owner[n] # None
  /\ RequireOwner(req[r].actor, req[r].role, owner[n])
  /\ owner' = [owner EXCEPT ![n] = None]
  /\ UNCHANGED <<users, sessions, minted, attempts, recover>>

-----------------------------------------------------------------------------

\* The table of attempts lets the address in: an entry with five attempts and a full table
\* both refuse, the latter also the addresses that are in it.
Allowed(i) ==
  /\ attempts[i] < MaxAttempts
  /\ Cardinality({j \in Ips : attempts[j] > 0}) < MaxEntries

\* The login handler up to the request's body; a setup first sees that there is no admin.
StartLogin(r, i, u, p, initial) ==
  /\ req[r] = Idle
  /\ initial => ~hasAdmin
  /\ Allowed(i)
  /\ attempts' = [attempts EXCEPT ![i] = @ + 1]
  /\ req' = [req EXCEPT ![r] = [pc |-> IF initial THEN "setup" ELSE "login",
                                user |-> u, password |-> p, ip |-> i]]
  /\ UNCHANGED <<users, sessions, minted, owner, recover>>

\* Fault: the handler's look at the admin is thought to be enough.
InitializeAdmin_Once(r) ==
  /\ req[r].pc = "setup"
  /\ NewUser(req[r].user, "admin", req[r].password)
  /\ req' = [req EXCEPT ![r].pc = "login"]
  /\ UNCHANGED <<sessions, minted, owner, attempts, recover>>

\* InitializeAdmin, which looks again in its transaction.
InitializeAdmin(r) ==
  /\ req[r].pc = "setup"
  /\ ~hasAdmin
  /\ NewUser(req[r].user, "admin", req[r].password)
  /\ req' = [req EXCEPT ![r].pc = "login"]
  /\ UNCHANGED <<sessions, minted, owner, attempts, recover>>

\* login: the row is read and the password compared.
ReadUser(r) ==
  LET u == req[r].user IN
  /\ req[r].pc = "login"
  /\ Exists(u) /\ users[u].enabled /\ users[u].password = req[r].password
  /\ req' = [req EXCEPT ![r] = [pc |-> "insert", user |-> u, version |-> users[u].version,
                                ip |-> req[r].ip, role |-> users[u].role,
                                password |-> users[u].password]]
  /\ UNCHANGED <<users, sessions, minted, owner, attempts, recover>>

\* Fault: only whether the user is enabled is looked at again.
Unchanged_EnabledOnly(r) == users[req[r].user].enabled

\* login: INSERT ... SELECT finds the user only as it was read; then the address is forgotten.
Unchanged(r) == users[req[r].user].enabled /\ users[req[r].user].version = req[r].version

InsertSession(r) ==
  /\ req[r].pc = "insert"
  /\ Unchanged(r)
  /\ minted < MaxTokens
  /\ minted' = minted + 1
  /\ sessions' = sessions \cup
       {[token |-> minted + 1, user |-> req[r].user, version |-> req[r].version, live |-> TRUE,
         role |-> req[r].role, password |-> req[r].password]}
  /\ attempts' = [attempts EXCEPT ![req[r].ip] = 0]
  /\ Respond(r)
  /\ UNCHANGED <<users, owner, recover>>

-----------------------------------------------------------------------------

\* The administrator of the machine: InitializeAdmin over the local socket.
LocalInit(u, p) ==
  /\ ~hasAdmin
  /\ NewUser(u, "admin", p)
  /\ UNCHANGED <<sessions, minted, owner, attempts, req, recover>>

\* RecoverAdmin: the first transaction sets the password ...
RecoverPassword(u, p) ==
  /\ recover = None
  /\ users[u].role = "admin"
  /\ Update(u, [users[u] EXCEPT !.password = p])
  /\ recover' = u
  /\ UNCHANGED <<minted, owner, attempts, req>>

\* ... and the second enables the account.
RecoverEnable ==
  /\ recover # None
  /\ Update(recover, [users[recover] EXCEPT !.enabled = TRUE])
  /\ recover' = None
  /\ UNCHANGED <<minted, owner, attempts, req>>

\* The caller hangs up, or the daemon stops, between the two.
RecoverStops ==
  /\ recover # None
  /\ recover' = None
  /\ UNCHANGED <<users, sessions, minted, owner, attempts, req>>

\* Twelve hours are over: the row stays.
Expire(s) ==
  /\ s.live
  /\ sessions' = (sessions \ {s}) \cup {[s EXCEPT !.live = FALSE]}
  /\ UNCHANGED <<users, minted, owner, attempts, req, recover>>

\* A minute is over since the last attempt of an address.
Minute(i) ==
  /\ attempts[i] > 0
  /\ attempts' = [attempts EXCEPT ![i] = 0]
  /\ UNCHANGED <<users, sessions, minted, owner, req, recover>>

Next ==
  \/ \E r \in Requests :
       \/ \E s \in sessions : Begin(r, s)
       \/ CheckCSRF(r) \/ ReadActor(r) \/ Refuse(r) \/ Logout(r)
       \/ \E u \in Users :
            \/ \E role \in Roles, p \in Passwords : CreateUser(r, u, role, p)
            \/ \E role \in Roles : SetUserRole(r, u, role)
            \/ \E p \in Passwords : ChangePassword(r, u, p)
            \/ \E b \in BOOLEAN : SetUserEnabled(r, u, b)
            \/ \E i \in Ips, p \in Passwords, initial \in BOOLEAN : StartLogin(r, i, u, p, initial)
       \/ \E n \in Nodes : CreateNode(r, n) \/ DeleteNode(r, n)
       \/ InitializeAdmin(r) \/ ReadUser(r) \/ InsertSession(r)
  \/ \E u \in Users, p \in Passwords : LocalInit(u, p) \/ RecoverPassword(u, p)
  \/ RecoverEnable \/ RecoverStops
  \/ \E s \in sessions : Expire(s)
  \/ \E i \in Ips : Minute(i)

Spec == Init /\ [][Next]_vars

-----------------------------------------------------------------------------

\* Only the admin and providers own nodes: a provider's CreateNode that was authenticated
\* before the provider was made a member does not commit afterwards (activeActor), and the
\* owner of a node is not made a member (SetUserRole).
NodeOwnersProvide ==
  \A n \in Nodes : owner[n] # None => users[owner[n]].role \in {"admin", "provider"}

\* A session ends with what it was opened under: as long as its row exists, its user is
\* enabled and has the password and the role that login saw, although login compares the
\* password and inserts the row at different times.
SessionsCurrent ==
  \A s \in sessions :
    /\ users[s.user].enabled
    /\ users[s.user].password = s.password
    /\ users[s.user].role = s.role

\* There is never a second admin, whatever setups, local initialisations and requests run
\* at the same time (createUser counts in its transaction).
OneAdmin == \A u, v \in Users : users[u].role = "admin" /\ users[v].role = "admin" => u = v

-----------------------------------------------------------------------------

\* A login that has compared the password holds a version its user had; as long as the user
\* still has it, the user has the password and the role that login saw.
LoginsCurrent ==
  \A r \in Requests : req[r].pc = "insert" =>
    LET row == users[req[r].user] IN
    /\ row.role # "none"
    /\ req[r].version <= row.version
    /\ req[r].version = row.version => row.password = req[r].password /\ row.role = req[r].role

\* The whole of it, which every step of the code keeps: types, the three properties above,
\* and what they rest on: rows of sessions carry their user's version, logins are LoginsCurrent,
\* and only the admin is recovered.
AccountsInv ==
  /\ TypeOK
  /\ NodeOwnersProvide
  /\ SessionsCurrent
  /\ OneAdmin
  /\ LoginsCurrent
  /\ \A s \in sessions : s.version = users[s.user].version
  /\ recover # None => users[recover].role = "admin"

=============================================================================
