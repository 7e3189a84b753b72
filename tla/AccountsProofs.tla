--------------------------- MODULE AccountsProofs ---------------------------
(***************************************************************************)
(* AccountsInv is inductive, for every number of users, requests, nodes    *)
(* and changes.  Three lemmas say what the shared parts of the operations  *)
(* keep: a step that moves one request and changes no table, one that      *)
(* changes the row of a user (Update), one that adds a user (NewUser).     *)
(***************************************************************************)
EXTENDS Accounts, TLAPS

States == Console \cup Acting \cup Login \cup Compared \cup {Idle}

\* Sessions, users' rows and nodes hold together; the part of the invariant without req.
Tables ==
  /\ users \in [Users -> UserRows]
  /\ sessions \subseteq SessionRows
  /\ owner \in [Nodes -> Users \cup {None}]
  /\ recover \in Users \cup {None}
  /\ NodeOwnersProvide
  /\ SessionsCurrent
  /\ OneAdmin
  /\ \A s \in sessions : s.version = users[s.user].version
  /\ recover # None => users[recover].role = "admin"

\* What LoginsCurrent says of one request q, when the rows of users are us.
Fits(q, us) ==
  q.pc = "insert" =>
    /\ us[q.user].role # "none"
    /\ q.version <= us[q.user].version
    /\ q.version = us[q.user].version =>
         us[q.user].password = q.password /\ us[q.user].role = q.role

\* The invariant is the tables, the counters and the requests.
LEMMA Parts ==
  AccountsInv <=>
    /\ Tables
    /\ minted \in 0..MaxTokens
    /\ attempts \in [Ips -> 0..MaxAttempts]
    /\ req \in [Requests -> States]
    /\ \A r \in Requests : Fits(req[r], users)
  BY DEF AccountsInv, TypeOK, Tables, Fits, LoginsCurrent, States

\* The same of the next state.
LEMMA PartsNext ==
  AccountsInv' <=>
    /\ Tables'
    /\ minted' \in 0..MaxTokens
    /\ attempts' \in [Ips -> 0..MaxAttempts]
    /\ req' \in [Requests -> States]
    /\ \A r \in Requests : Fits(req'[r], users')
  BY DEF AccountsInv, TypeOK, Tables, Fits, LoginsCurrent, States

\* The empty database satisfies the invariant (Init).
LEMMA InitInv == Init => AccountsInv
  <1>. SUFFICES ASSUME Init PROVE AccountsInv
    OBVIOUS
  <1>1. Tables
    BY ConstantsAssumption DEF Init, Tables, NodeOwnersProvide, SessionsCurrent, OneAdmin, UserRows
  <1>2. /\ minted \in 0..MaxTokens
        /\ attempts \in [Ips -> 0..MaxAttempts]
    BY ConstantsAssumption DEF Init
  <1>3. /\ req \in [Requests -> States]
        /\ \A r \in Requests : Fits(req[r], users)
    BY DEF Init, States, Fits, Idle
  <1>. QED
    BY <1>1, <1>2, <1>3, Parts

\* Requests are told apart by where they are.
LEMMA PcType ==
  ASSUME NEW q \in States
  PROVE  /\ q.pc \in {"csrf", "handler"} => q \in Console
         /\ q.pc = "store" => q \in Acting
         /\ q.pc \in {"setup", "login"} => q \in Login
         /\ q.pc = "insert" => q \in Compared
  BY DEF States, Console, Acting, Login, Compared, Idle

\* The tables are kept by a step that changes none of them.
LEMMA TablesFrame ==
  ASSUME Tables, UNCHANGED <<users, sessions, owner, recover>>
  PROVE  Tables'
  BY DEF Tables, NodeOwnersProvide, SessionsCurrent, OneAdmin

\* A request goes to a state q that fits the users of the next state, as do all others.
LEMMA Moves ==
  ASSUME AccountsInv, NEW r \in Requests, NEW q \in States,
         req' = [req EXCEPT ![r] = q],
         Tables', minted' \in 0..MaxTokens, attempts' \in [Ips -> 0..MaxAttempts],
         Fits(q, users'), \A s \in Requests : Fits(req[s], users')
  PROVE  AccountsInv'
  <1>1. req' \in [Requests -> States] /\ \A s \in Requests : req'[s] = IF s = r THEN q ELSE req[s]
    BY Parts
  <1>. QED
    BY <1>1, PartsNext

\* Update, with a new password, enablement or role: the user's sessions are gone, and no login
\* of the user that has read the row fits the new version.
LEMMA UpdateKeeps ==
  ASSUME AccountsInv, NEW u \in Users, NEW row \in UserRows,
         row.version = users[u].version, Update(u, row), UNCHANGED owner,
         \/ row.role = users[u].role
         \/ /\ {row.role, users[u].role} \subseteq {"provider", "member"}
            /\ row.role = "member" => \A n \in Nodes : owner[n] # u,
         users[u].role # "none",
         recover' \in {recover, None} \/ (recover' = u /\ row.role = "admin")
  PROVE  Tables' /\ \A r \in Requests : Fits(req[r], users')
  <1>0. Tables /\ req \in [Requests -> States] /\ \A r \in Requests : Fits(req[r], users)
    BY Parts
  <1>1. users[u].version \in 1..MaxVersion /\ users[u].version + 1 \in 1..MaxVersion
    BY <1>0, ConstantsAssumption DEF Update, Tables, UserRows
  <1>2. DEFINE new == [row EXCEPT !.version = @ + 1]
  <1>3. /\ new \in UserRows
        /\ new.version = users[u].version + 1
        /\ new.role = row.role
    BY <1>1 DEF UserRows
  <1>4. /\ users' = [users EXCEPT ![u] = new]
        /\ sessions' = {s \in sessions : s.user # u}
    BY DEF Update
  <1>. HIDE DEF new
  <1>5. /\ users' \in [Users -> UserRows]
        /\ users'[u] = new
        /\ \A v \in Users : v # u => users'[v] = users[v]
    BY <1>0, <1>3, <1>4 DEF Tables
  <1>6. /\ sessions' \subseteq SessionRows
        /\ \A s \in sessions' : s \in sessions /\ s.user \in Users /\ users'[s.user] = users[s.user]
    BY <1>0, <1>4, <1>5 DEF Tables, SessionRows
  <1>7. new.role # "none" /\ (new.role = "admin" <=> users[u].role = "admin")
    BY <1>3 
  <1>8. NodeOwnersProvide'
    <2>1. ASSUME NEW n \in Nodes, owner[n] # None PROVE users'[owner[n]].role \in {"admin", "provider"}
      <3>1. owner[n] \in Users /\ users[owner[n]].role \in {"admin", "provider"}
        BY <1>0, <2>1 DEF Tables, NodeOwnersProvide
      <3>2. CASE owner[n] = u
        BY <3>1, <3>2, <1>3, <1>5
      <3>3. CASE owner[n] # u
        BY <3>1, <3>3, <1>5
      <3>. QED
        BY <3>2, <3>3
    <2>. QED
      BY <2>1 DEF NodeOwnersProvide
  <1>9. SessionsCurrent' /\ \A s \in sessions' : s.version = users'[s.user].version
    BY <1>0, <1>6 DEF Tables, SessionsCurrent
  <1>10. OneAdmin'
    BY <1>0, <1>5, <1>7 DEF Tables, OneAdmin
  <1>11. recover' \in Users \cup {None} /\ (recover' # None => users'[recover'].role = "admin")
    BY <1>0, <1>3, <1>5, <1>7 DEF Tables
  <1>12. owner' \in [Nodes -> Users \cup {None}]
    BY <1>0 DEF Tables
  <1>13. Tables'
    BY <1>5, <1>6, <1>8, <1>9, <1>10, <1>11, <1>12 DEF Tables
  <1>14. ASSUME NEW r \in Requests PROVE Fits(req[r], users')
    <2>1. CASE req[r].pc = "insert"
      <3>1. req[r].user \in Users /\ req[r].version \in 1..MaxVersion
        BY <1>0, <2>1, PcType DEF Compared
      <3>2. CASE req[r].user = u
        <4>1. req[r].version <= users[u].version
          BY <1>0, <2>1, <3>2 DEF Fits
        <4>2. req[r].version < new.version
          BY <4>1, <1>1, <1>3, <3>1
        <4>. QED
          BY <4>2, <3>1, <3>2, <1>1, <1>3, <1>5, <1>7 DEF Fits
      <3>3. CASE req[r].user # u
        BY <1>0, <1>5, <3>1, <3>3 DEF Fits
      <3>. QED
        BY <3>2, <3>3
    <2>2. CASE req[r].pc # "insert"
      BY <2>2 DEF Fits
    <2>. QED
      BY <2>1, <2>2
  <1>. QED
    BY <1>13, <1>14

\* NewUser, with a role: the user had no session, no node and no login before.
LEMMA NewUserKeeps ==
  ASSUME AccountsInv, NEW u \in Users, NEW role \in Roles, NEW p \in Passwords,
         NewUser(u, role, p), role = "admin" => ~hasAdmin,
         UNCHANGED <<sessions, owner, recover>>
  PROVE  Tables' /\ \A r \in Requests : Fits(req[r], users')
  <1>0. Tables /\ req \in [Requests -> States] /\ \A r \in Requests : Fits(req[r], users)
    BY Parts
  <1>1. PICK new \in UserRows : users' = [users EXCEPT ![u] = new] /\ new.role = role
    <2>1. users[u] \in UserRows
      BY <1>0 DEF Tables
    <2>2. [users[u] EXCEPT !.role = role, !.enabled = TRUE, !.password = p] \in UserRows
      BY <2>1 DEF UserRows
    <2>3. [users[u] EXCEPT !.role = role, !.enabled = TRUE, !.password = p].role = role
      BY <2>1 DEF UserRows
    <2>. QED
      BY <2>2, <2>3, <1>0 DEF NewUser, Tables
  <1>2. users[u].role = "none"
    BY DEF NewUser, Exists
  <1>3. /\ users' \in [Users -> UserRows]
        /\ users'[u] = new
        /\ \A v \in Users : v # u => users'[v] = users[v]
    BY <1>0, <1>1 DEF Tables
  <1>4. \A s \in sessions : s.user \in Users /\ s.user # u
    BY <1>0, <1>2 DEF Tables, SessionsCurrent, SessionRows, Roles
  <1>5. NodeOwnersProvide'
    BY <1>0, <1>2, <1>3 DEF Tables, NodeOwnersProvide
  <1>6. SessionsCurrent' /\ \A s \in sessions' : s.version = users'[s.user].version
    BY <1>0, <1>3, <1>4 DEF Tables, SessionsCurrent
  <1>7. OneAdmin'
    BY <1>0, <1>1, <1>3 DEF Tables, OneAdmin, hasAdmin
  <1>8. recover' # None => users'[recover'].role = "admin"
    BY <1>0, <1>2, <1>3 DEF Tables
  <1>9. Tables'
    BY <1>0, <1>3, <1>5, <1>6, <1>7, <1>8 DEF Tables
  <1>10. ASSUME NEW r \in Requests PROVE Fits(req[r], users')
    <2>1. CASE req[r].pc = "insert"
      <3>1. req[r].user \in Users
        BY <1>0, <2>1, PcType DEF Compared
      <3>2. req[r].user # u
        BY <1>0, <1>2, <2>1 DEF Fits
      <3>. QED
        BY <1>0, <1>3, <3>1, <3>2 DEF Fits
    <2>2. CASE req[r].pc # "insert"
      BY <2>2 DEF Fits
    <2>. QED
      BY <2>1, <2>2
  <1>. QED
    BY <1>9, <1>10

\* A request goes on and no table changes.
LEMMA MovesOnly ==
  ASSUME AccountsInv, NEW r \in Requests, NEW q \in States,
         req' = [req EXCEPT ![r] = q], Fits(q, users),
         attempts' \in [Ips -> 0..MaxAttempts],
         UNCHANGED <<users, sessions, minted, owner, recover>>
  PROVE  AccountsInv'
  <1>1. Tables' /\ minted' \in 0..MaxTokens /\ \A s \in Requests : Fits(req[s], users')
    BY Parts, TablesFrame
  <1>2. Fits(q, users')
    OBVIOUS
  <1>. QED
    BY <1>1, <1>2, Moves

\* A request ends with its transaction.
LEMMA Ends ==
  ASSUME AccountsInv, NEW r \in Requests, Respond(r), Tables',
         minted' \in 0..MaxTokens, attempts' \in [Ips -> 0..MaxAttempts],
         \A s \in Requests : Fits(req[s], users')
  PROVE  AccountsInv'
  <1>1. Idle \in States /\ Fits(Idle, users')
    BY DEF States, Fits, Idle
  <1>. QED
    BY <1>1, Moves DEF Respond

\* The steps of a request before its transaction keep the invariant: ServeHTTP, checkCSRF,
\* h.actor and refusals.
LEMMA ReadSteps ==
  ASSUME AccountsInv, NEW r \in Requests,
         (\E s \in sessions : Begin(r, s)) \/ CheckCSRF(r) \/ ReadActor(r) \/ Refuse(r)
  PROVE  AccountsInv'
  <1>0. /\ Tables /\ attempts \in [Ips -> 0..MaxAttempts] /\ minted \in 0..MaxTokens
        /\ req \in [Requests -> States] /\ \A s \in Requests : Fits(req[s], users)
    BY Parts
  <1>1. ASSUME NEW s \in sessions, Begin(r, s) PROVE AccountsInv'
    <2>1. [pc |-> "csrf", token |-> s.token] \in States
      BY <1>0 DEF States, Console, Tables, SessionRows
    <2>2. Fits([pc |-> "csrf", token |-> s.token], users)
      BY DEF Fits
    <2>. QED
      BY <1>0, <1>1, <2>1, <2>2, MovesOnly DEF Begin
  <1>2. CASE CheckCSRF(r)
    <2>1. req[r] \in Console
      BY <1>0, <1>2, PcType DEF CheckCSRF
    <2>. DEFINE q == [req[r] EXCEPT !.pc = "handler"]
    <2>2. q \in Console /\ q.pc = "handler"
      BY <2>1 DEF Console
    <2>3. q \in States /\ Fits(q, users)
      BY <2>2 DEF States, Fits
    <2>4. req' = [req EXCEPT ![r] = q]
      BY <1>2, <2>2 DEF CheckCSRF
    <2>. QED
      BY <1>0, <1>2, <2>3, <2>4, MovesOnly DEF CheckCSRF
  <1>3. CASE ReadActor(r)
    <2>1. PICK s \in sessions :
            req' = [req EXCEPT ![r] = [pc |-> "store", actor |-> s.user, role |-> users[s.user].role]]
      BY <1>3 DEF ReadActor
    <2>2. s.user \in Users /\ users[s.user].role \in Roles
      BY <1>0 DEF Tables, SessionsCurrent, SessionRows
    <2>3. [pc |-> "store", actor |-> s.user, role |-> users[s.user].role] \in States
      BY <2>2 DEF States, Acting
    <2>4. Fits([pc |-> "store", actor |-> s.user, role |-> users[s.user].role], users)
      BY DEF Fits
    <2>. QED
      BY <1>0, <1>3, <2>1, <2>3, <2>4, MovesOnly DEF ReadActor
  <1>4. CASE Refuse(r)
    <2>1. Tables'
      BY <1>0, <1>4, TablesFrame DEF Refuse
    <2>. QED
      BY <1>0, <1>4, <2>1, Ends DEF Refuse
  <1>. QED
    BY <1>1, <1>2, <1>3, <1>4

\* The transactions on users keep the invariant: CreateUser, SetUserRole, ChangePassword and
\* SetUserEnabled.
LEMMA UserSteps ==
  ASSUME AccountsInv, NEW r \in Requests, NEW u \in Users,
         \/ \E role \in Roles, p \in Passwords : CreateUser(r, u, role, p)
         \/ \E role \in Roles : SetUserRole(r, u, role)
         \/ \E p \in Passwords : ChangePassword(r, u, p)
         \/ \E b \in BOOLEAN : SetUserEnabled(r, u, b)
  PROVE  AccountsInv'
  <1>0. /\ Tables /\ attempts \in [Ips -> 0..MaxAttempts] /\ minted \in 0..MaxTokens
        /\ users[u] \in UserRows
    BY Parts DEF Tables
  <1>1. ASSUME NEW role \in Roles, NEW p \in Passwords, CreateUser(r, u, role, p) PROVE AccountsInv'
    <2>1. Tables' /\ \A s \in Requests : Fits(req[s], users')
      BY <1>1, NewUserKeeps DEF CreateUser
    <2>. QED
      BY <1>0, <1>1, <2>1, Ends DEF CreateUser, Active
  <1>2. ASSUME NEW role \in Roles, SetUserRole(r, u, role) PROVE AccountsInv'
    <2>. DEFINE row == [users[u] EXCEPT !.role = role]
    <2>1. row \in UserRows /\ row.version = users[u].version /\ row.role = role
      BY <1>0 DEF UserRows
    <2>2. Tables' /\ \A s \in Requests : Fits(req[s], users')
      <3>1. {role, users[u].role} \subseteq {"provider", "member"} /\ users[u].role # "none"
        BY <1>2 DEF SetUserRole
      <3>. QED
        BY <1>2, <2>1, <3>1, UpdateKeeps DEF SetUserRole
    <2>. QED
      BY <1>0, <1>2, <2>2, Ends DEF SetUserRole, Active
  <1>3. ASSUME NEW p \in Passwords, ChangePassword(r, u, p) PROVE AccountsInv'
    <2>. DEFINE row == [users[u] EXCEPT !.password = p]
    <2>1. row \in UserRows /\ row.version = users[u].version /\ row.role = users[u].role
      BY <1>0 DEF UserRows
    <2>2. Tables' /\ \A s \in Requests : Fits(req[s], users')
      BY <1>3, <2>1, UpdateKeeps DEF ChangePassword, Exists
    <2>. QED
      BY <1>0, <1>3, <2>2, Ends DEF ChangePassword, Active
  <1>4. ASSUME NEW b \in BOOLEAN, SetUserEnabled(r, u, b) PROVE AccountsInv'
    <2>. DEFINE row == [users[u] EXCEPT !.enabled = b]
    <2>1. row \in UserRows /\ row.version = users[u].version /\ row.role = users[u].role
      BY <1>0 DEF UserRows
    <2>2. Tables' /\ \A s \in Requests : Fits(req[s], users')
      BY <1>4, <2>1, UpdateKeeps DEF SetUserEnabled, Exists
    <2>. QED
      BY <1>0, <1>4, <2>2, Ends DEF SetUserEnabled, Active
  <1>. QED
    BY <1>1, <1>2, <1>3, <1>4

\* The transactions on nodes and sessions keep the invariant: CreateNode, DeleteNode, logout.
LEMMA NodeSteps ==
  ASSUME AccountsInv, NEW r \in Requests,
         (\E n \in Nodes : CreateNode(r, n) \/ DeleteNode(r, n)) \/ Logout(r)
  PROVE  AccountsInv'
  <1>0. /\ Tables /\ attempts \in [Ips -> 0..MaxAttempts] /\ minted \in 0..MaxTokens
        /\ req \in [Requests -> States] /\ \A s \in Requests : Fits(req[s], users)
    BY Parts
  <1>1. ASSUME NEW n \in Nodes, CreateNode(r, n) PROVE AccountsInv'
    <2>1. req[r].actor \in Users /\ users[req[r].actor].role \in {"admin", "provider"}
      BY <1>0, <1>1, PcType DEF CreateNode, Active, activeActor, Acting
    <2>2. owner' \in [Nodes -> Users \cup {None}] /\ NodeOwnersProvide'
      BY <1>0, <1>1, <2>1 DEF CreateNode, Tables, NodeOwnersProvide
    <2>3. Tables'
      BY <1>0, <1>1, <2>2 DEF CreateNode, Tables, SessionsCurrent, OneAdmin
    <2>. QED
      BY <1>0, <1>1, <2>3, Ends DEF CreateNode, Active
  <1>2. ASSUME NEW n \in Nodes, DeleteNode(r, n) PROVE AccountsInv'
    <2>1. owner' \in [Nodes -> Users \cup {None}] /\ NodeOwnersProvide'
      BY <1>0, <1>2 DEF DeleteNode, Tables, NodeOwnersProvide
    <2>2. Tables'
      BY <1>0, <1>2, <2>1 DEF DeleteNode, Tables, SessionsCurrent, OneAdmin
    <2>. QED
      BY <1>0, <1>2, <2>2, Ends DEF DeleteNode, Active
  <1>3. CASE Logout(r)
    <2>1. Tables'
      BY <1>0, <1>3 DEF Logout, Tables, NodeOwnersProvide, SessionsCurrent, OneAdmin
    <2>. QED
      BY <1>0, <1>3, <2>1, Ends DEF Logout
  <1>. QED
    BY <1>1, <1>2, <1>3

\* The steps of the login handler keep the invariant: the count of attempts, InitializeAdmin,
\* and login, whose insertion finds the row of the user as it was read.
LEMMA LoginSteps ==
  ASSUME AccountsInv, NEW r \in Requests,
         \/ \E u \in Users, i \in Ips, p \in Passwords, initial \in BOOLEAN :
              StartLogin(r, i, u, p, initial)
         \/ InitializeAdmin(r) \/ ReadUser(r) \/ InsertSession(r)
  PROVE  AccountsInv'
  <1>0. /\ Tables /\ attempts \in [Ips -> 0..MaxAttempts] /\ minted \in 0..MaxTokens
        /\ req \in [Requests -> States] /\ \A s \in Requests : Fits(req[s], users)
    BY Parts
  <1>1. ASSUME NEW u \in Users, NEW i \in Ips, NEW p \in Passwords, NEW initial \in BOOLEAN,
               StartLogin(r, i, u, p, initial)
        PROVE  AccountsInv'
    <2>1. attempts' \in [Ips -> 0..MaxAttempts]
      BY <1>0, <1>1, ConstantsAssumption DEF StartLogin, Allowed
    <2>2. PICK at \in {"setup", "login"} :
            req' = [req EXCEPT ![r] = [pc |-> at, user |-> u, password |-> p, ip |-> i]]
      BY <1>1 DEF StartLogin
    <2>3. [pc |-> at, user |-> u, password |-> p, ip |-> i] \in States
      BY DEF States, Login
    <2>4. Fits([pc |-> at, user |-> u, password |-> p, ip |-> i], users)
      BY DEF Fits
    <2>. QED
      BY <1>1, <2>1, <2>2, <2>3, <2>4, MovesOnly DEF StartLogin
  <1>2. CASE InitializeAdmin(r)
    <2>1. req[r] \in Login
      BY <1>0, <1>2, PcType DEF InitializeAdmin
    <2>2. req[r].user \in Users /\ req[r].password \in Passwords
      BY <2>1 DEF Login
    <2>3. Tables' /\ \A s \in Requests : Fits(req[s], users')
      BY <1>2, <2>2, NewUserKeeps DEF InitializeAdmin, Roles
    <2>. DEFINE q == [req[r] EXCEPT !.pc = "login"]
    <2>4. q \in Login /\ q.pc = "login"
      BY <2>1 DEF Login
    <2>5. q \in States /\ Fits(q, users')
      BY <2>4 DEF States, Fits
    <2>6. req' = [req EXCEPT ![r] = q]
      BY <1>2 DEF InitializeAdmin
    <2>. QED
      BY <1>0, <1>2, <2>3, <2>5, <2>6, Moves DEF InitializeAdmin
  <1>3. CASE ReadUser(r)
    <2>1. req[r] \in Login
      BY <1>0, <1>3, PcType DEF ReadUser
    <2>2. req[r].user \in Users /\ req[r].ip \in Ips
      BY <2>1 DEF Login
    <2>. DEFINE u == req[r].user
    <2>. DEFINE q == [pc |-> "insert", user |-> u, version |-> users[u].version, ip |-> req[r].ip,
                      role |-> users[u].role, password |-> users[u].password]
    <2>3. users[u] \in UserRows /\ users[u].role # "none"
      BY <1>0, <1>3, <2>2 DEF Tables, ReadUser, Exists
    <2>4. /\ users[u].version \in 1..MaxVersion /\ users[u].role \in Roles
          /\ users[u].password \in Passwords
      BY <2>3 DEF UserRows
    <2>5. q \in States
      BY <2>2, <2>4 DEF States, Compared
    <2>6. Fits(q, users)
      <3>1. /\ q.user = u /\ q.version = users[u].version
            /\ q.password = users[u].password /\ q.role = users[u].role
        OBVIOUS
      <3>. HIDE DEF q
      <3>2. users[u].version \in Nat
        BY <2>4, ConstantsAssumption
      <3>3. q.version <= users[u].version
        BY <3>1, <3>2
      <3>. QED
        BY <2>3, <3>1, <3>3 DEF Fits
    <2>7. req' = [req EXCEPT ![r] = q]
      BY <1>3 DEF ReadUser
    <2>. HIDE DEF q
    <2>. QED
      BY <1>0, <1>3, <2>5, <2>6, <2>7, MovesOnly DEF ReadUser
  <1>4. CASE InsertSession(r)
    <2>1. req[r] \in Compared
      BY <1>0, <1>4, PcType DEF InsertSession
    <2>. DEFINE u == req[r].user
    <2>. DEFINE row == [token |-> minted + 1, user |-> u, version |-> req[r].version, live |-> TRUE,
                        role |-> req[r].role, password |-> req[r].password]
    <2>2. u \in Users /\ req[r].ip \in Ips
      BY <2>1 DEF Compared
    <2>3. minted' = minted + 1 /\ minted + 1 \in Tokens /\ minted' \in 0..MaxTokens
      BY <1>0, <1>4, ConstantsAssumption DEF InsertSession, Tokens
    <2>4. row \in SessionRows
      BY <2>1, <2>3 DEF Compared, SessionRows
    <2>5. /\ users[u].enabled /\ users[u].version = row.version
          /\ users[u].password = row.password /\ users[u].role = row.role
      BY <1>0, <1>4 DEF InsertSession, Unchanged, Fits
    <2>6. sessions' = sessions \cup {row} /\ row.user = u
      BY <1>4 DEF InsertSession
    <2>. HIDE DEF row
    <2>7. SessionsCurrent' /\ \A s \in sessions' : s.version = users'[s.user].version
      BY <1>0, <1>4, <2>5, <2>6 DEF InsertSession, Tables, SessionsCurrent
    <2>8. Tables'
      BY <1>0, <1>4, <2>4, <2>6, <2>7 DEF InsertSession, Tables, NodeOwnersProvide, OneAdmin
    <2>9. attempts' \in [Ips -> 0..MaxAttempts]
      BY <1>0, <1>4, <2>2, ConstantsAssumption DEF InsertSession
    <2>. QED
      BY <1>0, <1>4, <2>3, <2>8, <2>9, Ends DEF InsertSession
  <1>. QED
    BY <1>1, <1>2, <1>3, <1>4

\* The steps of the machine's administrator and of time keep the invariant: InitializeAdmin and
\* RecoverAdmin over the local socket, the end of a session and of an address's minute.
LEMMA OtherSteps ==
  ASSUME AccountsInv,
         \/ \E u \in Users, p \in Passwords : LocalInit(u, p) \/ RecoverPassword(u, p)
         \/ RecoverEnable \/ RecoverStops
         \/ \E s \in sessions : Expire(s)
         \/ \E i \in Ips : Minute(i)
  PROVE  AccountsInv'
  <1>0. /\ Tables /\ attempts \in [Ips -> 0..MaxAttempts] /\ minted \in 0..MaxTokens
        /\ req \in [Requests -> States] /\ \A s \in Requests : Fits(req[s], users)
    BY Parts
  <1>1. ASSUME NEW u \in Users, NEW p \in Passwords, LocalInit(u, p) PROVE AccountsInv'
    <2>1. Tables' /\ \A s \in Requests : Fits(req[s], users')
      BY <1>1, NewUserKeeps DEF LocalInit, Roles
    <2>. QED
      BY <1>0, <1>1, <2>1, PartsNext DEF LocalInit
  <1>2. ASSUME NEW u \in Users, NEW p \in Passwords, RecoverPassword(u, p) PROVE AccountsInv'
    <2>. DEFINE row == [users[u] EXCEPT !.password = p]
    <2>0. users[u] \in UserRows
      BY <1>0 DEF Tables
    <2>1. row \in UserRows /\ row.version = users[u].version /\ row.role = users[u].role
      BY <2>0 DEF UserRows
    <2>2. Tables' /\ \A s \in Requests : Fits(req[s], users')
      BY <1>2, <2>1, UpdateKeeps DEF RecoverPassword
    <2>. QED
      BY <1>0, <1>2, <2>2, PartsNext DEF RecoverPassword
  <1>3. CASE RecoverEnable
    <2>. DEFINE row == [users[recover] EXCEPT !.enabled = TRUE]
    <2>0. recover \in Users /\ users[recover] \in UserRows /\ users[recover].role = "admin"
      BY <1>0, <1>3 DEF Tables, RecoverEnable
    <2>1. row \in UserRows /\ row.version = users[recover].version /\ row.role = users[recover].role
      BY <2>0 DEF UserRows
    <2>2. Tables' /\ \A s \in Requests : Fits(req[s], users')
      BY <1>3, <2>0, <2>1, UpdateKeeps DEF RecoverEnable
    <2>. QED
      BY <1>0, <1>3, <2>2, PartsNext DEF RecoverEnable
  <1>4. CASE RecoverStops
    <2>1. Tables'
      BY <1>0, <1>4 DEF RecoverStops, Tables, NodeOwnersProvide, SessionsCurrent, OneAdmin
    <2>. QED
      BY <1>0, <1>4, <2>1, PartsNext DEF RecoverStops
  <1>5. ASSUME NEW s \in sessions, Expire(s) PROVE AccountsInv'
    <2>. DEFINE row == [s EXCEPT !.live = FALSE]
    <2>1. s \in SessionRows
      BY <1>0 DEF Tables
    <2>2. /\ row \in SessionRows
          /\ row.user = s.user /\ row.version = s.version
          /\ row.role = s.role /\ row.password = s.password
      BY <2>1 DEF SessionRows
    <2>3. sessions' = (sessions \ {s}) \cup {row}
      BY <1>5 DEF Expire
    <2>. HIDE DEF row
    <2>4. SessionsCurrent' /\ \A t \in sessions' : t.version = users'[t.user].version
      BY <1>0, <1>5, <2>2, <2>3 DEF Expire, Tables, SessionsCurrent
    <2>5. Tables'
      BY <1>0, <1>5, <2>2, <2>3, <2>4 DEF Expire, Tables, NodeOwnersProvide, OneAdmin
    <2>. QED
      BY <1>0, <1>5, <2>5, PartsNext DEF Expire
  <1>6. ASSUME NEW i \in Ips, Minute(i) PROVE AccountsInv'
    <2>1. Tables'
      BY <1>0, <1>6, TablesFrame DEF Minute
    <2>2. attempts' \in [Ips -> 0..MaxAttempts]
      BY <1>0, <1>6, ConstantsAssumption DEF Minute
    <2>. QED
      BY <1>0, <1>6, <2>1, <2>2, PartsNext DEF Minute
  <1>. QED
    BY <1>1, <1>2, <1>3, <1>4, <1>5, <1>6

\* Types, tables, sessions and logins hold together in every reachable state: what auth.go and
\* http.go keep, whatever requests run at the same time.
THEOREM AccountsInvariant == Spec => []AccountsInv
  <1>1. AccountsInv /\ [Next]_vars => AccountsInv'
    <2>. SUFFICES ASSUME AccountsInv, [Next]_vars PROVE AccountsInv'
      OBVIOUS
    <2>1. CASE Next
      BY <2>1, ReadSteps, UserSteps, NodeSteps, LoginSteps, OtherSteps DEF Next
    <2>2. CASE UNCHANGED vars
      BY <2>2, Parts, PartsNext, TablesFrame DEF vars
    <2>. QED
      BY <2>1, <2>2
  <1>. QED
    BY InitInv, <1>1, PTL DEF Spec

\* Only the admin and providers own nodes (CreateNode, SetUserRole).
THEOREM OwnersProvide == Spec => []NodeOwnersProvide
  <1>1. AccountsInv => NodeOwnersProvide
    BY DEF AccountsInv
  <1>. QED
    BY <1>1, AccountsInvariant, PTL

\* A session never outlives the password, the role or the enablement it was opened under (login,
\* SetUserRole, ChangePassword, SetUserEnabled).
THEOREM SessionsEnd == Spec => []SessionsCurrent
  <1>1. AccountsInv => SessionsCurrent
    BY DEF AccountsInv
  <1>. QED
    BY <1>1, AccountsInvariant, PTL

\* Concurrent setups make one admin (createUser).
THEOREM AdminUnique == Spec => []OneAdmin
  <1>1. AccountsInv => OneAdmin
    BY DEF AccountsInv
  <1>. QED
    BY <1>1, AccountsInvariant, PTL
=============================================================================
