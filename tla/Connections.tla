---------------------------- MODULE Connections ----------------------------
(***************************************************************************)
(* The server's registry of client connections and the accounts that sign  *)
(* in on them: ConnectionManager, ClientConnection, the sign-in half of    *)
(* AuthRequestHandler and the account half of AdminRequestHandler.         *)
(*                                                                         *)
(* The server runs one Qt event loop, so a request handler runs to its end *)
(* before the next event is looked at: one action is one handler.  What    *)
(* interleaves is the ORDER of the handlers of different connections.      *)
(*                                                                         *)
(* A push ("send this event to user u") goes through userToClient, which   *)
(* holds at most one connection per user.  The questions asked here are    *)
(* who can be reached through it, and who is told that he was blocked.     *)
(***************************************************************************)

CONSTANTS
  User,      \* the usernames that may ever own an account
  Admins,    \* those whose account row has, or will have, role Admin
  Seeded,    \* those with an account in a freshly seeded database
  Conn,      \* client ids (UUIDs) that may ever be handed out
  NoUser,    \* the empty QString of a connection nobody signed in on
  NoConn     \* "no entry" in userToClient

ASSUME ConnectionsAssumption ==
  /\ Admins \subseteq User
  /\ Seeded \subseteq User
  /\ NoUser \notin User
  /\ NoConn \notin Conn

VARIABLES
  conns,         \* m_connections: the live connections
  used,          \* client ids handed out so far (a UUID never comes back)
  connUser,      \* ClientConnection::m_userId
  authed,        \* ClientConnection::m_authenticated
  userToClient,  \* m_userToClientMap
  status,        \* the status column of Users; "Absent" when there is no row
  shared,        \* history: users seen on two connections in this server run
  told           \* history: connections sent EvtUserBlocked by the last block

registryVars == <<conns, used, connUser, authed, userToClient, status, shared, told>>

Status == {"Absent", "Pending", "Active", "Blocked", "Disabled", "Deleted"}

RegistryTypeOK ==
  /\ conns \subseteq used
  /\ used \subseteq Conn
  /\ connUser \in [Conn -> User \cup {NoUser}]
  /\ authed \in [Conn -> BOOLEAN]
  /\ userToClient \in [User -> Conn \cup {NoConn}]
  /\ status \in [User -> Status]
  /\ shared \subseteq User
  /\ told \subseteq Conn

-----------------------------------------------------------------------------
(* ConnectionManager's user map.                                           *)

RegisterUser(u, c, map) == [x \in User |-> IF x = u THEN c ELSE map[x]]

UnregisterUser(u, map) == [x \in User |-> IF x = u THEN NoConn ELSE map[x]]

\* The connections user u is signed in on, and where a push for u is sent.
Sessions(u) == {c \in conns : connUser[c] = u}

PushTargets(u) == {c \in conns : userToClient[u] = c}

\* ClientConnection::setUserId, NoUser being the empty string: nothing at all
\* happens when the id is already set, the map is not consulted.
SetUserIdKeepingOldRoute(c, u) ==
  /\ connUser' = [connUser EXCEPT ![c] = u]
  /\ userToClient' =
       IF connUser[c] = u THEN userToClient ELSE RegisterUser(u, c, userToClient)

SetUserIdWithoutRoute(c, u) ==
  /\ connUser' = [connUser EXCEPT ![c] = u]
  /\ userToClient' =
       IF connUser[c] = u THEN userToClient
       ELSE UnregisterUser(connUser[c], userToClient)

SetUserId(c, u) ==
  /\ connUser' = [connUser EXCEPT ![c] = u]
  /\ userToClient' =
       IF connUser[c] = u THEN userToClient
       ELSE RegisterUser(u, c, UnregisterUser(connUser[c], userToClient))

-----------------------------------------------------------------------------
RegistryInit ==
  /\ conns = {}
  /\ used = {}
  /\ connUser = [c \in Conn |-> NoUser]
  /\ authed = [c \in Conn |-> FALSE]
  /\ userToClient = [u \in User |-> NoConn]
  /\ status = [u \in User |-> IF u \in Seeded THEN "Active" ELSE "Absent"]
  /\ shared = {}
  /\ told = {}

\* onNewConnection: a fresh id, nobody signed in.
Accept(c) ==
  /\ c \notin used
  /\ conns' = conns \cup {c}
  /\ used' = used \cup {c}
  /\ UNCHANGED <<connUser, authed, userToClient, status, shared, told>>

\* What a successful handleLogin and a successful handleRegister end with.
SignIn(c, u) ==
  /\ SetUserId(c, u)
  /\ authed' = [authed EXCEPT ![c] = TRUE]
  /\ shared' = IF Sessions(u) \ {c} = {} THEN shared ELSE shared \cup {u}
  /\ UNCHANGED <<conns, used, told>>

\* handleLogin with the right password.  It neither looks at whom the
\* connection belongs to now, nor at the other connections of u.
LoginUnchecked(c, u) ==
  /\ c \in conns
  /\ status[u] # "Absent"
  /\ SignIn(c, u)
  /\ UNCHANGED status

Login(c, u) ==
  /\ c \in conns
  /\ status[u] \in {"Active", "Pending"}
  /\ SignIn(c, u)
  /\ UNCHANGED status

\* handleRegister: createUserFromPayload sets Pending, registerAccount then
\* overwrites it with Active before the row is inserted.
Register(c, u) ==
  /\ c \in conns
  /\ status[u] = "Absent"
  /\ status' = [status EXCEPT ![u] = "Active"]
  /\ SignIn(c, u)

\* handleLogout, which needs no authentication.
Logout(c) ==
  /\ c \in conns
  /\ authed' = [authed EXCEPT ![c] = FALSE]
  /\ SetUserId(c, NoUser)
  /\ UNCHANGED <<conns, used, status, shared, told>>

\* onDisconnected / onErrorOccurred.  removeConnection is called twice (by the
\* signal and directly); the second call finds nothing and returns.
Disconnect(c) ==
  /\ c \in conns
  /\ conns' = conns \ {c}
  /\ userToClient' = UnregisterUser(connUser[c], userToClient)
  /\ connUser' = [connUser EXCEPT ![c] = NoUser]
  /\ authed' = [authed EXCEPT ![c] = FALSE]
  /\ UNCHANGED <<used, status, shared, told>>

-----------------------------------------------------------------------------
(* AdminRequestHandler: requireRole looks at the role of the row, not at   *)
(* its status.                                                             *)

RequireAdmin(a) == a \in conns /\ authed[a] /\ connUser[a] \in Admins

\* setAccountStatus: an UPDATE that matches no row still succeeds.
SetAccountStatus(u, s) ==
  status' = IF status[u] = "Absent" THEN status ELSE [status EXCEPT ![u] = s]

BlockUserSilently(a, u) ==
  /\ RequireAdmin(a)
  /\ u \in Admins => status[u] = "Absent"
  /\ SetAccountStatus(u, "Blocked")
  /\ told' = told \ Sessions(u)
  /\ UNCHANGED <<conns, used, connUser, authed, userToClient, shared>>

\* handleBlockUser: refuses an existing admin, updates the row, pushes
\* EvtUserBlocked.  The user's connections stay open and signed in.
BlockUser(a, u) ==
  /\ RequireAdmin(a)
  /\ u \in Admins => status[u] = "Absent"
  /\ SetAccountStatus(u, "Blocked")
  /\ told' = (told \ Sessions(u)) \cup PushTargets(u)
  /\ UNCHANGED <<conns, used, connUser, authed, userToClient, shared>>

\* handleUnblockUser: Active, whatever the status was.
UnblockUser(a, u) ==
  /\ RequireAdmin(a)
  /\ SetAccountStatus(u, "Active")
  /\ UNCHANGED <<conns, used, connUser, authed, userToClient, shared, told>>

\* handleDeleteUser: a soft delete, nothing is pushed.
DeleteUser(a, u) ==
  /\ RequireAdmin(a)
  /\ u \in Admins => status[u] = "Absent"
  /\ SetAccountStatus(u, "Deleted")
  /\ UNCHANGED <<conns, used, connUser, authed, userToClient, shared, told>>

\* The process stops or crashes and is started again: the accounts are in the
\* database, everything else is gone.
Restart ==
  /\ conns' = {}
  /\ connUser' = [c \in Conn |-> NoUser]
  /\ authed' = [c \in Conn |-> FALSE]
  /\ userToClient' = [u \in User |-> NoConn]
  /\ shared' = {}
  /\ told' = {}
  /\ UNCHANGED <<used, status>>

RegistryNext ==
  \/ Restart
  \/ \E c \in Conn : Accept(c) \/ Logout(c) \/ Disconnect(c)
  \/ \E c \in Conn, u \in User :
       \/ Login(c, u)
       \/ Register(c, u)
       \/ BlockUser(c, u)
       \/ UnblockUser(c, u)
       \/ DeleteUser(c, u)

RegistrySpec == RegistryInit /\ [][RegistryNext]_registryVars

-----------------------------------------------------------------------------
(* Properties.                                                             *)

\* The user map never sends a push to the wrong person: its entry for u is a
\* live, signed-in connection that belongs to u.  (ConnectionManager keeps it
\* by unregistering on every change of identity and on every removal.)
RouteSound ==
  \A u \in User : userToClient[u] # NoConn =>
     /\ userToClient[u] \in conns
     /\ connUser[userToClient[u]] = u

\* The two notions of "signed in" agree: m_authenticated and m_userId are set
\* by separate calls, and handlers test one or the other.
AuthenticatedHasUser ==
  \A c \in Conn : authed[c] <=> (c \in conns /\ connUser[c] # NoUser)

\* A user who was never on two connections at once since the server started
\* is reachable: the connection he is signed in on is the one in the map.
SoleSessionReachable ==
  \A c \in conns : connUser[c] \in User \ shared => userToClient[connUser[c]] = c

\* Such a user, when blocked while signed in, has been sent EvtUserBlocked on
\* the connection he is still signed in on.
BlockedSoleSessionTold ==
  \A c \in conns :
     (connUser[c] \in User \ shared /\ status[connUser[c]] = "Blocked") => c \in told

\* Whatever admins do to each other, an admin account can always sign in.
AdminsCanLogin ==
  \A u \in Admins : status[u] \in {"Absent", "Active"}

\* A connection takes on an identity only while that account is in good
\* standing, through login or through registration.
IdentityOnlyForActive ==
  [][\A c \in Conn : connUser'[c] \in User /\ connUser'[c] # connUser[c]
        => status'[connUser'[c]] = "Active"]_registryVars
=============================================================================
