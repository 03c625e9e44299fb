--------------------------- MODULE NetworkProofs ---------------------------
(***************************************************************************)
(* Proofs about the two ends of a connection.                              *)
(*                                                                         *)
(* The server's end, Connections, for any sets of users, admins and client *)
(* ids: which connection a push reaches, and who has an identity.          *)
(*                                                                         *)
(* The client's end, ClientLink, for any calls, events and lost            *)
(* connections: every reply goes to the call it answers, once, and to      *)
(* nothing that has gone; the request of a call that waits is under way    *)
(* exactly once; a client that has lost its connection is about to try     *)
(* again.                                                                  *)
(***************************************************************************)
EXTENDS ClientLink, Connections, SequenceTheorems, FiniteSetTheorems, TLAPS

(***************************************************************************)
(* The server's end.                                                       *)
(***************************************************************************)

\* A client id that is not live carries no identity: without it a freshly
\* accepted connection could start out as somebody.
DeadIdsAreNobody == \A c \in Conn \ conns : connUser[c] = NoUser

\* The inductive invariant.  That a user outside shared has at most one
\* session needs no conjunct of its own: SoleSessionReachable says that all
\* of them are the one connection in the map.
IInv ==
  /\ RegistryTypeOK
  /\ DeadIdsAreNobody
  /\ AuthenticatedHasUser
  /\ RouteSound
  /\ SoleSessionReachable
  /\ BlockedSoleSessionTold
  /\ AdminsCanLogin

\* The initial states satisfy the inductive invariant.
LEMMA InitIInv == RegistryInit => IInv
  BY ConnectionsAssumption
  DEF RegistryInit, IInv, RegistryTypeOK, DeadIdsAreNobody, AuthenticatedHasUser, RouteSound,
      SoleSessionReachable, BlockedSoleSessionTold, AdminsCanLogin, Status

-----------------------------------------------------------------------------
(* What setUserId does to the map, for a new identity u that may be NoUser. *)

LEMMA SetUserIdType ==
  ASSUME RegistryTypeOK, NEW c \in conns, NEW u \in User \cup {NoUser}, SetUserId(c, u)
  PROVE  /\ connUser' \in [Conn -> User \cup {NoUser}]
         /\ userToClient' \in [User -> Conn \cup {NoConn}]
         /\ connUser' = [connUser EXCEPT ![c] = u]
         /\ connUser[c] = u => userToClient' = userToClient
         /\ connUser[c] # u => \A x \in User :
               userToClient'[x] = IF x = u THEN c
                                  ELSE IF x = connUser[c] THEN NoConn
                                  ELSE userToClient[x]
  BY DEF RegistryTypeOK, SetUserId, RegisterUser, UnregisterUser

\* A change of identity keeps every route sound: the old entry of c is gone,
\* the new one is c's, all others belong to other connections.
LEMMA SetUserIdRouteSound ==
  ASSUME RegistryTypeOK, RouteSound, NEW c \in conns, NEW u \in User \cup {NoUser},
         SetUserId(c, u), conns' = conns
  PROVE  RouteSound'
<1> SUFFICES ASSUME NEW x \in User, userToClient'[x] # NoConn
             PROVE  userToClient'[x] \in conns /\ connUser'[userToClient'[x]] = x
  BY DEF RouteSound
<1> USE SetUserIdType, ConnectionsAssumption DEF RegistryTypeOK, RouteSound
<1>1. CASE connUser[c] = u
  BY <1>1
<1>2. CASE connUser[c] # u /\ x = u
  BY <1>2
<1>3. CASE connUser[c] # u /\ x # u
  BY <1>3
<1> QED BY <1>1, <1>2, <1>3

\* It also keeps the users with a single session reachable, when a user who
\* thereby gets a second session is remembered in shared.
LEMMA SetUserIdSoleSession ==
  ASSUME RegistryTypeOK, SoleSessionReachable, NEW c \in conns,
         NEW u \in User \cup {NoUser}, SetUserId(c, u), conns' = conns,
         shared \subseteq shared', Sessions(u) \ {c} # {} => u \in shared' \cup {NoUser}
  PROVE  SoleSessionReachable'
<1> SUFFICES ASSUME NEW d \in conns, connUser'[d] \in User, connUser'[d] \notin shared'
             PROVE  userToClient'[connUser'[d]] = d
  BY DEF SoleSessionReachable
<1> USE SetUserIdType, ConnectionsAssumption DEF RegistryTypeOK
<1>1. CASE d = c
  <2>1. connUser'[d] = u
    BY <1>1
  <2>2. CASE connUser[c] = u
    BY <1>1, <2>1, <2>2 DEF SoleSessionReachable
  <2>3. CASE connUser[c] # u
    BY <1>1, <2>1, <2>3
  <2> QED BY <2>2, <2>3
<1>2. CASE d # c
  <2>1. connUser'[d] = connUser[d] /\ userToClient[connUser[d]] = d
    BY <1>2 DEF SoleSessionReachable
  <2>2. connUser[d] # u
    BY <1>2, <2>1 DEF Sessions
  <2>3. connUser[d] # connUser[c]
    BY <1>2, <2>1 DEF SoleSessionReachable
  <2> QED BY <2>1, <2>2, <2>3
<1> QED BY <1>1, <1>2

\* Signing in on an account in good standing keeps the whole invariant but
\* for the account table itself.
LEMMA SignInIInv ==
  ASSUME IInv, NEW c \in conns, NEW u \in User, SignIn(c, u),
         status' \in [User -> Status], status'[u] # "Blocked",
         \A x \in User \ {u} : status'[x] = status[x],
         AdminsCanLogin'
  PROVE  IInv'
<1> USE ConnectionsAssumption
<1>1. SetUserId(c, u) /\ conns' = conns /\ used' = used /\ told' = told
  BY DEF SignIn
<1>2. RegistryTypeOK'
  <2>1. connUser' \in [Conn -> User \cup {NoUser}] /\ userToClient' \in [User -> Conn \cup {NoConn}]
    BY <1>1, SetUserIdType DEF IInv
  <2> QED BY <1>1, <2>1 DEF IInv, RegistryTypeOK, SignIn
<1>3. connUser' = [connUser EXCEPT ![c] = u]
  BY <1>1, SetUserIdType DEF IInv
<1>4. DeadIdsAreNobody'
  BY <1>1, <1>3 DEF IInv, RegistryTypeOK, DeadIdsAreNobody
<1>5. AuthenticatedHasUser'
  BY <1>1, <1>3 DEF IInv, RegistryTypeOK, AuthenticatedHasUser, SignIn
<1>6. RouteSound'
  BY <1>1, SetUserIdRouteSound DEF IInv
<1>7. SoleSessionReachable'
  BY <1>1, SetUserIdSoleSession DEF IInv, SignIn
<1>8. BlockedSoleSessionTold'
  BY <1>1, <1>3 DEF IInv, RegistryTypeOK, BlockedSoleSessionTold, SignIn
<1> QED BY <1>2, <1>4, <1>5, <1>6, <1>7, <1>8 DEF IInv

\* A change of the account table by an admin that neither blocks anybody nor
\* bars an admin keeps it too.
LEMMA StatusIInv ==
  ASSUME IInv, UNCHANGED <<conns, used, connUser, authed, userToClient, shared, told>>,
         NEW u \in User, NEW s \in Status \ {"Blocked"}, SetAccountStatus(u, s),
         u \in Admins => (s = "Active" \/ status[u] = "Absent")
  PROVE  IInv'
  BY ConnectionsAssumption
  DEF IInv, RegistryTypeOK, DeadIdsAreNobody, AuthenticatedHasUser, RouteSound,
      SoleSessionReachable, BlockedSoleSessionTold, AdminsCanLogin, SetAccountStatus

-----------------------------------------------------------------------------
(* One lemma per handler that needs more than the above.                   *)

LEMMA AcceptIInv ==
  ASSUME IInv, NEW c \in Conn, Accept(c)
  PROVE  IInv'
  BY ConnectionsAssumption
  DEF IInv, RegistryTypeOK, DeadIdsAreNobody, AuthenticatedHasUser, RouteSound,
      SoleSessionReachable, BlockedSoleSessionTold, AdminsCanLogin, Accept

LEMMA LogoutIInv ==
  ASSUME IInv, NEW c \in Conn, Logout(c)
  PROVE  IInv'
<1> USE ConnectionsAssumption
<1>1. c \in conns /\ SetUserId(c, NoUser) /\ conns' = conns /\ shared' = shared
  BY DEF Logout
<1>2. /\ connUser' \in [Conn -> User \cup {NoUser}]
      /\ userToClient' \in [User -> Conn \cup {NoConn}]
      /\ connUser' = [connUser EXCEPT ![c] = NoUser]
  BY <1>1, SetUserIdType DEF IInv
<1>3. RouteSound'
  BY <1>1, SetUserIdRouteSound DEF IInv
<1>4. SoleSessionReachable'
  BY <1>1, SetUserIdSoleSession DEF IInv
<1>5. RegistryTypeOK' /\ DeadIdsAreNobody' /\ AuthenticatedHasUser'
  BY <1>1, <1>2 DEF IInv, RegistryTypeOK, DeadIdsAreNobody, AuthenticatedHasUser, Logout
<1>6. BlockedSoleSessionTold' /\ AdminsCanLogin'
  BY <1>1, <1>2 DEF IInv, RegistryTypeOK, BlockedSoleSessionTold, AdminsCanLogin, Logout
<1> QED BY <1>3, <1>4, <1>5, <1>6 DEF IInv

\* When c goes, the entry of its user goes.  Another session of that user
\* would lose its route, but then the user is in shared.
LEMMA DisconnectIInv ==
  ASSUME IInv, NEW c \in Conn, Disconnect(c)
  PROVE  IInv'
<1> USE ConnectionsAssumption
<1>1. RegistryTypeOK' /\ DeadIdsAreNobody' /\ AuthenticatedHasUser'
  BY DEF IInv, RegistryTypeOK, DeadIdsAreNobody, AuthenticatedHasUser, Disconnect, UnregisterUser
<1>2. RouteSound'
  BY DEF IInv, RegistryTypeOK, RouteSound, Disconnect, UnregisterUser
<1>3. SoleSessionReachable'
  <2> SUFFICES ASSUME NEW d \in conns', connUser'[d] \in User, connUser'[d] \notin shared'
               PROVE  userToClient'[connUser'[d]] = d
    BY DEF SoleSessionReachable
  <2>1. d \in conns /\ d # c /\ connUser'[d] = connUser[d] /\ userToClient[connUser[d]] = d
    BY DEF IInv, RegistryTypeOK, SoleSessionReachable, Disconnect
  <2>2. connUser[d] # connUser[c]
    BY <2>1 DEF IInv, SoleSessionReachable, Disconnect
  <2> QED BY <2>1, <2>2 DEF Disconnect, UnregisterUser
<1>4. BlockedSoleSessionTold' /\ AdminsCanLogin'
  BY DEF IInv, RegistryTypeOK, BlockedSoleSessionTold, AdminsCanLogin, Disconnect
<1> QED BY <1>1, <1>2, <1>3, <1>4 DEF IInv

\* The push of handleBlockUser reaches the only session of a user outside
\* shared, because that session is the one in the map.
LEMMA BlockUserIInv ==
  ASSUME IInv, NEW a \in Conn, NEW u \in User, BlockUser(a, u)
  PROVE  IInv'
<1> USE ConnectionsAssumption
<1>1. RegistryTypeOK' /\ AdminsCanLogin'
  BY DEF IInv, RegistryTypeOK, AdminsCanLogin, BlockUser, SetAccountStatus, Status,
         PushTargets, Sessions
<1>2. DeadIdsAreNobody' /\ AuthenticatedHasUser' /\ RouteSound' /\ SoleSessionReachable'
  BY DEF IInv, DeadIdsAreNobody, AuthenticatedHasUser, RouteSound, SoleSessionReachable, BlockUser
<1>3. BlockedSoleSessionTold'
  <2> SUFFICES ASSUME NEW d \in conns, connUser[d] \in User \ shared,
                      status'[connUser[d]] = "Blocked"
               PROVE  d \in told'
    BY DEF BlockedSoleSessionTold, BlockUser
  <2>1. CASE connUser[d] = u
    BY <2>1 DEF IInv, SoleSessionReachable, BlockUser, PushTargets
  <2>2. CASE connUser[d] # u
    <3>1. status[connUser[d]] = "Blocked"
      BY <2>2 DEF IInv, RegistryTypeOK, BlockUser, SetAccountStatus
    <3> QED BY <2>2, <3>1 DEF IInv, BlockedSoleSessionTold, BlockUser, Sessions
  <2> QED BY <2>1, <2>2
<1> QED BY <1>1, <1>2, <1>3 DEF IInv

\* No handler breaks the inductive invariant.
LEMMA NextIInv == IInv /\ [RegistryNext]_registryVars => IInv'
<1> SUFFICES ASSUME IInv, [RegistryNext]_registryVars
             PROVE  IInv'
  OBVIOUS
<1> USE ConnectionsAssumption
<1>1. CASE UNCHANGED registryVars
  BY <1>1 DEF registryVars, IInv, RegistryTypeOK, DeadIdsAreNobody, AuthenticatedHasUser, RouteSound,
      SoleSessionReachable, BlockedSoleSessionTold, AdminsCanLogin
<1>2. CASE Restart
  BY <1>2 DEF IInv, RegistryTypeOK, DeadIdsAreNobody, AuthenticatedHasUser, RouteSound,
      SoleSessionReachable, BlockedSoleSessionTold, AdminsCanLogin, Restart
<1>3. ASSUME NEW c \in Conn, Accept(c) \/ Logout(c) \/ Disconnect(c)
      PROVE  IInv'
  BY <1>3, AcceptIInv, LogoutIInv, DisconnectIInv
<1>4. ASSUME NEW c \in Conn, NEW u \in User, Login(c, u)
      PROVE  IInv'
  BY <1>4, SignInIInv DEF IInv, RegistryTypeOK, AdminsCanLogin, Login
<1>5. ASSUME NEW c \in Conn, NEW u \in User, Register(c, u)
      PROVE  IInv'
  <2>1. /\ status' \in [User -> Status] /\ status'[u] = "Active"
        /\ \A x \in User \ {u} : status'[x] = status[x]
        /\ AdminsCanLogin'
    BY <1>5 DEF IInv, RegistryTypeOK, AdminsCanLogin, Register, Status
  <2> QED BY <1>5, <2>1, SignInIInv DEF Register
<1>6. ASSUME NEW a \in Conn, NEW u \in User, BlockUser(a, u)
      PROVE  IInv'
  BY <1>6, BlockUserIInv
<1>7. ASSUME NEW a \in Conn, NEW u \in User, UnblockUser(a, u)
      PROVE  IInv'
  BY <1>7, StatusIInv DEF UnblockUser, Status
<1>8. ASSUME NEW a \in Conn, NEW u \in User, DeleteUser(a, u)
      PROVE  IInv'
  BY <1>8, StatusIInv DEF DeleteUser, Status
<1> QED BY <1>1, <1>2, <1>3, <1>4, <1>5, <1>6, <1>7, <1>8 DEF RegistryNext

-----------------------------------------------------------------------------
(* The theorems.                                                           *)

\* The inductive invariant holds in every reachable state.
THEOREM SpecIInv == RegistrySpec => []IInv
  BY InitIInv, NextIInv, PTL DEF RegistrySpec

\* Every variable keeps its type.
THEOREM TypeCorrect == RegistrySpec => []RegistryTypeOK
<1>1. IInv => RegistryTypeOK
  BY DEF IInv
<1> QED BY <1>1, SpecIInv, PTL

\* ConnectionManager's user map never routes a push to a connection that is
\* gone or that is signed in as somebody else.
THEOREM RoutesAreSound == RegistrySpec => []RouteSound
<1>1. IInv => RouteSound
  BY DEF IInv
<1> QED BY <1>1, SpecIInv, PTL

\* A user who never had two connections at once can be found by userId.
THEOREM SoleSessionsAreReachable == RegistrySpec => []SoleSessionReachable
<1>1. IInv => SoleSessionReachable
  BY DEF IInv
<1> QED BY <1>1, SpecIInv, PTL

\* A blocked user who never had two connections at once has been sent
\* EvtUserBlocked on the connection he is still signed in on.
THEOREM BlockedSoleSessionsAreTold == RegistrySpec => []BlockedSoleSessionTold
<1>1. IInv => BlockedSoleSessionTold
  BY DEF IInv
<1> QED BY <1>1, SpecIInv, PTL

\* m_authenticated and a non-empty m_userId always go together.
THEOREM AuthenticatedHaveUsers == RegistrySpec => []AuthenticatedHasUser
<1>1. IInv => AuthenticatedHasUser
  BY DEF IInv
<1> QED BY <1>1, SpecIInv, PTL

\* Admins cannot lock each other out.
THEOREM AdminsAlwaysCanLogin == RegistrySpec => []AdminsCanLogin
<1>1. IInv => AdminsCanLogin
  BY DEF IInv
<1> QED BY <1>1, SpecIInv, PTL

\* No row is ever Pending, whatever handleRegister writes into the payload.
NobodyPending == \A u \in User : status[u] # "Pending"

LEMMA NobodyBecomesPending == IInv /\ NobodyPending /\ [RegistryNext]_registryVars => NobodyPending'
<1> SUFFICES ASSUME IInv, NobodyPending, [RegistryNext]_registryVars, NEW x \in User
             PROVE  status'[x] # "Pending"
  BY DEF NobodyPending
<1> USE DEF IInv, RegistryTypeOK, NobodyPending
<1>1. CASE UNCHANGED status
  BY <1>1
<1>2. ASSUME NEW u \in User, NEW s \in Status \ {"Pending"}, SetAccountStatus(u, s)
      PROVE  status'[x] # "Pending"
  BY <1>2 DEF SetAccountStatus
<1>3. ASSUME NEW c \in Conn, NEW u \in User, Register(c, u)
      PROVE  status'[x] # "Pending"
  BY <1>3 DEF Register
<1>4. ASSUME NEW a \in Conn, NEW u \in User,
             BlockUser(a, u) \/ UnblockUser(a, u) \/ DeleteUser(a, u)
      PROVE  status'[x] # "Pending"
  BY <1>2, <1>4 DEF BlockUser, UnblockUser, DeleteUser, Status
<1> QED
  BY <1>1, <1>3, <1>4 DEF RegistryNext, registryVars, Restart, Accept, Logout, Disconnect, Login

\* No login, registration, logout or admin command gives a connection an
\* identity whose account is not Active at that moment.
THEOREM IdentitiesAreActive == RegistrySpec => IdentityOnlyForActive
<1> DEFINE Granted ==
      \A c \in Conn : connUser'[c] \in User /\ connUser'[c] # connUser[c]
         => status'[connUser'[c]] = "Active"
<1>1. RegistryInit => NobodyPending
  BY DEF RegistryInit, NobodyPending
<1>2. IInv /\ NobodyPending /\ [RegistryNext]_registryVars => [Granted]_registryVars
  <2> SUFFICES ASSUME IInv, NobodyPending, RegistryNext, NEW c \in Conn,
                      connUser'[c] \in User, connUser'[c] # connUser[c]
               PROVE  status'[connUser'[c]] = "Active"
    OBVIOUS
  <2>1. PICK d \in Conn, u \in User : Login(d, u) \/ Register(d, u)
    BY ConnectionsAssumption
    DEF RegistryNext, Restart, Accept, Logout, Disconnect, BlockUser, UnblockUser, DeleteUser,
        SetUserId, IInv, RegistryTypeOK
  <2>2. connUser'[c] = u
    BY <2>1 DEF Login, Register, SignIn, SetUserId, IInv, RegistryTypeOK
  <2>3. status'[u] = "Active"
    BY <2>1 DEF Login, Register, NobodyPending, IInv, RegistryTypeOK
  <2> QED
    BY <2>2, <2>3
<1> QED
  BY <1>1, <1>2, SpecIInv, NobodyBecomesPending, PTL DEF RegistrySpec, IdentityOnlyForActive

(***************************************************************************)
(* The client's end.                                                       *)
(***************************************************************************)

Packet == {Event} \cup {Reply(c) : c \in Call}

\* What the variables hold.
Shape ==
  /\ serverUp \in BOOLEAN /\ sock \in {"down", "connecting", "up"}
  /\ hostKnown \in BOOLEAN /\ timer \in BOOLEAN /\ refused \in BOOLEAN
  /\ outbox \in Seq(Call) /\ inbox \in Seq(Packet)
  /\ parser \in {"clean", "cut", "deaf"}
  /\ stack \in Seq(Sync) /\ quit \subseteq Sync
  /\ answer \in [Call -> {NoAnswer} \cup Call]
  /\ posted \in [Async -> Nat] /\ ran \in [Async -> Nat]
  /\ pushed \in 0 .. MaxEvents /\ losses \in 0 .. MaxLosses

\* Nothing is known of a call before it is made, and no packet of a connection
\* that has been lost is under way.
OnlyStarted ==
  /\ started \subseteq Call /\ alive \subseteq started /\ handlers \subseteq started
  /\ armed \subseteq Async \cap started /\ fired \subseteq Async \cap started
  /\ ToSet(stack) \subseteq started
  /\ \A c \in Call : answer[c] # NoAnswer => c \in started

OnlyAlive ==
  /\ ToSet(outbox) \subseteq alive
  /\ \A c \in Call : Reply(c) \in ToSet(inbox) => c \in alive

\* The callback of a request that is made is run, posted or still to come.
CallbackCounted ==
  \A c \in Async :
    posted[c] + ran[c] = IF c \in started \ Pending THEN 1 ELSE 0

LinkInv ==
  /\ Shape /\ OnlyStarted /\ OnlyAlive /\ IsInjective(stack)
  /\ HandlersAreWaiting /\ OwnReply /\ CallbackCounted /\ AnswerUnderWay

-----------------------------------------------------------------------------
(* Sequences.                                                              *)

LEMMA PushFacts ==
  ASSUME NEW S, NEW s \in Seq(S), NEW e \in S
  PROVE  /\ Append(s, e) \in Seq(S)
         /\ ToSet(Append(s, e)) = ToSet(s) \cup {e}
         /\ IsInjective(s) /\ e \notin ToSet(s) => IsInjective(Append(s, e))
<1> DEFINE t == Append(s, e)
<1>1. /\ t \in Seq(S) /\ Len(t) = Len(s) + 1 /\ Len(s) \in Nat
      /\ DOMAIN s = 1 .. Len(s) /\ DOMAIN t = 1 .. Len(s) + 1
      /\ t[Len(s) + 1] = e
      /\ \A i \in 1 .. Len(s) : t[i] = s[i]
  BY AppendProperties, LenProperties
<1> HIDE DEF t
<1>2. ToSet(t) = ToSet(s) \cup {e}
  BY <1>1 DEF ToSet
<1>3. IsInjective(s) /\ e \notin ToSet(s) => IsInjective(t)
  BY <1>1 DEF IsInjective, ToSet
<1> QED
  BY <1>1, <1>2, <1>3 DEF t

LEMMA PopFacts ==
  ASSUME NEW S, NEW s \in Seq(S), s # <<>>
  PROVE  /\ Last(s) \in S /\ Last(s) \in ToSet(s) /\ Front(s) \in Seq(S)
         /\ IsInjective(s) => IsInjective(Front(s))
         /\ IsInjective(s) => ToSet(Front(s)) = ToSet(s) \ {Last(s)}
<1>1. /\ Len(s) \in Nat \ {0} /\ DOMAIN s = 1 .. Len(s)
      /\ \A i \in 1 .. Len(s) : s[i] \in S
  BY EmptySeq, LenProperties, ElementOfSeq
<1>2. /\ Front(s) \in Seq(S) /\ Len(Front(s)) = Len(s) - 1
      /\ \A i \in 1 .. Len(s) - 1 : Front(s)[i] = s[i]
  BY <1>1, SubSeqProperties DEF Front
<1>3. DOMAIN Front(s) = 1 .. Len(s) - 1
  BY <1>2, LenProperties
<1>4. Last(s) = s[Len(s)]
  BY DEF Last
<1>5. IsInjective(s) => IsInjective(Front(s))
  BY <1>1, <1>2, <1>3 DEF IsInjective
<1>6. IsInjective(s) => ToSet(Front(s)) = ToSet(s) \ {Last(s)}
  BY <1>1, <1>2, <1>3, <1>4 DEF IsInjective, ToSet
<1>7. Last(s) \in S /\ Last(s) \in ToSet(s)
  BY <1>1, <1>4 DEF ToSet
<1> QED
  BY <1>2, <1>5, <1>6, <1>7

LEMMA TakeFacts ==
  ASSUME NEW S, NEW s \in Seq(S), s # <<>>
  PROVE  /\ Head(s) \in S /\ Head(s) \in ToSet(s)
         /\ Tail(s) \in Seq(S) /\ ToSet(Tail(s)) \subseteq ToSet(s)
<1>1. Len(s) \in Nat \ {0} /\ DOMAIN s = 1 .. Len(s)
  BY EmptySeq, LenProperties
<1>2. /\ Head(s) \in S /\ Tail(s) \in Seq(S) /\ Len(Tail(s)) = Len(s) - 1
      /\ \A i \in 1 .. Len(s) - 1 : Tail(s)[i] = s[i + 1]
  BY HeadTailProperties
<1>3. DOMAIN Tail(s) = 1 .. Len(s) - 1
  BY <1>2, LenProperties
<1>4. Head(s) = s[1]
  BY <1>1
<1> QED
  BY <1>1, <1>2, <1>3, <1>4 DEF ToSet

\* How often a sequence holds an element.
Times(s, x) == Cardinality({i \in DOMAIN s : s[i] = x})

LEMMA TimesFacts ==
  ASSUME NEW S, NEW s \in Seq(S), NEW x
  PROVE  /\ Times(s, x) \in Nat /\ IsFiniteSet({i \in DOMAIN s : s[i] = x})
         /\ x \notin ToSet(s) => Times(s, x) = 0
<1>1. DOMAIN s = 1 .. Len(s) /\ Len(s) \in Nat
  BY LenProperties
<1>2. IsFiniteSet(DOMAIN s)
  BY <1>1, FS_Interval
<1>3. IsFiniteSet({i \in DOMAIN s : s[i] = x})
  BY <1>2, FS_Subset
<1>4. x \notin ToSet(s) => {i \in DOMAIN s : s[i] = x} = {}
  BY DEF ToSet
<1> QED
  BY <1>3, <1>4, FS_CardinalityType, FS_EmptySet DEF Times

LEMMA TimesPush ==
  ASSUME NEW S, NEW s \in Seq(S), NEW e \in S, NEW x
  PROVE  Times(Append(s, e), x) = Times(s, x) + IF e = x THEN 1 ELSE 0
<1> DEFINE t == Append(s, e)
           A == {i \in DOMAIN s : s[i] = x}
           B == {i \in DOMAIN t : t[i] = x}
<1>1. /\ Len(s) \in Nat /\ DOMAIN s = 1 .. Len(s) /\ DOMAIN t = 1 .. Len(s) + 1
      /\ t[Len(s) + 1] = e /\ \A i \in 1 .. Len(s) : t[i] = s[i]
  BY AppendProperties, LenProperties
<1>2. IsFiniteSet(A) /\ Cardinality(A) \in Nat
  BY TimesFacts DEF Times
<1>3. B = IF e = x THEN A \cup {Len(s) + 1} ELSE A
  <2> HIDE DEF t
  <2> QED
    BY <1>1
<1>4. Len(s) + 1 \notin A
  BY <1>1
<1>5. Cardinality(A \cup {Len(s) + 1}) = Cardinality(A) + 1
  BY <1>2, <1>4, FS_AddElement
<1>6. Times(t, x) = Cardinality(B) /\ Times(s, x) = Cardinality(A)
  BY DEF Times
<1> HIDE DEF A, B, t
<1> QED
  BY <1>2, <1>3, <1>5, <1>6 DEF t

LEMMA TimesTake ==
  ASSUME NEW S, NEW s \in Seq(S), s # <<>>, NEW x
  PROVE  Times(s, x) = Times(Tail(s), x) + IF Head(s) = x THEN 1 ELSE 0
<1> DEFINE t == Tail(s)
           A == {i \in DOMAIN t : t[i] = x}
           B == {i \in DOMAIN s : s[i] = x}
           C == B \ {1}
           f == [i \in A |-> i + 1]
<1>1. /\ Len(s) \in Nat \ {0} /\ DOMAIN s = 1 .. Len(s) /\ Head(s) = s[1]
      /\ t \in Seq(S)
  BY EmptySeq, LenProperties, HeadTailProperties
<1>2. /\ DOMAIN t = 1 .. Len(s) - 1
      /\ \A i \in 1 .. Len(s) - 1 : t[i] = s[i + 1]
  BY HeadTailProperties, LenProperties
<1> HIDE DEF t
<1>3. IsFiniteSet(A) /\ Cardinality(A) \in Nat
  BY <1>1, TimesFacts DEF Times
<1>4. f \in Bijection(A, C)
  <2>1. \A i \in A : f[i] \in C
    BY <1>1, <1>2
  <2>2. \A i, j \in A : f[i] = f[j] => i = j
    BY <1>2
  <2>3. \A k \in C : \E i \in A : f[i] = k
    <3> TAKE k \in C
    <3>1. k - 1 \in A /\ f[k - 1] = k
      BY <1>1, <1>2
    <3> QED
      BY <3>1
  <2> QED
    BY <2>1, <2>2, <2>3 DEF Bijection, Injection, Surjection, IsInjective
<1>5. IsFiniteSet(C) /\ Cardinality(C) = Cardinality(A)
  BY <1>3, <1>4, FS_Bijection DEF ExistsBijection
<1>6. B = IF Head(s) = x THEN C \cup {1} ELSE C
  BY <1>1
<1>7. Cardinality(C \cup {1}) = Cardinality(C) + 1
  BY <1>5, FS_AddElement
<1>8. Times(s, x) = Cardinality(B) /\ Times(t, x) = Cardinality(A)
  BY DEF Times
<1> HIDE DEF A, B, C
<1> QED
  BY <1>3, <1>5, <1>6, <1>7, <1>8 DEF t

LEMMA UnderIs == \A c : Under(c) = Times(outbox, c) + Times(inbox, Reply(c))
  BY DEF Under, Times

-----------------------------------------------------------------------------
(* The connection.                                                         *)

LEMMA InitLinkInv == Init => LinkInv
<1> SUFFICES ASSUME Init PROVE LinkInv
  OBVIOUS
<1>a. /\ serverUp \in BOOLEAN /\ hostKnown \in BOOLEAN /\ timer \in BOOLEAN
      /\ refused \in BOOLEAN
  BY DEF Init
<1>b. /\ posted \in [Async -> Nat] /\ ran \in [Async -> Nat] /\ pushed \in 0 .. MaxEvents
      /\ losses \in 0 .. MaxLosses /\ answer \in [Call -> {NoAnswer} \cup Call]
  BY LinkAssumption DEF Init
<1>1. Shape
  BY <1>a, <1>b, EmptySeq DEF Init, Shape
<1>2. ToSet(<<>>) = {} /\ IsInjective(<<>>)
  BY DEF ToSet, IsInjective
<1>3. Waiting = {} /\ Pending = {}
  BY <1>2 DEF Init, Waiting, Pending
<1>4. OnlyStarted /\ OnlyAlive /\ IsInjective(stack)
  BY <1>2 DEF Init, OnlyStarted, OnlyAlive
<1>5. HandlersAreWaiting /\ AnswerUnderWay
  BY <1>3 DEF Init, HandlersAreWaiting, AnswerUnderWay
<1>6. OwnReply /\ CallbackCounted
  BY <1>3 DEF Init, OwnReply, CallbackCounted
<1> QED
  BY <1>1, <1>4, <1>5, <1>6 DEF LinkInv

\* Steps that touch neither the calls nor what is under way.
LEMMA NetSteps ==
  ASSUME LinkInv, UNCHANGED <<wire, sync, late, started, answer, handlers>>,
         Connect \/ OnReconnectTimeout \/ ServerStops \/ ServerStarts \/ UNCHANGED vars
  PROVE  LinkInv'
<1>a. /\ serverUp' \in BOOLEAN /\ hostKnown' \in BOOLEAN /\ timer' \in BOOLEAN
      /\ refused' \in BOOLEAN
  BY DEF LinkInv, Shape, Connect, OnReconnectTimeout, ServerStops, ServerStarts,
     OnConnected, OnConnectError, vars, net
<1>b. losses' \in 0 .. MaxLosses /\ sock' \in {"down", "connecting", "up"}
  BY LinkAssumption DEF LinkInv, Shape, Connect, OnReconnectTimeout, ServerStops,
     ServerStarts, OnConnected, OnConnectError, vars, net
<1>1. Shape'
  BY <1>a, <1>b DEF LinkInv, Shape, wire, sync, late
<1>2. OnlyStarted' /\ OnlyAlive' /\ IsInjective(stack') /\ OwnReply'
  BY DEF LinkInv, OnlyStarted, OnlyAlive, OwnReply, wire, sync, late
<1>3. Waiting' = Waiting /\ Pending' = Pending
  BY DEF Waiting, Pending, sync, late
<1>4. HandlersAreWaiting' /\ CallbackCounted'
  BY <1>3 DEF LinkInv, HandlersAreWaiting, CallbackCounted, late
<1>5. AnswerUnderWay'
  BY <1>3 DEF LinkInv, AnswerUnderWay, Under, wire
<1> QED
  BY <1>1, <1>2, <1>4, <1>5 DEF LinkInv

\* Nothing is under way any more.
LEMMA LoseStep == LinkInv /\ Lose => LinkInv'
<1> SUFFICES ASSUME LinkInv, Lose PROVE LinkInv'
  OBVIOUS
<1>1. /\ UNCHANGED <<late, sync, started, answer, handlers>>
      /\ outbox' = <<>> /\ inbox' = <<>> /\ alive' = {}
      /\ Shape'
  BY LinkAssumption, EmptySeq DEF LinkInv, Shape, Lose, OnDisconnected, late, sync
<1>2. ToSet(<<>>) = {}
  BY DEF ToSet
<1>3. OnlyStarted' /\ OnlyAlive' /\ AnswerUnderWay'
  BY <1>1, <1>2 DEF LinkInv, OnlyStarted, OnlyAlive, AnswerUnderWay, late, sync
<1> QED
  BY <1>1, <1>3 DEF LinkInv, HandlersAreWaiting, OwnReply, CallbackCounted, Waiting,
     Pending, late, sync

-----------------------------------------------------------------------------
(* Sending.                                                                *)

LEMMA UnderType ==
  ASSUME LinkInv, NEW c
  PROVE  /\ Under(c) \in Nat /\ Under(c) = Times(outbox, c) + Times(inbox, Reply(c))
         /\ Times(outbox, c) \in Nat /\ Times(inbox, Reply(c)) \in Nat
<1>1. outbox \in Seq(Call) /\ inbox \in Seq(Packet)
  BY DEF LinkInv, Shape
<1>2. Times(outbox, c) \in Nat /\ Times(inbox, Reply(c)) \in Nat
  BY <1>1, TimesFacts
<1> QED
  BY <1>2, UnderIs

\* A new call's packet is the only one of that call.
LEMMA SendFacts ==
  ASSUME LinkInv, NEW c \in Call \ started, SendMessage(c), started' = started \cup {c}
  PROVE  /\ outbox' \in Seq(Call) /\ UNCHANGED <<inbox, parser, pushed>>
         /\ alive' = alive \cup {c} /\ alive' \subseteq started' /\ OnlyAlive'
         /\ Under(c)' = 1 /\ \A d \in Call \ {c} : Under(d)' = Under(d)
<1>1. /\ outbox' = Append(outbox, c) /\ outbox \in Seq(Call) /\ inbox \in Seq(Packet)
      /\ inbox' = inbox /\ parser' = parser /\ pushed' = pushed
      /\ alive' = alive \cup {c} /\ alive \subseteq started
      /\ ToSet(outbox) \subseteq alive
      /\ \A d \in Call : Reply(d) \in ToSet(inbox) => d \in alive
  BY DEF LinkInv, Shape, OnlyStarted, OnlyAlive, SendMessage
<1>2. outbox' \in Seq(Call) /\ ToSet(outbox') = ToSet(outbox) \cup {c}
  BY <1>1, PushFacts
<1>3. OnlyAlive'
  BY <1>1, <1>2 DEF OnlyAlive
<1>4. Times(outbox, c) = 0 /\ Times(inbox, Reply(c)) = 0
  BY <1>1, TimesFacts
<1>5. \A d : Times(outbox', d) = Times(outbox, d) + IF c = d THEN 1 ELSE 0
  BY <1>1, TimesPush
<1>6. \A d : Under(d)' = Times(outbox', d) + Times(inbox, Reply(d))
  BY <1>1 DEF Under, Times
<1>7. Under(c)' = 1
  BY <1>4, <1>5, <1>6
<1>8. ASSUME NEW d \in Call \ {c} PROVE Under(d)' = Under(d)
  BY <1>5, <1>6, UnderType
<1> QED
  BY <1>1, <1>2, <1>3, <1>7, <1>8

LEMMA ConnectFacts ==
  ASSUME LinkInv, ConnectToServer
  PROVE  /\ serverUp' \in BOOLEAN /\ sock' \in {"down", "connecting", "up"}
         /\ hostKnown' \in BOOLEAN /\ timer' \in BOOLEAN /\ refused' \in BOOLEAN
         /\ losses' \in 0 .. MaxLosses
  BY DEF LinkInv, Shape, ConnectToServer, OnConnected, OnConnectError, Up

LEMMA SendRequestStep ==
  ASSUME NEW c \in Sync, LinkInv, SendRequest(c)
  PROVE  LinkInv'
<1>1. /\ c \in Call \ started /\ started' = started \cup {c} /\ ConnectToServer
      /\ UNCHANGED <<quit, late, answer>> /\ c \notin Async
      /\ answer[c] = NoAnswer
  BY LinkAssumption DEF SendRequest, Call, LinkInv, OnlyStarted
<1>2. CASE sock' = "up"
  <2>1. /\ handlers' = handlers \cup {c} /\ SendMessage(c) /\ stack' = Append(stack, c)
    BY <1>2 DEF SendRequest
  <2>2. /\ stack' \in Seq(Sync) /\ ToSet(stack') = ToSet(stack) \cup {c}
        /\ IsInjective(stack')
    BY <1>1, <2>1, PushFacts DEF LinkInv, Shape, OnlyStarted
  <2>3. Shape'
    BY <1>1, <2>1, <2>2, SendFacts, ConnectFacts DEF LinkInv, Shape, late
  <2>4. OnlyStarted' /\ OnlyAlive'
    BY <1>1, <2>1, <2>2, SendFacts DEF LinkInv, OnlyStarted, late
  <2>5. Waiting' = Waiting \cup {c}
    BY <1>1, <2>2 DEF Waiting
  <2>6. Pending' = Pending
    BY <1>1 DEF Pending, late
  <2>7. HandlersAreWaiting' /\ OwnReply'
    BY <1>1, <2>1, <2>5, <2>6 DEF LinkInv, HandlersAreWaiting, OwnReply
  <2>8. CallbackCounted'
    BY <1>1, <2>6 DEF LinkInv, CallbackCounted, late
  <2>9. AnswerUnderWay'
    <3> SUFFICES ASSUME NEW d \in (Waiting' \cup Pending') \cap alive', parser' = "clean"
                 PROVE  Under(d)' = 1
      BY DEF AnswerUnderWay
    <3>1. CASE d = c
      BY <3>1, <1>1, <2>1, SendFacts
    <3>2. CASE d # c
      <4>1. d \in (Waiting \cup Pending) \cap alive /\ parser = "clean" /\ d \in Call
        BY <3>2, <1>1, <2>1, <2>5, <2>6, SendFacts DEF LinkInv, OnlyStarted
      <4> QED
        BY <3>2, <4>1, <1>1, <2>1, SendFacts DEF LinkInv, AnswerUnderWay
    <3> QED
      BY <3>1, <3>2
  <2> QED
    BY <2>2, <2>3, <2>4, <2>7, <2>8, <2>9 DEF LinkInv
<1>3. CASE sock' # "up"
  <2>1. UNCHANGED <<handlers, wire, stack>>
    BY <1>3 DEF SendRequest
  <2>2. Shape'
    BY <1>1, <2>1, ConnectFacts DEF LinkInv, Shape, late, wire
  <2>3. Waiting' = Waiting /\ Pending' = Pending
    BY <1>1, <2>1 DEF Waiting, Pending, late
  <2>4. CallbackCounted'
    BY <1>1, <2>3 DEF LinkInv, CallbackCounted, late
  <2> QED
    BY <1>1, <2>1, <2>2, <2>3, <2>4 DEF LinkInv, OnlyStarted, OnlyAlive,
       HandlersAreWaiting, OwnReply, AnswerUnderWay, Under, late, wire
<1> QED
  BY <1>2, <1>3

LEMMA SendAsyncStep ==
  ASSUME NEW c \in Cast, LinkInv, SendAsync(c)
  PROVE  LinkInv'
<1>1. /\ c \in Call \ started /\ started' = started \cup {c} /\ c \notin Async
      /\ UNCHANGED <<net, sync, late, answer, handlers>>
  BY LinkAssumption DEF SendAsync, Call
<1>2. Waiting' = Waiting /\ Pending' = Pending
  BY <1>1 DEF Waiting, Pending, late, sync
<1>3. HandlersAreWaiting' /\ OwnReply' /\ IsInjective(stack')
  BY <1>1, <1>2 DEF LinkInv, HandlersAreWaiting, OwnReply, sync
<1>4. CallbackCounted'
  BY <1>1, <1>2 DEF LinkInv, CallbackCounted, late
<1>5. CASE SendMessage(c)
  <2>1. Shape'
    BY <1>1, <1>5, SendFacts DEF LinkInv, Shape, net, sync, late
  <2>2. OnlyStarted' /\ OnlyAlive'
    BY <1>1, <1>5, SendFacts DEF LinkInv, OnlyStarted, sync, late
  <2>3. ASSUME NEW d \in (Waiting' \cup Pending') \cap alive', parser' = "clean"
        PROVE  Under(d)' = 1
    <3>1. d \in handlers /\ d # c
      BY <1>1, <1>2 DEF LinkInv, HandlersAreWaiting, OnlyStarted
    <3>2. d \in (Waiting \cup Pending) \cap alive /\ parser = "clean" /\ d \in Call
      BY <3>1, <1>1, <1>2, <1>5, <2>3, SendFacts DEF LinkInv, OnlyStarted
    <3> QED
      BY <3>1, <3>2, <1>1, <1>5, SendFacts DEF LinkInv, AnswerUnderWay
  <2> QED
    BY <1>3, <1>4, <2>1, <2>2, <2>3 DEF LinkInv, AnswerUnderWay
<1>6. CASE UNCHANGED wire
  <2>1. Shape'
    BY <1>1, <1>6 DEF LinkInv, Shape, net, sync, late, wire
  <2>2. OnlyStarted' /\ OnlyAlive'
    BY <1>1, <1>6 DEF LinkInv, OnlyStarted, OnlyAlive, sync, late, wire
  <2>3. AnswerUnderWay'
    BY <1>1, <1>2, <1>6 DEF LinkInv, AnswerUnderWay, Under, sync, wire
  <2> QED
    BY <1>3, <1>4, <2>1, <2>2, <2>3 DEF LinkInv
<1> QED
  BY <1>5, <1>6 DEF SendAsync

LEMMA SendRequestAsyncStep ==
  ASSUME NEW c \in Async, LinkInv, SendRequestAsync(c)
  PROVE  LinkInv'
<1>1. /\ c \in Call \ started /\ started' = started \cup {c} /\ ConnectToServer
      /\ UNCHANGED <<sync, fired, ran, answer>>
      /\ c \notin armed /\ c \notin fired /\ c \notin Pending
      /\ posted \in [Async -> Nat] /\ ran \in [Async -> Nat]
  BY DEF SendRequestAsync, Call, LinkInv, OnlyStarted, Pending, Shape
<1>2. Waiting' = Waiting /\ IsInjective(stack') /\ OwnReply'
  BY <1>1 DEF LinkInv, Waiting, OwnReply, sync
<1>3. CASE sock' = "up"
  <2>1. /\ handlers' = handlers \cup {c} /\ armed' = armed \cup {c} /\ SendMessage(c)
        /\ UNCHANGED posted
    BY <1>3 DEF SendRequestAsync
  <2>2. Shape'
    BY <1>1, <2>1, SendFacts, ConnectFacts DEF LinkInv, Shape, sync
  <2>3. OnlyStarted' /\ OnlyAlive'
    BY <1>1, <2>1, SendFacts DEF LinkInv, OnlyStarted, sync
  <2>4. Pending' = Pending \cup {c}
    BY <1>1, <2>1 DEF Pending
  <2>5. HandlersAreWaiting'
    BY <2>1, <2>4, <1>2 DEF LinkInv, HandlersAreWaiting
  <2>6. CallbackCounted'
    BY <1>1, <2>1, <2>4 DEF LinkInv, CallbackCounted
  <2>7. ASSUME NEW d \in (Waiting' \cup Pending') \cap alive', parser' = "clean"
        PROVE  Under(d)' = 1
    <3>1. CASE d = c
      BY <3>1, <1>1, <2>1, SendFacts
    <3>2. CASE d # c
      <4>1. d \in (Waiting \cup Pending) \cap alive /\ parser = "clean" /\ d \in Call
        BY <3>2, <2>7, <1>1, <1>2, <2>1, <2>4, SendFacts DEF LinkInv, OnlyStarted
      <4> QED
        BY <3>2, <4>1, <1>1, <2>1, SendFacts DEF LinkInv, AnswerUnderWay
    <3> QED
      BY <3>1, <3>2
  <2> QED
    BY <1>2, <2>2, <2>3, <2>5, <2>6, <2>7 DEF LinkInv, AnswerUnderWay
<1>4. CASE sock' # "up"
  <2>1. UNCHANGED <<handlers, wire, armed>> /\ Post(c)
    BY <1>4 DEF SendRequestAsync
  <2>2. /\ posted' \in [Async -> Nat] /\ posted'[c] = posted[c] + 1
        /\ \A d \in Async \ {c} : posted'[d] = posted[d]
    BY <1>1, <2>1 DEF Post
  <2>3. Shape'
    BY <1>1, <2>1, <2>2, ConnectFacts DEF LinkInv, Shape, sync, wire
  <2>4. Pending' = Pending
    BY <1>1, <2>1 DEF Pending
  <2>5. CallbackCounted'
    <3> SUFFICES ASSUME NEW d \in Async
                 PROVE  posted'[d] + ran[d] = IF d \in started' \ Pending THEN 1 ELSE 0
      BY <1>1, <2>4 DEF CallbackCounted
    <3>1. posted[d] + ran[d] = IF d \in started \ Pending THEN 1 ELSE 0
      BY DEF LinkInv, CallbackCounted
    <3>2. posted[d] \in Nat /\ ran[d] \in Nat
      BY <1>1
    <3> QED
      BY <3>1, <3>2, <2>2, <1>1
  <2> QED
    BY <1>1, <1>2, <2>1, <2>3, <2>4, <2>5 DEF LinkInv, OnlyStarted, OnlyAlive,
       HandlersAreWaiting, AnswerUnderWay, Under, sync, wire
<1> QED
  BY <1>3, <1>4

-----------------------------------------------------------------------------
(* Waiting and giving up.                                                  *)

\* What is under way stays as it is, and nobody begins to wait for it.
LEMMA StillUnderWay ==
  ASSUME LinkInv, UNCHANGED wire, Waiting' \cup Pending' \subseteq Waiting \cup Pending
  PROVE  OnlyAlive' /\ AnswerUnderWay'
  BY DEF LinkInv, OnlyAlive, AnswerUnderWay, Under, wire

LEMMA WaitingFacts ==
  ASSUME LinkInv
  PROVE  Waiting \subseteq Sync /\ Pending \subseteq Async
<1>1. DOMAIN stack = 1 .. Len(stack) /\ \A i \in 1 .. Len(stack) : stack[i] \in Sync
  BY LenProperties, ElementOfSeq DEF LinkInv, Shape
<1> QED
  BY <1>1 DEF Waiting, Pending, ToSet

LEMMA RequestTimesOutStep ==
  ASSUME NEW c \in Sync, LinkInv, RequestTimesOut(c)
  PROVE  LinkInv'
<1>1. /\ UNCHANGED <<net, wire, stack, late, started, answer, handlers>>
      /\ quit' = quit \cup {c}
  BY DEF RequestTimesOut
<1>2. Waiting' = Waiting /\ Pending' = Pending
  BY <1>1 DEF Waiting, Pending, late
<1>3. OnlyAlive' /\ AnswerUnderWay'
  BY <1>1, <1>2, StillUnderWay
<1>4. Shape'
  BY <1>1 DEF LinkInv, Shape, net, wire, late
<1>5. HandlersAreWaiting' /\ CallbackCounted'
  BY <1>1, <1>2 DEF LinkInv, HandlersAreWaiting, CallbackCounted, late
<1> QED
  BY <1>1, <1>3, <1>4, <1>5 DEF LinkInv, OnlyStarted, OwnReply, late, wire

LEMMA ReturnStep == LinkInv /\ Return => LinkInv'
<1> SUFFICES ASSUME LinkInv, Return PROVE LinkInv'
  OBVIOUS
<1> DEFINE c == Last(stack)
<1>1. /\ UNCHANGED <<net, wire, quit, late, started, answer>> /\ stack # <<>>
      /\ stack' = Front(stack)
      /\ handlers' = IF answer[c] = NoAnswer THEN handlers \ {c} ELSE handlers
  BY DEF Return
<1>2. /\ c \in Sync /\ c \in ToSet(stack) /\ stack' \in Seq(Sync) /\ IsInjective(stack')
      /\ ToSet(stack') = ToSet(stack) \ {c}
  BY <1>1, PopFacts DEF LinkInv, Shape
<1> HIDE DEF c
<1>3. Waiting' = Waiting \ {c} /\ Pending' = Pending
  BY <1>1, <1>2 DEF Waiting, Pending, late
<1>4. c \notin Pending /\ (c \in Waiting <=> answer[c] = NoAnswer)
  BY <1>2, LinkAssumption DEF Pending, Waiting
<1>5. HandlersAreWaiting'
  BY <1>1, <1>3, <1>4 DEF LinkInv, HandlersAreWaiting
<1>6. OnlyAlive' /\ AnswerUnderWay'
  BY <1>1, <1>3, StillUnderWay
<1>7. Shape'
  BY <1>1, <1>2 DEF LinkInv, Shape, net, wire, late
<1>8. OnlyStarted'
  BY <1>1, <1>2 DEF LinkInv, OnlyStarted, wire, late
<1>9. CallbackCounted'
  BY <1>1, <1>3 DEF LinkInv, CallbackCounted, late
<1> QED
  BY <1>1, <1>2, <1>5, <1>6, <1>7, <1>8, <1>9 DEF LinkInv, OwnReply

LEMMA PostFacts ==
  ASSUME LinkInv, NEW c \in Async, Post(c)
  PROVE  /\ posted' \in [Async -> Nat] /\ posted'[c] = posted[c] + 1
         /\ \A d \in Async \ {c} : posted'[d] = posted[d]
         /\ \A d \in Async : posted[d] \in Nat /\ ran[d] \in Nat
  BY DEF LinkInv, Shape, Post

LEMMA AsyncTimesOutStep ==
  ASSUME NEW c \in Async, LinkInv, AsyncTimesOut(c)
  PROVE  LinkInv'
<1>1. /\ UNCHANGED <<net, wire, sync, ran, started, answer>>
      /\ c \in armed /\ armed' = armed \ {c} /\ c \in started
  BY DEF AsyncTimesOut, LinkInv, OnlyStarted
<1>2. Waiting' = Waiting /\ IsInjective(stack') /\ OwnReply'
  BY <1>1 DEF LinkInv, Waiting, OwnReply, sync
<1>3. CASE c \in fired
  <2>1. UNCHANGED <<fired, handlers, posted>>
    BY <1>3 DEF AsyncTimesOut
  <2>2. Pending' = Pending
    BY <1>1, <1>3, <2>1 DEF Pending
  <2>3. OnlyAlive' /\ AnswerUnderWay'
    BY <1>1, <1>2, <2>2, StillUnderWay
  <2>4. Shape'
    BY <1>1, <2>1 DEF LinkInv, Shape, net, wire, sync
  <2>5. OnlyStarted'
    BY <1>1, <2>1 DEF LinkInv, OnlyStarted, wire, sync
  <2>6. HandlersAreWaiting' /\ CallbackCounted'
    BY <1>1, <1>2, <2>1, <2>2 DEF LinkInv, HandlersAreWaiting, CallbackCounted
  <2> QED
    BY <1>2, <2>3, <2>4, <2>5, <2>6 DEF LinkInv
<1>4. CASE c \notin fired
  <2>1. fired' = fired \cup {c} /\ handlers' = handlers \ {c} /\ Post(c)
    BY <1>4 DEF AsyncTimesOut
  <2>2. Pending' = Pending \ {c} /\ c \in Pending
    BY <1>1, <1>4, <2>1 DEF Pending
  <2>3. OnlyAlive' /\ AnswerUnderWay'
    BY <1>1, <1>2, <2>2, StillUnderWay
  <2>4. Shape'
    BY <1>1, <2>1, PostFacts DEF LinkInv, Shape, net, wire, sync
  <2>5. OnlyStarted'
    BY <1>1, <2>1 DEF LinkInv, OnlyStarted, wire, sync
  <2>6. c \notin Waiting
    BY LinkAssumption, WaitingFacts
  <2>7. HandlersAreWaiting'
    BY <1>2, <2>1, <2>2, <2>6 DEF LinkInv, HandlersAreWaiting
  <2>8. ASSUME NEW d \in Async
        PROVE  posted'[d] + ran'[d] = IF d \in started' \ Pending' THEN 1 ELSE 0
    <3>1. posted[d] + ran[d] = IF d \in started \ Pending THEN 1 ELSE 0
      BY DEF LinkInv, CallbackCounted
    <3>2. d \in started' \ Pending' <=> (d \in started \ Pending \/ d = c)
      BY <1>1, <2>2
    <3> QED
      BY <3>1, <3>2, <2>1, <2>2, <1>1, PostFacts
  <2> QED
    BY <1>2, <2>3, <2>4, <2>5, <2>7, <2>8 DEF LinkInv, CallbackCounted
<1> QED
  BY <1>3, <1>4

LEMMA RunCallbackStep ==
  ASSUME NEW c \in Async, LinkInv, RunCallback(c)
  PROVE  LinkInv'
<1>1. /\ UNCHANGED <<net, wire, sync, armed, fired, started, answer, handlers>>
      /\ posted[c] > 0 /\ posted' = [posted EXCEPT ![c] = @ - 1]
      /\ ran' = [ran EXCEPT ![c] = @ + 1]
  BY DEF RunCallback
<1>2. posted \in [Async -> Nat] /\ ran \in [Async -> Nat]
  BY DEF LinkInv, Shape
<1>3. posted' \in [Async -> Nat] /\ ran' \in [Async -> Nat]
  BY <1>1, <1>2
<1>4. \A d \in Async : posted'[d] + ran'[d] = posted[d] + ran[d]
  BY <1>1, <1>2
<1>5. Waiting' = Waiting /\ Pending' = Pending
  BY <1>1 DEF Waiting, Pending, sync
<1>6. OnlyAlive' /\ AnswerUnderWay'
  BY <1>1, <1>5, StillUnderWay
<1>7. Shape'
  BY <1>1, <1>3 DEF LinkInv, Shape, net, wire, sync
<1>8. CallbackCounted' /\ HandlersAreWaiting'
  BY <1>1, <1>4, <1>5 DEF LinkInv, CallbackCounted, HandlersAreWaiting
<1> QED
  BY <1>1, <1>6, <1>7, <1>8 DEF LinkInv, OnlyStarted, OwnReply, wire, sync

-----------------------------------------------------------------------------
(* The server, and what arrives.                                           *)

LEMMA ReplyFacts ==
  ASSUME NEW c, NEW d
  PROVE  /\ Reply(c) # Event /\ (Reply(c) = Reply(d) => c = d) /\ Reply(c).to = c
<1>1. Reply(c).kind = "reply" /\ Event.kind = "event" /\ Reply(c).to = c /\ Reply(d).to = d
  BY DEF Reply, Event
<1> QED
  BY <1>1

\* A request becomes its reply, or an event is put behind what is under way.
LEMMA ServerSteps ==
  ASSUME LinkInv, Serve \/ Push
  PROVE  LinkInv'
<1>1. UNCHANGED <<net, parser, alive, sync, late, started, answer, handlers>>
  BY DEF Serve, Push
<1>2. outbox \in Seq(Call) /\ inbox \in Seq(Packet)
  BY DEF LinkInv, Shape
<1>3. /\ outbox' \in Seq(Call) /\ inbox' \in Seq(Packet) /\ OnlyAlive'
      /\ pushed' \in 0 .. MaxEvents /\ \A c \in Call : Under(c)' = Under(c)
  <2>1. CASE Serve
    <3> DEFINE h == Head(outbox)
    <3>1. /\ outbox # <<>> /\ outbox' = Tail(outbox) /\ inbox' = Append(inbox, Reply(h))
          /\ pushed' = pushed
      BY <2>1 DEF Serve
    <3>2. /\ h \in Call /\ h \in ToSet(outbox) /\ outbox' \in Seq(Call)
          /\ ToSet(outbox') \subseteq ToSet(outbox)
      BY <1>2, <3>1, TakeFacts
    <3>3. inbox' \in Seq(Packet) /\ ToSet(inbox') = ToSet(inbox) \cup {Reply(h)}
      BY <1>2, <3>1, <3>2, PushFacts DEF Packet
    <3> HIDE DEF h
    <3>4. OnlyAlive'
      BY <1>1, <3>2, <3>3, ReplyFacts DEF LinkInv, OnlyAlive
    <3>5. ASSUME NEW c \in Call PROVE Under(c)' = Under(c)
      <4>1. Times(outbox, c) = Times(outbox', c) + IF h = c THEN 1 ELSE 0
        BY <1>2, <3>1, TimesTake DEF h
      <4>2. Reply(h) = Reply(c) <=> h = c
        BY ReplyFacts
      <4>3. Reply(h) \in Packet
        BY <3>2 DEF Packet
      <4>4. Times(inbox', Reply(c)) = Times(inbox, Reply(c)) + IF h = c THEN 1 ELSE 0
        BY <1>2, <3>1, <4>2, <4>3, TimesPush
      <4>5. Times(outbox', c) \in Nat
        BY <3>2, TimesFacts
      <4>6. Under(c)' = Times(outbox', c) + Times(inbox', Reply(c))
        BY DEF Under, Times
      <4> QED
        BY <4>1, <4>4, <4>5, <4>6, UnderType
    <3> QED
      BY <3>1, <3>2, <3>3, <3>4, <3>5 DEF LinkInv, Shape
  <2>2. CASE Push
    <3>1. /\ outbox' = outbox /\ inbox' = Append(inbox, Event)
          /\ pushed < MaxEvents /\ pushed' = pushed + 1
      BY <2>2 DEF Push
    <3>2. inbox' \in Seq(Packet) /\ ToSet(inbox') = ToSet(inbox) \cup {Event}
      BY <1>2, <3>1, PushFacts DEF Packet
    <3>3. OnlyAlive'
      BY <1>1, <3>1, <3>2, ReplyFacts DEF LinkInv, OnlyAlive
    <3>4. ASSUME NEW c \in Call PROVE Under(c)' = Under(c)
      <4>1. Times(inbox', Reply(c)) = Times(inbox, Reply(c)) + IF Event = Reply(c) THEN 1 ELSE 0
        BY <1>2, <3>1, TimesPush DEF Packet
      <4>2. Under(c)' = Times(outbox, c) + Times(inbox', Reply(c))
        BY <3>1 DEF Under, Times
      <4> QED
        BY <4>1, <4>2, ReplyFacts, UnderType
    <3>5. pushed' \in 0 .. MaxEvents
      BY <3>1, LinkAssumption DEF LinkInv, Shape
    <3> QED
      BY <1>2, <3>1, <3>2, <3>3, <3>4, <3>5
  <2> QED
    BY <2>1, <2>2
<1>4. Waiting' = Waiting /\ Pending' = Pending
  BY <1>1 DEF Waiting, Pending, sync, late
<1>5. Waiting \cup Pending \subseteq Call
  BY WaitingFacts DEF Call
<1>6. AnswerUnderWay'
  BY <1>1, <1>3, <1>4, <1>5 DEF LinkInv, AnswerUnderWay
<1>7. Shape'
  BY <1>1, <1>3 DEF LinkInv, Shape, net, sync, late
<1>8. CallbackCounted' /\ HandlersAreWaiting'
  BY <1>1, <1>4 DEF LinkInv, CallbackCounted, HandlersAreWaiting, late
<1> QED
  BY <1>1, <1>3, <1>6, <1>7, <1>8 DEF LinkInv, OnlyStarted, OwnReply, sync, late

\* Routing a reply: the call it is for stops waiting, the others do not notice.
LEMMA RouteFacts ==
  ASSUME LinkInv, NEW c \in Call, RouteResponse(c),
         UNCHANGED <<stack, armed, ran, started>>
  PROVE  /\ Waiting' \cup Pending' = (Waiting \cup Pending) \ {c}
         /\ quit' \subseteq Sync /\ answer' \in [Call -> {NoAnswer} \cup Call]
         /\ posted' \in [Async -> Nat] /\ fired' \subseteq Async \cap started
         /\ handlers' \subseteq started
         /\ HandlersAreWaiting' /\ OwnReply' /\ CallbackCounted'
         /\ \A d \in Call : answer'[d] # NoAnswer => d \in started
<1>a. /\ handlers = Waiting \cup Pending /\ Waiting \subseteq Sync /\ Pending \subseteq Async
      /\ handlers \subseteq started /\ Sync \cap Async = {}
      /\ answer \in [Call -> {NoAnswer} \cup Call] /\ c # NoAnswer
  BY WaitingFacts, LinkAssumption DEF LinkInv, HandlersAreWaiting, OnlyStarted, Shape
<1>1. CASE c \notin handlers
  <2>1. UNCHANGED <<answer, handlers, quit, fired, posted>>
    BY <1>1 DEF RouteResponse
  <2>2. Waiting' = Waiting /\ Pending' = Pending
    BY <2>1 DEF Waiting, Pending
  <2> QED
    BY <1>a, <1>1, <2>1, <2>2 DEF LinkInv, Shape, OnlyStarted, HandlersAreWaiting,
       OwnReply, CallbackCounted
<1>2. CASE c \in handlers
  <2>1. /\ answer' = [answer EXCEPT ![c] = c] /\ handlers' = handlers \ {c}
        /\ quit' = IF c \in Sync THEN quit \cup {c} ELSE quit
        /\ fired' = IF c \in Async THEN fired \cup {c} ELSE fired
        /\ IF c \in Async THEN Post(c) ELSE UNCHANGED posted
    BY <1>2 DEF RouteResponse
  <2>2. /\ answer' \in [Call -> {NoAnswer} \cup Call] /\ answer'[c] = c
        /\ \A d \in Call \ {c} : answer'[d] = answer[d]
    BY <1>a, <2>1
  <2>3. Waiting' = Waiting \ {c}
    <3>1. ToSet(stack) \subseteq Call
      BY DEF LinkInv, OnlyStarted
    <3> QED
      BY <1>a, <2>2, <3>1 DEF Waiting
  <2>4. Pending' = Pending \ {c}
    BY <1>a, <1>2, <2>1 DEF Pending
  <2>5. HandlersAreWaiting'
    BY <1>a, <2>1, <2>3, <2>4 DEF HandlersAreWaiting
  <2>6. OwnReply' /\ \A d \in Call : answer'[d] # NoAnswer => d \in started
    BY <1>a, <1>2, <2>2 DEF LinkInv, OwnReply, OnlyStarted
  <2>7. posted' \in [Async -> Nat]
    BY <2>1, PostFacts DEF LinkInv, Shape
  <2>8. ASSUME NEW d \in Async
        PROVE  posted'[d] + ran'[d] = IF d \in started' \ Pending' THEN 1 ELSE 0
    <3>1. posted[d] + ran[d] = IF d \in started \ Pending THEN 1 ELSE 0
      BY DEF LinkInv, CallbackCounted
    <3>2. CASE d # c
      <4>1. posted'[d] = posted[d]
        BY <3>2, <2>1, PostFacts
      <4> QED
        BY <3>1, <3>2, <4>1, <2>4
    <3>3. CASE d = c
      <4>1. c \in Pending /\ c \in started /\ c \notin Pending'
        BY <3>3, <1>a, <1>2, <2>4
      <4>2. posted'[c] = posted[c] + 1 /\ posted[c] \in Nat /\ ran[c] \in Nat
        BY <3>3, <2>1, PostFacts
      <4> QED
        BY <3>1, <3>3, <4>1, <4>2
    <3> QED
      BY <3>2, <3>3
  <2>9. quit' \subseteq Sync /\ fired' \subseteq Async \cap started /\ handlers' \subseteq started
    BY <1>a, <1>2, <2>1 DEF LinkInv, Shape, OnlyStarted
  <2> QED
    BY <2>2, <2>3, <2>4, <2>5, <2>6, <2>7, <2>8, <2>9 DEF CallbackCounted
<1> QED
  BY <1>1, <1>2

LEMMA DeliverStep == LinkInv /\ Deliver => LinkInv'
<1> SUFFICES ASSUME LinkInv, Deliver PROVE LinkInv'
  OBVIOUS
<1> DEFINE p == Head(inbox)
<1>1. /\ inbox # <<>> /\ inbox' = Tail(inbox)
      /\ parser' = IF parser = "clean" THEN "clean" ELSE "deaf"
      /\ IF parser = "clean" /\ p # Event THEN RouteResponse(p.to)
         ELSE UNCHANGED <<answer, handlers, quit, fired, posted>>
      /\ UNCHANGED <<net, outbox, alive, pushed, stack, armed, ran, started>>
  BY DEF Deliver
<1>2. inbox \in Seq(Packet) /\ outbox \in Seq(Call)
  BY DEF LinkInv, Shape
<1>3. p \in Packet /\ inbox' \in Seq(Packet) /\ ToSet(inbox') \subseteq ToSet(inbox)
  BY <1>1, <1>2, TakeFacts
<1>4. OnlyAlive'
  BY <1>1, <1>3 DEF LinkInv, OnlyAlive
<1>5. \A c : Times(inbox, Reply(c)) = Times(inbox', Reply(c)) + IF p = Reply(c) THEN 1 ELSE 0
  BY <1>1, <1>2, TimesTake
<1> HIDE DEF p
<1>6. ASSUME NEW c \in Call, p # Reply(c)
      PROVE  Under(c)' = Under(c)
  <2>1. Under(c)' = Times(outbox, c) + Times(inbox', Reply(c))
    BY <1>1 DEF Under, Times
  <2>2. Times(inbox', Reply(c)) \in Nat
    BY <1>3, TimesFacts
  <2> QED
    BY <1>5, <1>6, <2>1, <2>2, UnderType
<1>7. Waiting \cup Pending \subseteq Call
  BY WaitingFacts DEF Call
<1>8. CASE parser = "clean" /\ p # Event
  <2>1. PICK c \in Call : p = Reply(c)
    BY <1>3, <1>8 DEF Packet
  <2>2. RouteResponse(c) /\ p.to = c
    BY <1>1, <1>8, <2>1, ReplyFacts
  <2>3. /\ Waiting' \cup Pending' = (Waiting \cup Pending) \ {c}
        /\ quit' \subseteq Sync /\ answer' \in [Call -> {NoAnswer} \cup Call]
        /\ posted' \in [Async -> Nat] /\ fired' \subseteq Async \cap started
        /\ handlers' \subseteq started
        /\ HandlersAreWaiting' /\ OwnReply' /\ CallbackCounted'
        /\ \A d \in Call : answer'[d] # NoAnswer => d \in started
    BY <1>1, <2>2, RouteFacts
  <2>4. \A d \in Call \ {c} : Under(d)' = Under(d)
    BY <1>6, <2>1, ReplyFacts
  <2>5. AnswerUnderWay'
    BY <1>1, <1>7, <1>8, <2>3, <2>4 DEF LinkInv, AnswerUnderWay
  <2>6. Shape'
    BY <1>1, <1>3, <2>3 DEF LinkInv, Shape, net
  <2>7. OnlyStarted'
    BY <1>1, <2>3 DEF LinkInv, OnlyStarted
  <2> QED
    BY <1>1, <1>4, <2>3, <2>5, <2>6, <2>7 DEF LinkInv
<1>9. CASE ~ (parser = "clean" /\ p # Event)
  <2>1. UNCHANGED <<answer, handlers, quit, fired, posted>>
    BY <1>1, <1>9
  <2>2. Waiting' = Waiting /\ Pending' = Pending
    BY <1>1, <2>1 DEF Waiting, Pending
  <2>3. AnswerUnderWay'
    <3> SUFFICES ASSUME NEW c \in (Waiting \cup Pending) \cap alive, parser' = "clean"
                 PROVE  Under(c)' = 1
      BY <1>1, <2>2 DEF AnswerUnderWay
    <3>1. parser = "clean" /\ p = Event /\ c \in Call
      BY <1>1, <1>7, <1>9
    <3> QED
      BY <3>1, <1>6, ReplyFacts DEF LinkInv, AnswerUnderWay
  <2>4. Shape'
    BY <1>1, <1>3, <2>1 DEF LinkInv, Shape, net
  <2>5. HandlersAreWaiting' /\ CallbackCounted'
    BY <1>1, <2>1, <2>2 DEF LinkInv, HandlersAreWaiting, CallbackCounted
  <2> QED
    BY <1>1, <1>4, <2>1, <2>3, <2>4, <2>5 DEF LinkInv, OnlyStarted, OwnReply
<1> QED
  BY <1>8, <1>9

-----------------------------------------------------------------------------
(* Theorems.                                                               *)

LEMMA LinkStep == LinkInv /\ [Next]_vars => LinkInv'
<1> SUFFICES ASSUME LinkInv, [Next]_vars PROVE LinkInv'
  OBVIOUS
<1>1. CASE Connect \/ OnReconnectTimeout \/ ServerStops \/ ServerStarts \/ UNCHANGED vars
  <2>1. UNCHANGED <<wire, sync, late, started, answer, handlers>>
    BY <1>1 DEF Connect, OnReconnectTimeout, ServerStops, ServerStarts, vars
  <2> QED
    BY <1>1, <2>1, NetSteps
<1>2. CASE Lose
  BY <1>2, LoseStep
<1>3. ASSUME NEW c \in Sync, SendRequest(c) \/ RequestTimesOut(c) PROVE LinkInv'
  BY <1>3, SendRequestStep, RequestTimesOutStep
<1>4. ASSUME NEW c \in Cast, SendAsync(c) PROVE LinkInv'
  BY <1>4, SendAsyncStep
<1>5. ASSUME NEW c \in Async, SendRequestAsync(c) \/ AsyncTimesOut(c) \/ RunCallback(c)
      PROVE  LinkInv'
  BY <1>5, SendRequestAsyncStep, AsyncTimesOutStep, RunCallbackStep
<1>6. CASE Return
  BY <1>6, ReturnStep
<1>7. CASE Serve \/ Push
  BY <1>7, ServerSteps
<1>8. CASE Deliver
  BY <1>8, DeliverStep
<1> QED
  BY <1>1, <1>2, <1>3, <1>4, <1>5, <1>6, <1>7, <1>8 DEF Next

LEMMA SpecLinkInv == Spec => []LinkInv
  BY InitLinkInv, LinkStep, PTL DEF Spec

\* However calls nest and whatever is lost, late or cut off, a reply goes to the
\* call it answers, a handler goes with its call and no callback runs twice.
THEOREM RepliesAreDelivered == Spec => []RepliesDelivered
<1>1. LinkInv => RepliesDelivered
  <2> SUFFICES ASSUME LinkInv PROVE RepliesDelivered
    OBVIOUS
  <2>1. /\ Range(outbox) \subseteq Call /\ Range(inbox) \subseteq Packet
        /\ Range(stack) \subseteq Sync
    BY RangeOfSeq DEF LinkInv, Shape
  <2>2. Range(stack) \subseteq started
    BY DEF LinkInv, OnlyStarted, ToSet, Range
  <2>3. TypeOK
    BY <2>1, <2>2 DEF LinkInv, Shape, OnlyStarted, Packet, TypeOK
  <2>4. CallbackOnce
    BY DEF LinkInv, CallbackCounted, CallbackOnce
  <2> QED
    BY <2>3, <2>4 DEF LinkInv, RepliesDelivered
<1> QED
  BY SpecLinkInv, <1>1, PTL

\* The request of a call that waits is under way exactly once, until its
\* connection is lost or the parser loses step.
THEOREM AnswersAreUnderWay == Spec => []AnswerUnderWay
<1>1. LinkInv => AnswerUnderWay
  BY DEF LinkInv
<1> QED
  BY SpecLinkInv, <1>1, PTL

\* A client that was connected once and is not now is about to try again, unless
\* its last attempt was refused, which is where the code stops trying.
THEOREM RetriesAreScheduled == Spec => []RetryScheduled
<1>1. Init => RetryScheduled
  BY DEF Init, RetryScheduled
<1>2. RetryScheduled /\ [Next]_vars => RetryScheduled'
  <2> SUFFICES ASSUME RetryScheduled, [Next]_vars PROVE RetryScheduled'
    OBVIOUS
  <2>1. CASE Lose
    BY <2>1 DEF Lose, OnDisconnected, RetryScheduled
  <2>2. CASE UNCHANGED net
    BY <2>2 DEF net, RetryScheduled
  <2>3. CASE ConnectToServer
    BY <2>3 DEF ConnectToServer, OnConnected, OnConnectError, Up, RetryScheduled
  <2>4. CASE Connect \/ OnReconnectTimeout \/ ServerStops \/ ServerStarts
    BY <2>4 DEF Connect, OnReconnectTimeout, ServerStops, ServerStarts, OnConnected,
       OnConnectError, RetryScheduled
  <2> QED
    BY <2>1, <2>2, <2>3, <2>4 DEF Next, vars, SendRequest, RequestTimesOut, SendAsync,
       SendRequestAsync, AsyncTimesOut, RunCallback, Return, Serve, Push, Deliver
<1> QED
  BY <1>1, <1>2, PTL DEF Spec

=============================================================================
