--------------------------- MODULE StudyRoomProofs ---------------------------
(***************************************************************************)
(* Proofs about StudyRoom, for any readers, rooms and notes, with nested   *)
(* calls, timeouts and late replies: no panel shows a note twice, and a    *)
(* session is open exactly while it has participants. And while nobody     *)
(* acts before his call has returned and no request times out: a client    *)
(* that has settled in a room is one of its participants, shows all of     *)
(* them and exactly the room's notes.                                      *)
(***************************************************************************)
EXTENDS StudyRoom, SequenceTheorems, TLAPS

Written == {n \in Note : author[n] # NoUser}

-----------------------------------------------------------------------------
(* What is on its way while W are the notes that have been written.        *)

RequestsOf(W) ==
  [op : {"create"}, id : Nat, room : {NoRoom}, note : {{}}]
  \cup [op : {"join", "notes", "leave"}, id : Nat, room : Room, note : {{}}]
  \cup [op : {"add"}, id : Nat, room : Room, note : (SUBSET W) \ {{}}]
RepliesOf(W) ==
  [kind : {"reply"}, id : Nat, ok : BOOLEAN, room : Room, people : SUBSET User,
   notes : SUBSET W]
EventsOf(W) ==
  [kind : {"note"}, room : Room, note : W]
  \cup [kind : {"people"}, room : Room, people : SUBSET User]
CallsOf(W) ==
  [id : Nat, step : {"create"}, room : {NoRoom}, reply : RepliesOf(W) \cup {NoReply}]
  \cup [id : Nat, step : {"join", "notes"}, room : Room,
        reply : RepliesOf(W) \cup {NoReply}]

\* Nothing carries a note before it is written; a panel shows it at most once.
Sessions ==
  /\ state \in [Room -> {"None", "Created", "Active", "Closed"}]
  /\ members \in [Room -> SUBSET User]
  /\ notes \in [Room -> SUBSET Written]
Queues ==
  /\ up \in [User -> Seq(RequestsOf(Written))]
  /\ down \in [User -> Seq(RepliesOf(Written) \cup EventsOf(Written))]
  /\ posted \in [User -> Seq(EventsOf(Written))]
  /\ calls \in [User -> Seq(CallsOf(Written))]
Panels == [Note -> {0, 1}]
Views ==
  /\ made \in [User -> 0 .. MaxCalls]
  /\ current \in [User -> Room \cup {NoRoom}]
  /\ people \in [User -> SUBSET User]
  /\ author \in [Note -> User \cup {NoUser}]
  /\ shown \in [User -> Panels]
  /\ \A u \in User, n \in Note \ Written : shown[u][n] = 0

RoomInv == Sessions /\ Queues /\ Views /\ ClosedWhenEmpty

-----------------------------------------------------------------------------
LEMMA Grows ==
  ASSUME NEW V, NEW W, V \subseteq W
  PROVE  /\ RequestsOf(V) \subseteq RequestsOf(W)
         /\ RepliesOf(V) \subseteq RepliesOf(W)
         /\ EventsOf(V) \subseteq EventsOf(W)
         /\ CallsOf(V) \subseteq CallsOf(W)
<1>1. RequestsOf(V) \subseteq RequestsOf(W)
  BY DEF RequestsOf
<1>2. RepliesOf(V) \subseteq RepliesOf(W)
  BY DEF RepliesOf
<1>3. EventsOf(V) \subseteq EventsOf(W)
  BY DEF EventsOf
<1>4. CallsOf(V) \subseteq CallsOf(W)
  BY <1>2 DEF CallsOf
<1> QED
  BY <1>1, <1>2, <1>3, <1>4

\* Panels hold notes once.
LEMMA OnceFacts ==
  ASSUME NEW S
  PROVE  Once(S) \in Panels /\ \A n \in Note \ S : Once(S)[n] = 0
  BY DEF Once, Panels

LEMMA RequestFacts ==
  ASSUME NEW W, NEW k \in Nat, NEW x, NEW r, NEW step,
         (step = "create" /\ r = NoRoom) \/ (step \in {"join", "notes"} /\ r \in Room),
         x \in RepliesOf(W) \cup {NoReply}
  PROVE  LET call == [id |-> k, step |-> step, room |-> r, reply |-> x]
         IN  call \in CallsOf(W) /\ RequestOf(call) \in RequestsOf(W)
<1> DEFINE call == [id |-> k, step |-> step, room |-> r, reply |-> x]
<1>1. call \in CallsOf(W)
  BY DEF CallsOf
<1>2. RequestId(call) \in Nat
  BY DEF RequestId
<1>3. call.step = step /\ call.room = r
  OBVIOUS
<1> HIDE DEF call
<1>4. RequestOf(call) = [op |-> step, id |-> RequestId(call), room |-> r, note |-> {}]
  BY <1>3 DEF RequestOf
<1>5. RequestOf(call) \in RequestsOf(W)
  BY <1>2, <1>4 DEF RequestsOf
<1> QED
  BY <1>1, <1>5 DEF call

\* The stack of a client that waits.
LEMMA StackFacts ==
  ASSUME NEW W, NEW s \in Seq(CallsOf(W)), s # <<>>
  PROVE  Last(s) \in CallsOf(W) /\ Front(s) \in Seq(CallsOf(W))
<1>1. Len(s) \in 1 .. Len(s)
  BY EmptySeq, LenProperties
<1>2. Last(s) \in CallsOf(W)
  BY <1>1, ElementOfSeq DEF Last
<1>3. \A i \in 1 .. Len(s) - 1 : s[i] \in CallsOf(W)
  BY <1>1, ElementOfSeq
<1>4. Front(s) \in Seq(CallsOf(W))
  BY <1>1, <1>3, SubSeqProperties DEF Front
<1> QED
  BY <1>2, <1>4

LEMMA SendFacts ==
  ASSUME RoomInv, NEW u, NEW to, NEW events \in Seq(EventsOf(Written)),
         NEW replies \in Seq(RepliesOf(Written)), Send(u, to, events, replies)
  PROVE  down' \in [User -> Seq(RepliesOf(Written) \cup EventsOf(Written))]
<1> DEFINE M == RepliesOf(Written) \cup EventsOf(Written)
<1>1. events \in Seq(M) /\ replies \in Seq(M) /\ <<>> \in Seq(M)
  BY SeqMonotonic, EmptySeq
<1>2. ASSUME NEW v \in User
      PROVE  down[v] \o (IF v \in to THEN events ELSE <<>>)
                     \o (IF v = u THEN replies ELSE <<>>) \in Seq(M)
  <2> DEFINE e == IF v \in to THEN events ELSE <<>>
             a == IF v = u THEN replies ELSE <<>>
  <2>1. down[v] \in Seq(M) /\ e \in Seq(M) /\ a \in Seq(M)
    BY <1>1 DEF RoomInv, Queues
  <2> HIDE DEF e, a, M
  <2>2. down[v] \o e \in Seq(M)
    BY <2>1, ConcatProperties
  <2>3. down[v] \o e \o a \in Seq(M)
    BY <2>1, <2>2, ConcatProperties
  <2> QED
    BY <2>3 DEF e, a
<1> QED
  BY <1>2 DEF Send
-----------------------------------------------------------------------------
(* The client.                                                             *)

\* The server's tables are not touched, nor is what the user has written.
LEMMA ClientSteps ==
  ASSUME RoomInv, UNCHANGED <<serverVars, author>>, Queues', Views'
  PROVE  RoomInv'
  BY DEF RoomInv, Sessions, ClosedWhenEmpty, Open, Written, serverVars

LEMMA InitRoomInv == Init => RoomInv
<1> SUFFICES ASSUME Init PROVE RoomInv
  OBVIOUS
<1>1. Written = {}
  BY DEF Init, Written
<1>2. Sessions /\ ClosedWhenEmpty
  BY DEF Init, Sessions, ClosedWhenEmpty, Open
<1>3. Queues
  BY EmptySeq DEF Init, Queues
<1>4. Views
  BY OnceFacts, StudyRoomAssumption DEF Init, Views, Panels
<1> QED
  BY <1>2, <1>3, <1>4 DEF RoomInv

LEMMA BeginStep ==
  ASSUME RoomInv, NEW u \in User, NEW r, NEW step, Begin(u, step, r),
         (step = "create" /\ r = NoRoom) \/ (step = "join" /\ r \in Room)
  PROVE  RoomInv'
<1> DEFINE call == [id |-> made[u], step |-> step, room |-> r, reply |-> NoReply]
<1>1. Written' = Written
  BY DEF Begin, Written
<1>2. made[u] \in Nat /\ made[u] + 1 \in 0 .. MaxCalls
  BY StudyRoomAssumption DEF RoomInv, Views, Begin
<1>3. call \in CallsOf(Written) /\ RequestOf(call) \in RequestsOf(Written)
  BY <1>2, RequestFacts
<1>4. /\ calls' = [calls EXCEPT ![u] = Append(@, call)]
      /\ up' = [up EXCEPT ![u] = Append(@, RequestOf(call))]
      /\ made' = [made EXCEPT ![u] = @ + 1]
      /\ UNCHANGED <<serverVars, down, posted, viewVars, author>>
  BY DEF Begin
<1> HIDE DEF call
<1>5. Queues'
  <2>1. Append(calls[u], call) \in Seq(CallsOf(Written))
    BY <1>3, AppendProperties DEF RoomInv, Queues
  <2>2. Append(up[u], RequestOf(call)) \in Seq(RequestsOf(Written))
    BY <1>3, AppendProperties DEF RoomInv, Queues
  <2> QED
    BY <1>1, <1>4, <2>1, <2>2 DEF RoomInv, Queues
<1>6. Views'
  BY <1>1, <1>2, <1>4 DEF RoomInv, Views, viewVars
<1> QED
  BY <1>4, <1>5, <1>6, ClientSteps

LEMMA LeaveStep ==
  ASSUME RoomInv, NEW u \in User, LeaveRoom(u)
  PROVE  RoomInv'
<1> DEFINE m == [op |-> "leave", id |-> 0, room |-> current[u], note |-> {}]
<1>1. Written' = Written
  BY DEF LeaveRoom, Written
<1>2. m \in RequestsOf(Written)
  BY DEF RequestsOf, RoomInv, Views, LeaveRoom
<1>3. up' = [up EXCEPT ![u] = Append(@, m)]
  BY DEF LeaveRoom
<1> HIDE DEF m
<1>4. Append(up[u], m) \in Seq(RequestsOf(Written))
  BY <1>2, AppendProperties DEF RoomInv, Queues
<1>5. Queues'
  BY <1>1, <1>3, <1>4 DEF RoomInv, Queues, LeaveRoom
<1>6. Once({}) \in Panels /\ \A n \in Note : Once({})[n] = 0
  BY OnceFacts
<1>7. Views'
  BY <1>1, <1>6 DEF RoomInv, Views, LeaveRoom
<1> QED
  BY <1>5, <1>7, ClientSteps DEF LeaveRoom

\* The only step that lets more notes be under way.
LEMMA AddStep ==
  ASSUME RoomInv, NEW u \in User, NEW n \in Note, AddNote(u, n)
  PROVE  RoomInv'
<1> DEFINE W == Written \cup {n}
           m == [op |-> "add", id |-> 0, room |-> current[u], note |-> {n}]
<1>1. Written' = W /\ n \notin Written
  <2>1. author' = [author EXCEPT ![n] = u] /\ author[n] = NoUser /\ u # NoUser
    BY StudyRoomAssumption DEF AddNote
  <2>2. author \in [Note -> User \cup {NoUser}]
    BY DEF RoomInv, Views
  <2> QED
    BY <2>1, <2>2 DEF Written
<1>2. m \in RequestsOf(W)
  BY DEF RequestsOf, RoomInv, Views, AddNote
<1>3. /\ up' = [up EXCEPT ![u] = Append(@, m)]
      /\ UNCHANGED <<serverVars, down, posted, calls, made, current, people>>
      /\ shown' = [shown EXCEPT ![u][n] = @ + 1]
      /\ author' = [author EXCEPT ![n] = u]
  BY DEF AddNote
<1>4. /\ RequestsOf(Written) \subseteq RequestsOf(W)
      /\ RepliesOf(Written) \subseteq RepliesOf(W)
      /\ EventsOf(Written) \subseteq EventsOf(W)
      /\ CallsOf(Written) \subseteq CallsOf(W)
  BY Grows
<1> HIDE DEF m
<1>5. up' \in [User -> Seq(RequestsOf(W))]
  <2>1. \A v \in User : up[v] \in Seq(RequestsOf(W))
    BY <1>4, SeqMonotonic DEF RoomInv, Queues
  <2>2. Append(up[u], m) \in Seq(RequestsOf(W))
    BY <1>2, <2>1, AppendProperties
  <2> QED
    BY <1>3, <2>1, <2>2 DEF RoomInv, Queues
<1>6. /\ down \in [User -> Seq(RepliesOf(W) \cup EventsOf(W))]
      /\ posted \in [User -> Seq(EventsOf(W))]
      /\ calls \in [User -> Seq(CallsOf(W))]
  <2>1. RepliesOf(Written) \cup EventsOf(Written) \subseteq RepliesOf(W) \cup EventsOf(W)
    BY <1>4
  <2>2. \A v \in User : down[v] \in Seq(RepliesOf(W) \cup EventsOf(W))
    <3> DEFINE M == RepliesOf(Written) \cup EventsOf(Written)
               N == RepliesOf(W) \cup EventsOf(W)
    <3>1. M \subseteq N /\ \A v \in User : down[v] \in Seq(M)
      BY <2>1 DEF RoomInv, Queues
    <3> HIDE DEF M, N
    <3>2. \A v \in User : down[v] \in Seq(N)
      BY <3>1, SeqMonotonic
    <3> QED
      BY <3>2 DEF N
  <2>3. \A v \in User : posted[v] \in Seq(EventsOf(W)) /\ calls[v] \in Seq(CallsOf(W))
    BY <1>4, SeqMonotonic DEF RoomInv, Queues
  <2> QED
    BY <2>2, <2>3 DEF RoomInv, Queues
<1> HIDE DEF W
<1>7. Queues'
  BY <1>1, <1>3, <1>5, <1>6 DEF Queues
<1>8. Views'
  <2>1. shown[u][n] = 0 /\ shown \in [User -> [Note -> {0, 1}]]
    BY <1>1 DEF RoomInv, Views, Panels
  <2>2. shown' \in [User -> [Note -> {0, 1}]]
    BY <1>3, <2>1
  <2>3. \A v \in User, k \in Note \ W : shown'[v][k] = shown[v][k]
    BY <1>3, <2>1 DEF W
  <2> QED
    BY <1>1, <1>3, <2>2, <2>3 DEF RoomInv, Views, Panels, W
<1>9. Sessions' /\ ClosedWhenEmpty'
  BY <1>1, <1>3 DEF RoomInv, Sessions, ClosedWhenEmpty, Open, serverVars, W
<1> QED
  BY <1>7, <1>8, <1>9 DEF RoomInv

LEMMA ReceiveStep ==
  ASSUME RoomInv, NEW u \in User, Receive(u)
  PROVE  RoomInv'
<1> DEFINE m == Head(down[u])
<1>1. Written' = Written
  BY DEF Receive, Written
<1>2. /\ m \in RepliesOf(Written) \cup EventsOf(Written)
      /\ Tail(down[u]) \in Seq(RepliesOf(Written) \cup EventsOf(Written))
  BY HeadTailProperties DEF RoomInv, Queues, Receive
<1>3. down' \in [User -> Seq(RepliesOf(Written) \cup EventsOf(Written))]
  BY <1>2 DEF RoomInv, Queues, Receive
<1>4. CASE m.kind = "reply"
  <2> DEFINE s == [i \in DOMAIN calls[u] |->
                     IF RequestId(calls[u][i]) = m.id THEN [calls[u][i] EXCEPT !.reply = m]
                     ELSE calls[u][i]]
  <2>1. m \in RepliesOf(Written)
    BY <1>2, <1>4 DEF EventsOf
  <2>2. calls' = [calls EXCEPT ![u] = s] /\ posted' = posted
    BY <1>4 DEF Receive
  <2>3. s \in Seq(CallsOf(Written))
    <3>1. calls[u] \in Seq(CallsOf(Written))
      BY DEF RoomInv, Queues
    <3>2. /\ DOMAIN calls[u] = 1 .. Len(calls[u]) /\ Len(calls[u]) \in Nat
          /\ \A i \in DOMAIN calls[u] : calls[u][i] \in CallsOf(Written)
      BY <3>1, LenProperties, ElementOfSeq
    <3>3. \A c \in CallsOf(Written) : [c EXCEPT !.reply = m] \in CallsOf(Written)
      BY <2>1 DEF CallsOf
    <3> HIDE DEF m
    <3>4. s \in [1 .. Len(calls[u]) -> CallsOf(Written)]
      BY <3>2, <3>3
    <3> HIDE DEF s
    <3> QED
      BY <3>2, <3>4, SeqDef
  <2> HIDE DEF s, m
  <2>4. Queues'
    BY <1>1, <1>3, <2>2, <2>3 DEF RoomInv, Queues, Receive
  <2>5. Views'
    BY <1>1 DEF RoomInv, Views, Receive, viewVars
  <2> QED
    BY <2>4, <2>5, ClientSteps DEF Receive
<1>5. CASE m.kind # "reply"
  <2>1. m \in EventsOf(Written)
    BY <1>2, <1>5 DEF RepliesOf
  <2>2. posted' = [posted EXCEPT ![u] = Append(@, m)] /\ calls' = calls
    BY <1>5 DEF Receive
  <2> HIDE DEF m
  <2>3. Append(posted[u], m) \in Seq(EventsOf(Written))
    BY <2>1, AppendProperties DEF RoomInv, Queues
  <2>4. Queues'
    BY <1>1, <1>3, <2>2, <2>3 DEF RoomInv, Queues, Receive
  <2>5. Views'
    BY <1>1 DEF RoomInv, Views, Receive, viewVars
  <2> QED
    BY <2>4, <2>5, ClientSteps DEF Receive
<1> QED
  BY <1>4, <1>5

LEMMA HandleStep ==
  ASSUME RoomInv, NEW u \in User, Handle(u)
  PROVE  RoomInv'
<1> DEFINE m == Head(posted[u])
<1>1. Written' = Written
  BY DEF Handle, Written
<1>2. m \in EventsOf(Written) /\ Tail(posted[u]) \in Seq(EventsOf(Written))
  BY HeadTailProperties DEF RoomInv, Queues, Handle
<1>3. Queues'
  BY <1>1, <1>2 DEF RoomInv, Queues, Handle
<1>4. people' \in [User -> SUBSET User]
  <2>1. m.kind = "people" => m.people \in SUBSET User
    BY <1>2 DEF EventsOf
  <2>2. people' = people \/ (m.kind = "people" /\ people' = [people EXCEPT ![u] = m.people])
    BY DEF Handle
  <2> HIDE DEF m
  <2> QED
    BY <2>1, <2>2 DEF RoomInv, Views
<1>5. /\ shown' \in [User -> Panels]
      /\ \A v \in User, n \in Note \ Written : shown'[v][n] = 0
  <2>1. m.kind = "note" => m.note \in Written /\ m.note \in Note
    BY <1>2 DEF EventsOf, Written
  <2>2. shown' = shown \/ (m.kind = "note" /\ shown' = ShowNote(u, m.note))
    BY DEF Handle
  <2> HIDE DEF m
  <2>3. CASE shown' = shown
    BY <2>3 DEF RoomInv, Views
  <2>4. ASSUME NEW n \in Note, n \in Written, shown' = ShowNote(u, n)
        PROVE  /\ shown' \in [User -> Panels]
               /\ \A v \in User, k \in Note \ Written : shown'[v][k] = 0
    <3>1. shown \in [User -> [Note -> {0, 1}]]
      BY DEF RoomInv, Views, Panels
    <3>2. shown' = shown \/ (shown[u][n] = 0 /\ shown' = [shown EXCEPT ![u][n] = @ + 1])
      BY <2>4, <3>1 DEF ShowNote
    <3>3. shown' \in [User -> [Note -> {0, 1}]]
      BY <3>1, <3>2
    <3>4. \A v \in User, k \in Note \ Written : shown'[v][k] = shown[v][k]
      BY <2>4, <3>1, <3>2
    <3> QED
      BY <3>3, <3>4 DEF RoomInv, Views, Panels
  <2> QED
    BY <2>1, <2>2, <2>3, <2>4
<1>6. Views'
  BY <1>1, <1>4, <1>5 DEF RoomInv, Views, Handle
<1> QED
  BY <1>3, <1>6, ClientSteps DEF Handle

\* A call that goes on replaces the innermost by its next request.
LEMMA GoOnFacts ==
  ASSUME RoomInv, NEW u \in User, NEW step \in {"join", "notes"}, NEW r \in Room,
         calls[u] # <<>>, GoOn(u, step, r)
  PROVE  /\ calls' \in [User -> Seq(CallsOf(Written))]
         /\ up' \in [User -> Seq(RequestsOf(Written))]
<1> DEFINE call == [id |-> Innermost(u).id, step |-> step, room |-> r, reply |-> NoReply]
<1>1. Innermost(u) \in CallsOf(Written) /\ Front(calls[u]) \in Seq(CallsOf(Written))
  BY StackFacts DEF RoomInv, Queues, Innermost
<1>2. Innermost(u).id \in Nat
  BY <1>1 DEF CallsOf
<1>3. call \in CallsOf(Written) /\ RequestOf(call) \in RequestsOf(Written)
  BY <1>2, RequestFacts
<1>4. /\ calls' = [calls EXCEPT ![u] = Append(Front(@), call)]
      /\ up' = [up EXCEPT ![u] = Append(@, RequestOf(call))]
  BY DEF GoOn
<1> HIDE DEF call
<1>5. Append(Front(calls[u]), call) \in Seq(CallsOf(Written))
  BY <1>1, <1>3, AppendProperties
<1>6. Append(up[u], RequestOf(call)) \in Seq(RequestsOf(Written))
  BY <1>3, AppendProperties DEF RoomInv, Queues
<1> QED
  BY <1>4, <1>5, <1>6 DEF RoomInv, Queues

\* What the innermost call has been told.
LEMMA AnsweredFacts ==
  ASSUME RoomInv, NEW u \in User, NEW step, NEW ok, Answered(u, step, ok)
  PROVE  /\ calls[u] # <<>> /\ Innermost(u) \in CallsOf(Written)
         /\ Innermost(u).reply \in RepliesOf(Written)
         /\ Front(calls[u]) \in Seq(CallsOf(Written))
<1>1. calls[u] # <<>> /\ Innermost(u).reply # NoReply
  BY DEF Answered
<1>2. Innermost(u) \in CallsOf(Written) /\ Front(calls[u]) \in Seq(CallsOf(Written))
  BY <1>1, StackFacts DEF RoomInv, Queues, Innermost
<1> QED
  BY <1>1, <1>2 DEF CallsOf

LEMMA ReturnSteps ==
  ASSUME RoomInv, NEW u \in User, ReturnCreate(u) \/ ReturnJoin(u) \/ ReturnNotes(u)
  PROVE  RoomInv'
<1>1. Written' = Written
  BY DEF ReturnCreate, ReturnJoin, ReturnNotes, Written
<1>2. CASE ReturnCreate(u)
  <2>1. /\ calls[u] # <<>> /\ Innermost(u).reply \in RepliesOf(Written)
        /\ GoOn(u, "join", Innermost(u).reply.room)
    BY <1>2, AnsweredFacts DEF ReturnCreate
  <2>2. Innermost(u).reply.room \in Room
    BY <2>1 DEF RepliesOf
  <2>3. Queues'
    BY <1>1, <1>2, <2>1, <2>2, GoOnFacts DEF ReturnCreate, RoomInv, Queues
  <2>4. Views'
    BY <1>1, <1>2 DEF ReturnCreate, RoomInv, Views, viewVars
  <2> QED
    BY <1>2, <2>3, <2>4, ClientSteps DEF ReturnCreate
<1>3. CASE ReturnJoin(u)
  <2>1. /\ calls[u] # <<>> /\ Innermost(u) \in CallsOf(Written)
        /\ Innermost(u).reply \in RepliesOf(Written)
    BY <1>3, AnsweredFacts DEF ReturnJoin
  <2>2. Innermost(u).room \in Room /\ Innermost(u).reply.people \in SUBSET User
    BY <1>3, <2>1 DEF RepliesOf, CallsOf, ReturnJoin, Answered
  <2>3. GoOn(u, "notes", Innermost(u).room)
    BY <1>3 DEF ReturnJoin
  <2>4. Queues'
    BY <1>1, <1>3, <2>1, <2>2, <2>3, GoOnFacts DEF ReturnJoin, RoomInv, Queues
  <2>5. Views'
    BY <1>1, <1>3, <2>2 DEF ReturnJoin, RoomInv, Views
  <2> QED
    BY <1>3, <2>4, <2>5, ClientSteps DEF ReturnJoin
<1>4. CASE ReturnNotes(u)
  <2>1. /\ Innermost(u).reply \in RepliesOf(Written)
        /\ Front(calls[u]) \in Seq(CallsOf(Written))
    BY <1>4, AnsweredFacts DEF ReturnNotes
  <2>2. Queues'
    BY <1>1, <1>4, <2>1 DEF ReturnNotes, Finish, RoomInv, Queues
  <2> DEFINE panel == Once(Innermost(u).reply.notes)
  <2>3. Innermost(u).reply.notes \subseteq Written
    BY <2>1 DEF RepliesOf
  <2>4. panel \in Panels /\ \A n \in Note \ Written : panel[n] = 0
    BY <2>3, OnceFacts
  <2>5. shown' = [shown EXCEPT ![u] = panel]
    BY <1>4 DEF ReturnNotes
  <2> HIDE DEF panel
  <2>6. Views'
    BY <1>1, <1>4, <2>4, <2>5 DEF ReturnNotes, RoomInv, Views
  <2> QED
    BY <1>4, <2>2, <2>6, ClientSteps DEF ReturnNotes
<1> QED
  BY <1>2, <1>3, <1>4

LEMMA FailStep ==
  ASSUME RoomInv, NEW u \in User, Fail(u)
  PROVE  RoomInv'
<1>1. Written' = Written
  BY DEF Fail, Written
<1>2. Front(calls[u]) \in Seq(CallsOf(Written))
  BY StackFacts DEF RoomInv, Queues, Fail
<1>3. Queues'
  BY <1>1, <1>2 DEF Fail, Finish, RoomInv, Queues
<1>4. Once({}) \in Panels /\ \A n \in Note : Once({})[n] = 0
  BY OnceFacts
<1>5. Views'
  BY <1>1, <1>4 DEF Fail, RoomInv, Views
<1> QED
  BY <1>3, <1>5, ClientSteps DEF Fail

-----------------------------------------------------------------------------
(* The server.                                                             *)

LEMMA AnswerFacts ==
  ASSUME NEW W, NEW m \in RequestsOf(W), NEW ok \in BOOLEAN, NEW r \in Room
  PROVE  /\ Answer(m, ok, r) \in RepliesOf(W)
         /\ \A P \in SUBSET User : [Answer(m, ok, r) EXCEPT !.people = P] \in RepliesOf(W)
         /\ \A N \in SUBSET W : [Answer(m, ok, r) EXCEPT !.notes = N] \in RepliesOf(W)
<1>1. m.id \in Nat
  BY DEF RequestsOf
<1>2. Answer(m, ok, r) \in RepliesOf(W)
  BY <1>1 DEF Answer, RepliesOf
<1>3. ASSUME NEW P \in SUBSET User
      PROVE  [Answer(m, ok, r) EXCEPT !.people = P] \in RepliesOf(W)
  BY <1>2 DEF RepliesOf
<1>4. ASSUME NEW N \in SUBSET W
      PROVE  [Answer(m, ok, r) EXCEPT !.notes = N] \in RepliesOf(W)
  BY <1>2 DEF RepliesOf
<1> QED
  BY <1>2, <1>3, <1>4

\* What a handler of the server does to the tables and what it sends.
Served ==
  /\ Sessions' /\ ClosedWhenEmpty'
  /\ down' \in [User -> Seq(RepliesOf(Written) \cup EventsOf(Written))]

LEMMA OneElement ==
  ASSUME NEW S, NEW e \in S
  PROVE  <<e>> \in Seq(S)
  OBVIOUS

LEMMA CreateStep ==
  ASSUME RoomInv, Written' = Written, NEW u \in User, NEW m \in RequestsOf(Written),
         CreateSession(u, m)
  PROVE  Served
<1>1. PICK r \in Room :
        /\ state[r] = "None"
        /\ state' = [state EXCEPT ![r] = "Created"]
        /\ members' = [members EXCEPT ![r] = {u}]
        /\ Send(u, {}, <<>>, <<Answer(m, TRUE, r)>>)
        /\ notes' = notes
  BY DEF CreateSession
<1>2. Answer(m, TRUE, r) \in RepliesOf(Written)
  BY AnswerFacts
<1>3. <<>> \in Seq(EventsOf(Written)) /\ <<Answer(m, TRUE, r)>> \in Seq(RepliesOf(Written))
  BY <1>2, EmptySeq, OneElement
<1>4. down' \in [User -> Seq(RepliesOf(Written) \cup EventsOf(Written))]
  BY <1>1, <1>3, SendFacts
<1>5. Sessions'
  BY <1>1 DEF RoomInv, Sessions
<1>6. ClosedWhenEmpty'
  BY <1>1 DEF RoomInv, Sessions, ClosedWhenEmpty, Open
<1> QED
  BY <1>4, <1>5, <1>6 DEF Served

LEMMA JoinStep ==
  ASSUME RoomInv, Written' = Written, NEW u \in User, NEW m \in RequestsOf(Written),
         m.room \in Room, JoinSession(u, m)
  PROVE  Served
<1> DEFINE r == m.room
           P == members[r] \cup {u}
           told == [Answer(m, TRUE, r) EXCEPT !.people = P]
<1>0. P \in SUBSET User /\ <<>> \in Seq(EventsOf(Written))
  BY EmptySeq DEF RoomInv, Sessions
<1>1. CASE r \in Open
  <2>1. /\ members' = [members EXCEPT ![r] = P]
        /\ state' = IF u \in members[r] THEN state ELSE [state EXCEPT ![r] = "Active"]
        /\ Send(u, P, <<PeopleChanged(r, P)>>, <<told>>)
        /\ notes' = notes
    BY <1>1 DEF JoinSession
  <2>2. PeopleChanged(r, P) \in EventsOf(Written)
    BY <1>0 DEF PeopleChanged, EventsOf
  <2>3. told \in RepliesOf(Written)
    BY <1>0, AnswerFacts
  <2> HIDE DEF told, P
  <2>4. down' \in [User -> Seq(RepliesOf(Written) \cup EventsOf(Written))]
    BY <2>1, <2>2, <2>3, OneElement, SendFacts
  <2>5. Sessions'
    BY <1>0, <2>1 DEF RoomInv, Sessions
  <2>6. ClosedWhenEmpty'
    BY <1>1, <2>1 DEF RoomInv, Sessions, ClosedWhenEmpty, Open, P
  <2> QED
    BY <2>4, <2>5, <2>6 DEF Served
<1>2. CASE r \notin Open
  <2>1. Send(u, {}, <<>>, <<Answer(m, FALSE, r)>>) /\ UNCHANGED serverVars
    BY <1>2 DEF JoinSession
  <2>2. Answer(m, FALSE, r) \in RepliesOf(Written)
    BY AnswerFacts
  <2>3. down' \in [User -> Seq(RepliesOf(Written) \cup EventsOf(Written))]
    BY <1>0, <2>1, <2>2, OneElement, SendFacts
  <2> QED
    BY <2>1, <2>3 DEF Served, RoomInv, Sessions, ClosedWhenEmpty, Open, serverVars
<1> QED
  BY <1>1, <1>2

LEMMA LeaveSessionStep ==
  ASSUME RoomInv, Written' = Written, NEW u \in User, NEW m \in RequestsOf(Written),
         m.room \in Room, LeaveSession(u, m)
  PROVE  Served
<1> DEFINE r == m.room
           P == members[r] \ {u}
<1>1. /\ members' = [members EXCEPT ![r] = P]
      /\ state' = IF P = {} THEN [state EXCEPT ![r] = "Closed"] ELSE state
      /\ Send(u, P, <<PeopleChanged(r, P)>>, <<>>)
      /\ notes' = notes
  BY DEF LeaveSession
<1>2. P \in SUBSET User /\ P \subseteq members[r]
  BY DEF RoomInv, Sessions
<1>3. PeopleChanged(r, P) \in EventsOf(Written)
  BY <1>2 DEF PeopleChanged, EventsOf
<1> HIDE DEF P
<1>4. down' \in [User -> Seq(RepliesOf(Written) \cup EventsOf(Written))]
  BY <1>1, <1>3, EmptySeq, OneElement, SendFacts
<1>5. Sessions'
  BY <1>1, <1>2 DEF RoomInv, Sessions
<1>6. ClosedWhenEmpty'
  BY <1>1, <1>2 DEF RoomInv, Sessions, ClosedWhenEmpty, Open
<1> QED
  BY <1>4, <1>5, <1>6 DEF Served

LEMMA NoteSteps ==
  ASSUME RoomInv, Written' = Written, NEW u \in User, NEW m \in RequestsOf(Written),
         m.room \in Room,
         \/ m.op = "add" /\ AddNoteToSession(u, m)
         \/ m.op = "notes" /\ NotesForSession(u, m)
  PROVE  Served
<1> DEFINE r == m.room
<1>0. <<>> \in Seq(EventsOf(Written)) /\ <<>> \in Seq(RepliesOf(Written))
  BY EmptySeq
<1>1. CASE m.op = "add" /\ AddNoteToSession(u, m)
  <2> DEFINE n == CHOOSE n \in m.note : TRUE
             push == [kind |-> "note", room |-> r, note |-> n]
  <2>1. m.note \subseteq Written /\ m.note # {}
    BY <1>1 DEF RequestsOf
  <2>2. n \in Written
    BY <2>1
  <2> HIDE DEF n
  <2>3. push \in EventsOf(Written)
    BY <2>2 DEF EventsOf
  <2>4. /\ notes' = [notes EXCEPT ![r] = @ \cup m.note]
        /\ Send(u, members[r], <<push>>, <<>>)
        /\ state' = state /\ members' = members
    BY <1>1 DEF AddNoteToSession, n
  <2> HIDE DEF push
  <2>5. down' \in [User -> Seq(RepliesOf(Written) \cup EventsOf(Written))]
    BY <1>0, <2>3, <2>4, OneElement, SendFacts
  <2>6. Sessions' /\ ClosedWhenEmpty'
    BY <2>1, <2>4 DEF RoomInv, Sessions, ClosedWhenEmpty, Open
  <2> QED
    BY <2>5, <2>6 DEF Served
<1>2. CASE m.op = "notes" /\ NotesForSession(u, m)
  <2> DEFINE told == [Answer(m, TRUE, r) EXCEPT !.notes = notes[r]]
  <2>1. Send(u, {}, <<>>, <<told>>) /\ UNCHANGED serverVars
    BY <1>2 DEF NotesForSession
  <2>2. told \in RepliesOf(Written)
    BY AnswerFacts DEF RoomInv, Sessions
  <2> HIDE DEF told
  <2>3. down' \in [User -> Seq(RepliesOf(Written) \cup EventsOf(Written))]
    BY <1>0, <2>1, <2>2, OneElement, SendFacts
  <2> QED
    BY <2>1, <2>3 DEF Served, RoomInv, Sessions, ClosedWhenEmpty, Open, serverVars
<1> QED
  BY <1>1, <1>2

LEMMA ServeStep ==
  ASSUME RoomInv, NEW u \in User, Serve(u)
  PROVE  RoomInv'
<1> DEFINE m == Head(up[u])
<1>1. Written' = Written
  BY DEF Serve, Written
<1>2. m \in RequestsOf(Written) /\ Tail(up[u]) \in Seq(RequestsOf(Written))
  BY HeadTailProperties DEF RoomInv, Queues, Serve
<1>3. \/ CreateSession(u, m)
      \/ m.op = "join" /\ JoinSession(u, m)
      \/ m.op = "leave" /\ LeaveSession(u, m)
      \/ m.op = "add" /\ AddNoteToSession(u, m)
      \/ m.op = "notes" /\ NotesForSession(u, m)
  BY DEF Serve
<1>4. /\ up' = [up EXCEPT ![u] = Tail(@)]
      /\ UNCHANGED <<posted, calls, made, viewVars, author>>
  BY DEF Serve
<1>5. m.op # "create" => m.room \in Room
  BY <1>2 DEF RequestsOf
<1> HIDE DEF m
<1>6. Served
  <2>1. CASE CreateSession(u, m)
    BY <1>1, <1>2, <2>1, CreateStep
  <2>2. CASE m.op = "join" /\ JoinSession(u, m)
    BY <1>1, <1>2, <1>5, <2>2, JoinStep
  <2>3. CASE m.op = "leave" /\ LeaveSession(u, m)
    BY <1>1, <1>2, <1>5, <2>3, LeaveSessionStep
  <2>4. CASE m.op = "add" /\ AddNoteToSession(u, m)
    BY <1>1, <1>2, <1>5, <2>4, NoteSteps
  <2>5. CASE m.op = "notes" /\ NotesForSession(u, m)
    BY <1>1, <1>2, <1>5, <2>5, NoteSteps
  <2> QED
    BY <1>3, <2>1, <2>2, <2>3, <2>4, <2>5
<1>7. Queues'
  BY <1>1, <1>2, <1>4, <1>6 DEF Served, RoomInv, Queues
<1>8. Views'
  BY <1>1, <1>4 DEF RoomInv, Views, viewVars
<1> QED
  BY <1>6, <1>7, <1>8 DEF RoomInv, Served

LEMMA RoomStep == RoomInv /\ [Next]_vars => RoomInv'
<1> SUFFICES ASSUME RoomInv, [Next]_vars PROVE RoomInv'
  OBVIOUS
<1>1. ASSUME NEW u \in User, CreateRoom(u) PROVE RoomInv'
  <2>1. Begin(u, "create", NoRoom)
    BY <1>1 DEF CreateRoom
  <2> QED
    BY <2>1, BeginStep
<1>2. ASSUME NEW u \in User, NEW r \in Room, JoinRoom(u, r) PROVE RoomInv'
  BY <1>2, BeginStep DEF JoinRoom
<1>3. ASSUME NEW u \in User, LeaveRoom(u) PROVE RoomInv'
  BY <1>3, LeaveStep
<1>4. ASSUME NEW u \in User, NEW n \in Note, AddNote(u, n) PROVE RoomInv'
  BY <1>4, AddStep
<1>5. ASSUME NEW u \in User, EventLoop(u) PROVE RoomInv'
  BY <1>5, ReceiveStep, HandleStep, ReturnSteps, FailStep DEF EventLoop
<1>6. ASSUME NEW u \in User, Serve(u) PROVE RoomInv'
  BY <1>6, ServeStep
<1>7. CASE UNCHANGED vars
  BY <1>7 DEF vars, serverVars, viewVars, RoomInv, Sessions, Queues, Views, Written,
              ClosedWhenEmpty, Open
<1> QED
  BY <1>1, <1>2, <1>3, <1>4, <1>5, <1>6, <1>7 DEF Next

LEMMA RoomAlways == Spec => []RoomInv
<1> QED
  BY InitRoomInv, RoomStep, PTL DEF Spec

-----------------------------------------------------------------------------
LEMMA RoomTypes == RoomInv => TypeOK
<1> SUFFICES ASSUME RoomInv PROVE TypeOK
  OBVIOUS
<1>1. Written \subseteq Note
  BY DEF Written
<1>2. /\ RequestsOf(Written) \subseteq Request
      /\ EventsOf(Written) \subseteq Event
      /\ RepliesOf(Written) \subseteq Reply
  BY <1>1 DEF RequestsOf, EventsOf, RepliesOf, Request, Event, Reply
<1>3. CallsOf(Written) \subseteq Call
  BY <1>2 DEF CallsOf, Call
<1>4. ASSUME NEW u \in User
      PROVE  /\ \A i \in DOMAIN up[u] : up[u][i] \in Request
             /\ \A i \in DOMAIN down[u] : down[u][i] \in Reply \cup Event
             /\ \A i \in DOMAIN posted[u] : posted[u][i] \in Event
             /\ \A i \in DOMAIN calls[u] : calls[u][i] \in Call
  <2>1. /\ up[u] \in Seq(RequestsOf(Written)) /\ posted[u] \in Seq(EventsOf(Written))
        /\ down[u] \in Seq(RepliesOf(Written) \cup EventsOf(Written))
        /\ calls[u] \in Seq(CallsOf(Written))
    BY DEF RoomInv, Queues
  <2>2. \A i \in DOMAIN up[u] : up[u][i] \in RequestsOf(Written)
    BY <2>1
  <2>3. \A i \in DOMAIN down[u] : down[u][i] \in RepliesOf(Written) \cup EventsOf(Written)
    BY <2>1
  <2>4. \A i \in DOMAIN posted[u] : posted[u][i] \in EventsOf(Written)
    BY <2>1
  <2>5. \A i \in DOMAIN calls[u] : calls[u][i] \in CallsOf(Written)
    BY <2>1
  <2> QED
    BY <1>2, <1>3, <2>2, <2>3, <2>4, <2>5
<1>5. shown \in [User -> [Note -> Nat]]
  BY DEF RoomInv, Views, Panels
<1>6. notes \in [Room -> SUBSET Note]
  BY <1>1 DEF RoomInv, Sessions
<1> QED
  BY <1>4, <1>5, <1>6 DEF RoomInv, Sessions, Views, TypeOK

\* For any number of readers, rooms and notes, with calls nested to any depth,
\* timeouts and late replies, what is on its way is well formed and no panel
\* shows a note twice: not by its author's hand and the event that tells of it,
\* nor by an event and the history fetched after it.
THEOREM PanelsAreSound == Spec => []PanelSound
<1>1. RoomInv => NoDuplicateNotes
  <2> SUFFICES ASSUME RoomInv, NEW u \in User, NEW n \in Note PROVE shown[u][n] <= 1
    BY DEF NoDuplicateNotes
  <2>1. shown[u][n] \in {0, 1}
    BY DEF RoomInv, Views, Panels
  <2> QED
    BY <2>1
<1>2. RoomInv => PanelSound
  BY <1>1, RoomTypes DEF PanelSound
<1> QED
  BY <1>2, RoomAlways, PTL

\* Whatever joins, leaves and timed-out requests cross on their way, a session
\* is open exactly while it has participants.
THEOREM SessionsCloseWhenEmpty == Spec => []ClosedWhenEmpty
<1>1. RoomInv => ClosedWhenEmpty
  BY DEF RoomInv
<1> QED
  BY <1>1, RoomAlways, PTL

-----------------------------------------------------------------------------
(* What a reader sees of a room, while nobody acts before his call has      *)
(* returned and no request times out.                                       *)

(* What a queue still has to tell of a room, from some place on.           *)

Tells(m, r) == m.kind = "people" /\ m.room = r
Brings(m, r) == m.kind = "note" /\ m.room = r

SilentAfter(s, i, r) == \A j \in DOMAIN s : j > i => ~ Tells(s[j], r)
BroughtAfter(s, i, r) == {s[j].note : j \in {k \in DOMAIN s : k > i /\ Brings(s[k], r)}}
Silent(s, r) == SilentAfter(s, 0, r)
Brought(s, r) == BroughtAfter(s, 0, r)

\* The last news of the participants, if there is any.
LastTells(s, r, P) ==
  \A i \in DOMAIN s : Tells(s[i], r) /\ SilentAfter(s, i, r) => s[i].people = P

Quiet(s) == \A i \in DOMAIN s : s[i].kind # "reply"

\* The notes that requests under way will add.
Adding(s, r) == UNION {s[i].note : i \in {k \in DOMAIN s : s[k].op = "add" /\ s[k].room = r}}

LEMMA NothingTold ==
  ASSUME NEW r
  PROVE  /\ Silent(<<>>, r) /\ Brought(<<>>, r) = {} /\ Adding(<<>>, r) = {}
         /\ Quiet(<<>>) /\ \A P : LastTells(<<>>, r, P)
  BY DEF Silent, SilentAfter, Brought, BroughtAfter, Adding, Quiet, LastTells

LEMMA ToldAtEnd ==
  ASSUME NEW S, NEW s \in Seq(S), NEW e \in S, NEW r
  PROVE  LET t == Append(s, e) IN
         /\ t \in Seq(S) /\ t # <<>> /\ DOMAIN t = DOMAIN s \cup {Len(s) + 1}
         /\ Len(t) = Len(s) + 1 /\ Len(s) + 1 \notin DOMAIN s /\ t[Len(s) + 1] = e
         /\ \A i \in DOMAIN s : t[i] = s[i]
         /\ \A i \in DOMAIN s \cup {0} :
              /\ SilentAfter(t, i, r) <=> SilentAfter(s, i, r) /\ ~ Tells(e, r)
              /\ BroughtAfter(t, i, r) =
                   BroughtAfter(s, i, r) \cup IF Brings(e, r) THEN {e.note} ELSE {}
         /\ SilentAfter(t, Len(s) + 1, r) /\ BroughtAfter(t, Len(s) + 1, r) = {}
<1> DEFINE t == Append(s, e)
<1>1. /\ t \in Seq(S) /\ Len(s) \in Nat /\ Len(t) = Len(s) + 1
      /\ DOMAIN s = 1 .. Len(s) /\ DOMAIN t = 1 .. Len(s) + 1 /\ t[Len(s) + 1] = e
      /\ \A i \in 1 .. Len(s) : t[i] = s[i]
  BY AppendProperties, LenProperties
<1> HIDE DEF t
<1>2. DOMAIN t = DOMAIN s \cup {Len(s) + 1} /\ Len(s) + 1 \notin DOMAIN s
  BY <1>1
<1>3. t # <<>>
  BY <1>2
<1>4. ASSUME NEW i \in DOMAIN s \cup {0}
      PROVE  SilentAfter(t, i, r) <=> SilentAfter(s, i, r) /\ ~ Tells(e, r)
  BY <1>1, <1>4 DEF SilentAfter
<1>5. ASSUME NEW i \in DOMAIN s \cup {0}
      PROVE  BroughtAfter(t, i, r) =
               BroughtAfter(s, i, r) \cup IF Brings(e, r) THEN {e.note} ELSE {}
  <2>1. i \in Nat /\ Len(s) + 1 > i
    BY <1>1, <1>5
  <2>2. {k \in DOMAIN t : k > i /\ Brings(t[k], r)} =
          {k \in DOMAIN s : k > i /\ Brings(s[k], r)}
            \cup IF Brings(e, r) THEN {Len(s) + 1} ELSE {}
    BY <1>1, <1>2, <2>1
  <2> QED
    BY <1>1, <1>2, <2>2 DEF BroughtAfter
<1>6. SilentAfter(t, Len(s) + 1, r) /\ BroughtAfter(t, Len(s) + 1, r) = {}
  BY <1>1 DEF SilentAfter, BroughtAfter
<1> QED
  BY <1>1, <1>2, <1>3, <1>4, <1>5, <1>6 DEF t

LEMMA PushTold ==
  ASSUME NEW S, NEW s \in Seq(S), NEW e \in S, NEW r
  PROVE  LET t == Append(s, e) IN
         /\ Silent(t, r) <=> Silent(s, r) /\ ~ Tells(e, r)
         /\ Brought(t, r) = Brought(s, r) \cup IF Brings(e, r) THEN {e.note} ELSE {}
         /\ Quiet(t) <=> Quiet(s) /\ e.kind # "reply"
         /\ Tells(e, r) => LastTells(t, r, e.people)
         /\ ~ Tells(e, r) => \A P : LastTells(t, r, P) <=> LastTells(s, r, P)
<1> DEFINE t == Append(s, e)
<1>1. /\ DOMAIN t = DOMAIN s \cup {Len(s) + 1}
      /\ Len(s) + 1 \notin DOMAIN s /\ t[Len(s) + 1] = e
      /\ \A i \in DOMAIN s : t[i] = s[i]
  BY ToldAtEnd
<1>0. /\ \A i \in DOMAIN s \cup {0} :
           SilentAfter(t, i, r) <=> SilentAfter(s, i, r) /\ ~ Tells(e, r)
      /\ SilentAfter(t, Len(s) + 1, r)
  BY ToldAtEnd
<1>2. /\ Silent(t, r) <=> Silent(s, r) /\ ~ Tells(e, r)
      /\ Brought(t, r) = Brought(s, r) \cup IF Brings(e, r) THEN {e.note} ELSE {}
  BY ToldAtEnd DEF Silent, Brought
<1> HIDE DEF t
<1>3. Quiet(t) <=> Quiet(s) /\ e.kind # "reply"
  BY <1>1 DEF Quiet
<1>4. Tells(e, r) => LastTells(t, r, e.people)
  BY <1>0, <1>1 DEF LastTells
<1>5. ~ Tells(e, r) => \A P : LastTells(t, r, P) <=> LastTells(s, r, P)
  BY <1>0, <1>1 DEF LastTells
<1> QED
  BY <1>2, <1>3, <1>4, <1>5 DEF t

\* A reply tells nothing of participants and notes.
LEMMA PushReply ==
  ASSUME NEW S, NEW s \in Seq(S), NEW e \in S, e.kind = "reply", NEW r
  PROVE  /\ Silent(Append(s, e), r) <=> Silent(s, r)
         /\ Brought(Append(s, e), r) = Brought(s, r)
         /\ \A P : LastTells(Append(s, e), r, P) <=> LastTells(s, r, P)
<1>1. ~ Tells(e, r) /\ ~ Brings(e, r)
  BY DEF Tells, Brings
<1>2. Silent(Append(s, e), r) <=> Silent(s, r)
  BY <1>1, PushTold
<1>3. Brought(Append(s, e), r) = Brought(s, r)
  <2>1. Brought(Append(s, e), r) =
          Brought(s, r) \cup IF Brings(e, r) THEN {e.note} ELSE {}
    BY PushTold
  <2> QED
    BY <1>1, <2>1
<1>4. \A P : LastTells(Append(s, e), r, P) <=> LastTells(s, r, P)
  BY <1>1, PushTold
<1> QED
  BY <1>2, <1>3, <1>4

LEMMA OnlyReply ==
  ASSUME NEW S, NEW s \in Seq(S), NEW e \in S, Quiet(s)
  PROVE  \A i \in DOMAIN Append(s, e) : Append(s, e)[i].kind = "reply" => Append(s, e)[i] = e
<1> DEFINE t == Append(s, e)
<1>1. /\ DOMAIN t = DOMAIN s \cup {Len(s) + 1} /\ t[Len(s) + 1] = e
      /\ \A i \in DOMAIN s : t[i] = s[i]
  BY ToldAtEnd
<1> HIDE DEF t
<1>2. \A i \in DOMAIN t : t[i].kind = "reply" => t[i] = e
  BY <1>1 DEF Quiet
<1> QED
  BY <1>2 DEF t

LEMMA PopBrought ==
  ASSUME NEW S, NEW s \in Seq(S), s # <<>>, NEW r, NEW i \in Nat
  PROVE  BroughtAfter(Tail(s), i, r) = BroughtAfter(s, i + 1, r)
<1> DEFINE t == Tail(s)
<1>1. /\ t \in Seq(S) /\ Len(t) = Len(s) - 1
      /\ \A k \in 1 .. Len(t) : t[k] = s[k + 1]
  BY HeadTailProperties
<1>2. Len(s) \in Nat /\ Len(s) >= 1 /\ DOMAIN s = 1 .. Len(s)
  BY EmptySeq, LenProperties
<1>3. DOMAIN t = 1 .. Len(s) - 1
  BY <1>1, LenProperties
<1> HIDE DEF t
<1>4. \A k \in DOMAIN t : t[k] = s[k + 1] /\ k + 1 \in DOMAIN s /\ (k > i <=> k + 1 > i + 1)
  BY <1>1, <1>2, <1>3
<1>5. \A k \in DOMAIN s : k > i + 1 => k - 1 \in DOMAIN t /\ t[k - 1] = s[k] /\ k - 1 > i
  BY <1>1, <1>2, <1>3
<1>6. BroughtAfter(t, i, r) \subseteq BroughtAfter(s, i + 1, r)
  BY <1>4 DEF BroughtAfter
<1>7. BroughtAfter(s, i + 1, r) \subseteq BroughtAfter(t, i, r)
  BY <1>5 DEF BroughtAfter
<1> QED
  BY <1>6, <1>7 DEF t

LEMMA PopTold ==
  ASSUME NEW S, NEW s \in Seq(S), s # <<>>, NEW r
  PROVE  /\ Head(s) \in S /\ Head(s) = s[1] /\ 1 \in DOMAIN s /\ Tail(s) \in Seq(S)
         /\ \A i \in DOMAIN Tail(s) :
              /\ i + 1 \in DOMAIN s /\ i + 1 # 1 /\ Tail(s)[i] = s[i + 1]
              /\ SilentAfter(Tail(s), i, r) <=> SilentAfter(s, i + 1, r)
         /\ Silent(Tail(s), r) <=> SilentAfter(s, 1, r)
         /\ Brought(Tail(s), r) = BroughtAfter(s, 1, r)
         /\ Silent(s, r) <=> Silent(Tail(s), r) /\ ~ Tells(Head(s), r)
         /\ Brought(s, r) =
              Brought(Tail(s), r) \cup IF Brings(Head(s), r) THEN {Head(s).note} ELSE {}
         /\ Quiet(s) <=> Quiet(Tail(s)) /\ Head(s).kind # "reply"
         /\ \A P : LastTells(s, r, P) =>
              /\ LastTells(Tail(s), r, P)
              /\ Silent(Tail(s), r) /\ Tells(Head(s), r) => Head(s).people = P
<1> DEFINE t == Tail(s)
<1>1. /\ Head(s) \in S /\ t \in Seq(S) /\ Len(t) = Len(s) - 1
      /\ \A i \in 1 .. Len(t) : t[i] = s[i + 1]
  BY HeadTailProperties
<1>2. Len(s) \in Nat /\ Len(s) >= 1 /\ DOMAIN s = 1 .. Len(s)
  BY EmptySeq, LenProperties
<1>3. DOMAIN t = 1 .. Len(s) - 1
  BY <1>1, LenProperties
<1>4. Head(s) = s[1]
  BY <1>2
<1> HIDE DEF t
<1>5. /\ 1 \in DOMAIN s
      /\ \A i \in DOMAIN t : i + 1 \in DOMAIN s /\ i + 1 # 1 /\ t[i] = s[i + 1]
      /\ \A j \in DOMAIN s : j # 1 => /\ j - 1 \in DOMAIN t /\ t[j - 1] = s[j]
                                      /\ (j - 1) + 1 = j
  BY <1>1, <1>2, <1>3
<1>6. ASSUME NEW i \in Nat
      PROVE  SilentAfter(t, i, r) <=> SilentAfter(s, i + 1, r)
  <2>1. \A j \in DOMAIN t : j > i <=> j + 1 > i + 1
    BY <1>3, <1>2
  <2>2. \A j \in DOMAIN s : j > i + 1 => j # 1 /\ j - 1 > i
    BY <1>2
  <2>3. SilentAfter(t, i, r) => SilentAfter(s, i + 1, r)
    BY <1>5, <2>2 DEF SilentAfter
  <2>4. SilentAfter(s, i + 1, r) => SilentAfter(t, i, r)
    BY <1>5, <2>1 DEF SilentAfter
  <2> QED
    BY <2>3, <2>4
<1>7. DOMAIN t \subseteq Nat
  BY <1>2, <1>3
<1>8. Silent(t, r) <=> SilentAfter(s, 1, r)
  BY <1>6 DEF Silent
<1>9. Brought(t, r) = BroughtAfter(s, 1, r)
  BY PopBrought DEF Brought, t
<1>10. \A j \in DOMAIN s : j > 0 /\ (j # 1 <=> j > 1)
  BY <1>2
<1>11. Silent(s, r) <=> Silent(t, r) /\ ~ Tells(Head(s), r)
  <2>1. Silent(s, r) <=> SilentAfter(s, 1, r) /\ ~ Tells(s[1], r)
    BY <1>5, <1>10 DEF Silent, SilentAfter
  <2> QED
    BY <1>4, <1>8, <2>1
<1>12. Brought(s, r) = Brought(t, r) \cup IF Brings(Head(s), r) THEN {Head(s).note} ELSE {}
  <2>1. Brought(s, r) =
          BroughtAfter(s, 1, r) \cup IF Brings(s[1], r) THEN {s[1].note} ELSE {}
    BY <1>5, <1>10 DEF Brought, BroughtAfter
  <2> QED
    BY <1>4, <1>9, <2>1
<1>13. Quiet(s) <=> Quiet(t) /\ Head(s).kind # "reply"
  BY <1>4, <1>5 DEF Quiet
<1>14. ASSUME NEW P, LastTells(s, r, P)
       PROVE  /\ LastTells(t, r, P)
              /\ Silent(t, r) /\ Tells(Head(s), r) => Head(s).people = P
  <2>1. ASSUME NEW i \in DOMAIN t, Tells(t[i], r), SilentAfter(t, i, r)
        PROVE  t[i].people = P
    <3>1. i + 1 \in DOMAIN s /\ t[i] = s[i + 1]
      BY <1>5
    <3>2. SilentAfter(s, i + 1, r)
      BY <1>6, <1>7, <2>1
    <3> QED
      BY <1>14, <2>1, <3>1, <3>2 DEF LastTells
  <2>2. LastTells(t, r, P)
    BY <2>1 DEF LastTells
  <2>3. Silent(t, r) /\ Tells(Head(s), r) => Head(s).people = P
    BY <1>4, <1>5, <1>8, <1>14 DEF LastTells
  <2> QED
    BY <2>2, <2>3
<1> QED
  BY <1>1, <1>4, <1>5, <1>6, <1>7, <1>8, <1>9, <1>11, <1>12, <1>13, <1>14 DEF t

LEMMA PushAdding ==
  ASSUME NEW S, NEW s \in Seq(S), NEW e \in S, NEW r
  PROVE  Adding(Append(s, e), r) =
           Adding(s, r) \cup IF e.op = "add" /\ e.room = r THEN e.note ELSE {}
<1> DEFINE t == Append(s, e)
<1>1. /\ DOMAIN t = DOMAIN s \cup {Len(s) + 1} /\ t[Len(s) + 1] = e
      /\ \A i \in DOMAIN s : t[i] = s[i]
  BY ToldAtEnd
<1> HIDE DEF t
<1> QED
  BY <1>1 DEF Adding, t

LEMMA PopAdding ==
  ASSUME NEW S, NEW s \in Seq(S), s # <<>>, NEW r
  PROVE  Adding(s, r) =
           Adding(Tail(s), r)
             \cup IF Head(s).op = "add" /\ Head(s).room = r THEN Head(s).note ELSE {}
<1>1. /\ Head(s) = s[1] /\ 1 \in DOMAIN s
      /\ \A i \in DOMAIN Tail(s) : i + 1 \in DOMAIN s /\ Tail(s)[i] = s[i + 1]
  BY PopTold
<1>2. \A j \in DOMAIN s : j = 1 \/ \E i \in DOMAIN Tail(s) : Tail(s)[i] = s[j]
  <2>1. /\ Len(s) \in Nat /\ Len(s) >= 1 /\ DOMAIN s = 1 .. Len(s)
        /\ DOMAIN Tail(s) = 1 .. Len(s) - 1
        /\ \A i \in 1 .. Len(s) - 1 : Tail(s)[i] = s[i + 1]
    BY EmptySeq, LenProperties, HeadTailProperties
  <2>2. \A j \in 1 .. Len(s) : j = 1 \/ (j - 1 \in 1 .. Len(s) - 1 /\ (j - 1) + 1 = j)
    BY <2>1
  <2> QED
    BY <2>1, <2>2
<1> DEFINE t == Tail(s)
<1> HIDE DEF t
<1>3. Adding(s, r) \subseteq
        Adding(t, r) \cup IF Head(s).op = "add" /\ Head(s).room = r THEN Head(s).note ELSE {}
  BY <1>1, <1>2 DEF Adding, t
<1>4. Adding(t, r) \subseteq Adding(s, r)
  BY <1>1 DEF Adding, t
<1>5. Head(s).op = "add" /\ Head(s).room = r => Head(s).note \subseteq Adding(s, r)
  BY <1>1 DEF Adding
<1> QED
  BY <1>3, <1>4, <1>5 DEF t

-----------------------------------------------------------------------------
(* The invariant, for one reader.                                          *)

Casual == {"leave", "add"}
First(u) == calls[u][1]
Waiting(u) == calls[u] # <<>> /\ First(u).reply = NoReply
Told(u) == calls[u] # <<>> /\ First(u).reply # NoReply
Fetching(u) == calls[u] # <<>> /\ First(u).step = "notes"

\* At most one call waits; its request is the last under way, or its reply is the
\* only one, or has come: then nothing of the reader's is at the server.
InStep(u) ==
  /\ Len(calls[u]) <= 1
  /\ \A i \in DOMAIN up[u] :
       up[u][i].op \notin Casual =>
         i = Len(up[u]) /\ Waiting(u) /\ up[u][i] = RequestOf(First(u)) /\ Quiet(down[u])
  /\ \A i \in DOMAIN down[u] :
       down[u][i].kind = "reply" =>
         /\ up[u] = <<>> /\ Waiting(u) /\ down[u][i].id = RequestId(First(u))
         /\ \A j \in DOMAIN down[u] : down[u][j].kind = "reply" => j = i
  /\ Told(u) => up[u] = <<>> /\ Quiet(down[u])

\* Whoever shows a room belongs to it, and has not asked to leave it.
Belongs(u) ==
  /\ current[u] # NoRoom =>
       u \in members[current[u]] /\ \A i \in DOMAIN up[u] : up[u][i].op # "leave"
  /\ Fetching(u) => current[u] = First(u).room

\* News are of rooms that exist and of notes that have been stored.
Heard(u) ==
  /\ \A r \in Room : ~ Silent(down[u], r) \/ ~ Silent(posted[u], r) => state[r] # "None"
  /\ \A r \in Room : Brought(down[u], r) \cup Brought(posted[u], r) \subseteq notes[r]
  /\ \A i \in DOMAIN up[u] :
       up[u][i].op = "add" => \E n \in Note : up[u][i].note = {n} /\ author[n] = u

\* The last news of the participants are true, and the list is if none is due.
PeopleTold(u) ==
  /\ \A r \in Room : u \in members[r] =>
       /\ LastTells(down[u], r, members[r])
       /\ Silent(down[u], r) => LastTells(posted[u], r, members[r])
  /\ current[u] # NoRoom /\ Silent(down[u], current[u]) /\ Silent(posted[u], current[u]) =>
       people[u] = members[current[u]]

\* What the reply m says is true, but for what follows it in the queue from i on.
ReplyTrue(u, m, i) ==
  LET r == First(u).room IN
  /\ First(u).step = "join" /\ m.ok = TRUE =>
       u \in members[r] /\ (m.people = members[r] \/ ~ SilentAfter(down[u], i, r))
  /\ First(u).step = "notes" =>
       /\ m.ok = TRUE /\ m.notes \subseteq notes[r]
       /\ notes[r] \subseteq m.notes \cup BroughtAfter(down[u], i, r)
       /\ \A n \in notes[r] \ m.notes : author[n] # u
RepliesTrue(u) ==
  /\ Told(u) => ReplyTrue(u, First(u).reply, 0)
  /\ \A i \in DOMAIN down[u] :
       down[u][i].kind = "reply" => ReplyTrue(u, down[u][i], i)

\* What the panel shows and the news that are due are the room's notes and those
\* that the reader's requests will add; his own notes he shows.
Has(u) == {n \in Note : shown[u][n] # 0}
NotesShown(u) ==
  current[u] # NoRoom /\ ~ Fetching(u) =>
    LET r == current[u] IN
    /\ Has(u) \cup Brought(posted[u], r) \cup Brought(down[u], r) =
         notes[r] \cup Adding(up[u], r)
    /\ Adding(up[u], r) \subseteq Has(u)
    /\ \A n \in notes[r] : author[n] = u => n \in Has(u)

ViewInv(u) ==
  /\ InStep(u) /\ Belongs(u) /\ Heard(u)
  /\ PeopleTold(u) /\ RepliesTrue(u) /\ NotesShown(u)

LEMMA ViewTypes ==
  ASSUME RoomInv, NEW u \in User
  PROVE  /\ up[u] \in Seq(RequestsOf(Written))
         /\ down[u] \in Seq(RepliesOf(Written) \cup EventsOf(Written))
         /\ posted[u] \in Seq(EventsOf(Written)) /\ calls[u] \in Seq(CallsOf(Written))
         /\ DOMAIN up[u] = 1 .. Len(up[u]) /\ Len(up[u]) \in Nat
         /\ \A i \in DOMAIN up[u] : up[u][i] \in RequestsOf(Written)
         /\ \A i \in DOMAIN down[u] :
              i # 0 /\ down[u][i] \in RepliesOf(Written) \cup EventsOf(Written)
         /\ \A r \in Room : notes[r] \subseteq Written /\ members[r] \subseteq User
         /\ current[u] \in Room \cup {NoRoom} /\ Written \subseteq Note
<1>1. /\ up[u] \in Seq(RequestsOf(Written))
      /\ down[u] \in Seq(RepliesOf(Written) \cup EventsOf(Written))
      /\ posted[u] \in Seq(EventsOf(Written)) /\ calls[u] \in Seq(CallsOf(Written))
  BY DEF RoomInv, Queues
<1>2. DOMAIN up[u] = 1 .. Len(up[u]) /\ Len(up[u]) \in Nat
  BY <1>1, LenProperties
<1>3. DOMAIN down[u] = 1 .. Len(down[u]) /\ Len(down[u]) \in Nat
  BY <1>1, LenProperties
<1>4. \A i \in DOMAIN up[u] : up[u][i] \in RequestsOf(Written)
  BY <1>1
<1>5. \A i \in DOMAIN down[u] : down[u][i] \in RepliesOf(Written) \cup EventsOf(Written)
  BY <1>1
<1>6. \A i \in DOMAIN down[u] : i # 0
  BY <1>3
<1> QED
  BY <1>1, <1>2, <1>4, <1>5, <1>6 DEF RoomInv, Sessions, Views, Written

LEMMA OneCall ==
  ASSUME RoomInv, NEW u \in User, InStep(u), calls[u] # <<>>
  PROVE  /\ Innermost(u) = First(u) /\ Front(calls[u]) = <<>>
         /\ First(u) \in CallsOf(Written) /\ DOMAIN calls[u] = {1}
         /\ \A c : Append(Front(calls[u]), c) = <<c>>
<1>1. calls[u] \in Seq(CallsOf(Written))
  BY ViewTypes
<1>2. Len(calls[u]) = 1
  <2>1. Len(calls[u]) <= 1
    BY DEF InStep
  <2> DEFINE k == Len(calls[u])
  <2>2. k \in Nat /\ k # 0 /\ k <= 1
    BY <1>1, <2>1, EmptySeq, LenProperties
  <2> HIDE DEF k
  <2>3. k = 1
    BY <2>2
  <2> QED
    BY <2>3 DEF k
<1>3. Innermost(u) = First(u) /\ First(u) \in CallsOf(Written) /\ DOMAIN calls[u] = {1}
  BY <1>1, <1>2, LenProperties, ElementOfSeq DEF Innermost, Last, First
<1>4. Front(calls[u]) = <<>>
  BY <1>2, SubSeqEmpty DEF Front
<1> QED
  BY <1>3, <1>4

\* What others do, and what is written for the first time, is not seen.
LEMMA Unseen ==
  ASSUME RoomInv, NEW u \in User, ViewInv(u),
         UNCHANGED <<up[u], down[u], posted[u], calls[u], current[u], people[u], shown[u]>>,
         UNCHANGED serverVars, \A n \in Written : author'[n] = author[n]
  PROVE  ViewInv(u)'
<1> USE DEF serverVars
<1>1. InStep(u)' /\ Belongs(u)' /\ PeopleTold(u)'
  BY DEF ViewInv, InStep, Belongs, PeopleTold, Waiting, Told, Fetching, First
<1>2. \A n \in Note : author[n] = u => n \in Written
  BY StudyRoomAssumption DEF Written
<1>3. Heard(u)'
  BY <1>2 DEF ViewInv, Heard
<1>4. \A r \in Room : \A n \in notes[r] : author'[n] = author[n]
  BY ViewTypes
<1>5. NotesShown(u)'
  BY <1>4, ViewTypes DEF ViewInv, NotesShown, Has, Fetching, First
<1>6. ASSUME calls[u] # <<>>, NEW m, NEW i, ReplyTrue(u, m, i)
      PROVE  ReplyTrue(u, m, i)'
  <2>1. First(u)' = First(u)
    BY DEF First
  <2>2. First(u).step = "notes" => First(u).room \in Room
    BY <1>6, OneCall DEF ViewInv, CallsOf
  <2>3. First(u).step = "notes" =>
          \A n \in notes[First(u).room] : author'[n] = author[n]
    BY <1>4, <2>2
  <2> QED
    BY <1>6, <2>1, <2>3 DEF ReplyTrue
<1>7. RepliesTrue(u)'
  BY <1>6 DEF ViewInv, RepliesTrue, Told, First, InStep, Waiting
<1> QED
  BY <1>1, <1>3, <1>5, <1>7 DEF ViewInv

-----------------------------------------------------------------------------
(* The reader asks.                                                        *)

LEMMA Asks ==
  ASSUME RoomInv, NEW u \in User, NEW call, RequestOf(call) \in RequestsOf(Written),
         call.reply = NoReply, call.step \in {"create", "join", "notes"},
         Quiet(down[u]), \A i \in DOMAIN up[u] : up[u][i].op \in Casual,
         up'[u] = Append(up[u], RequestOf(call)), calls'[u] = <<call>>,
         down'[u] = down[u]
  PROVE  /\ InStep(u)' /\ RepliesTrue(u)' /\ First(u)' = call /\ calls'[u] # <<>>
         /\ \A i \in DOMAIN up'[u] :
              up'[u][i].op \in Casual => i \in DOMAIN up[u] /\ up'[u][i] = up[u][i]
         /\ \A r : Adding(up'[u], r) = Adding(up[u], r)
<1> DEFINE q == RequestOf(call)
<1>1. q.op = call.step /\ q.op \notin Casual
  BY DEF RequestOf, Casual
<1>2. up[u] \in Seq(RequestsOf(Written))
  BY ViewTypes
<1>3. /\ DOMAIN up'[u] = DOMAIN up[u] \cup {Len(up[u]) + 1}
      /\ Len(up'[u]) = Len(up[u]) + 1 /\ up'[u][Len(up[u]) + 1] = q
      /\ \A i \in DOMAIN up[u] : up'[u][i] = up[u][i]
  BY <1>2, ToldAtEnd
<1>4. First(u)' = call /\ calls'[u] # <<>> /\ Len(calls'[u]) = 1
  BY DEF First
<1>5. Waiting(u)' /\ ~ Told(u)'
  BY <1>4 DEF Waiting, Told
<1>6. \A i \in DOMAIN down[u] : down[u][i].kind # "reply"
  BY DEF Quiet
<1>7. Quiet(down'[u])
  OBVIOUS
<1> HIDE DEF q
<1>8. \A i \in DOMAIN up'[u] :
        /\ up'[u][i].op \in Casual => i \in DOMAIN up[u] /\ up'[u][i] = up[u][i]
        /\ up'[u][i].op \notin Casual => i = Len(up'[u]) /\ up'[u][i] = q
  BY <1>1, <1>3
<1>9. InStep(u)'
  BY <1>4, <1>5, <1>6, <1>7, <1>8 DEF InStep, q
<1>10. RepliesTrue(u)'
  BY <1>5, <1>6 DEF RepliesTrue
<1>11. \A r : Adding(up'[u], r) = Adding(up[u], r)
  <2> SUFFICES ASSUME NEW r PROVE Adding(Append(up[u], q), r) = Adding(up[u], r)
    BY DEF q
  <2>1. q \in RequestsOf(Written) /\ q.op # "add"
    BY <1>1 DEF Casual, q
  <2> HIDE DEF q
  <2>2. Adding(Append(up[u], q), r) =
          Adding(up[u], r) \cup IF q.op = "add" /\ q.room = r THEN q.note ELSE {}
    BY <1>2, <2>1, PushAdding
  <2> QED
    BY <2>1, <2>2
<1> QED
  BY <1>4, <1>8, <1>9, <1>10, <1>11

LEMMA BeginView ==
  ASSUME RoomInv, NEW u \in User, ViewInv(u), calls[u] = <<>>, NEW r, NEW step,
         Begin(u, step, r),
         (step = "create" /\ r = NoRoom) \/ (step = "join" /\ r \in Room)
  PROVE  ViewInv(u)'
<1> DEFINE call == [id |-> made[u], step |-> step, room |-> r, reply |-> NoReply]
<1>1. /\ up'[u] = Append(up[u], RequestOf(call)) /\ calls'[u] = Append(<<>>, call)
      /\ UNCHANGED <<down, posted, current, people, shown, author>>
      /\ UNCHANGED <<state, members, notes>>
  BY DEF Begin, RoomInv, Queues, serverVars, viewVars
<1>2. RequestOf(call) \in RequestsOf(Written)
  <2>1. made[u] \in Nat
    BY StudyRoomAssumption DEF RoomInv, Views
  <2> QED
    BY <2>1, RequestFacts
<1>3. call.reply = NoReply /\ call.step = step
  OBVIOUS
<1> HIDE DEF call
<1>4. calls'[u] = <<call>>
  BY <1>1
<1>5. ~ Waiting(u) /\ ~ Fetching(u)
  BY DEF Waiting, Fetching
<1>6. Quiet(down[u]) /\ \A i \in DOMAIN up[u] : up[u][i].op \in Casual
  BY <1>5 DEF ViewInv, InStep, Quiet
<1>7. /\ InStep(u)' /\ RepliesTrue(u)' /\ First(u)' = call
      /\ \A i \in DOMAIN up'[u] :
           up'[u][i].op \in Casual => i \in DOMAIN up[u] /\ up'[u][i] = up[u][i]
      /\ \A x : Adding(up'[u], x) = Adding(up[u], x)
  BY <1>1, <1>2, <1>3, <1>4, <1>6, Asks
<1>8. ~ Fetching(u)'
  BY <1>3, <1>7 DEF Fetching
<1>9. Belongs(u)' /\ Heard(u)'
  BY <1>1, <1>7, <1>8 DEF ViewInv, Belongs, Heard, Casual
<1>10. PeopleTold(u)'
  BY <1>1 DEF ViewInv, PeopleTold
<1>11. NotesShown(u)'
  BY <1>1, <1>5, <1>7 DEF ViewInv, NotesShown, Has
<1> QED
  BY <1>7, <1>9, <1>10, <1>11 DEF ViewInv

\* A request that no call waits for.
LEMMA SendsCasually ==
  ASSUME RoomInv, NEW u \in User, ViewInv(u), calls[u] = <<>>, NEW S, NEW m \in S,
         up[u] \in Seq(S), m.op \in Casual, up'[u] = Append(up[u], m),
         calls'[u] = calls[u], down'[u] = down[u]
  PROVE  /\ InStep(u)' /\ RepliesTrue(u)' /\ ~ Fetching(u) /\ ~ Fetching(u)'
         /\ \A i \in DOMAIN up'[u] :
              (i \in DOMAIN up[u] /\ up'[u][i] = up[u][i]) \/ up'[u][i] = m
         /\ \A r : Adding(up'[u], r) = Adding(up[u], r)
                     \cup IF m.op = "add" /\ m.room = r THEN m.note ELSE {}
<1>1. ~ Waiting(u) /\ ~ Told(u) /\ ~ Fetching(u)
  BY DEF Waiting, Told, Fetching
<1>2. ~ Waiting(u)' /\ ~ Told(u)' /\ ~ Fetching(u)'
  BY DEF Waiting, Told, Fetching
<1>3. \A i \in DOMAIN up'[u] :
        (i \in DOMAIN up[u] /\ up'[u][i] = up[u][i]) \/ up'[u][i] = m
  <2>1. /\ DOMAIN up'[u] = DOMAIN up[u] \cup {Len(up[u]) + 1}
        /\ up'[u][Len(up[u]) + 1] = m /\ \A i \in DOMAIN up[u] : up'[u][i] = up[u][i]
    BY ToldAtEnd
  <2> QED
    BY <2>1
<1>4. InStep(u)' /\ RepliesTrue(u)'
  BY <1>1, <1>2, <1>3 DEF ViewInv, InStep, RepliesTrue
<1>5. \A r : Adding(up'[u], r) = Adding(up[u], r)
                \cup IF m.op = "add" /\ m.room = r THEN m.note ELSE {}
  BY PushAdding
<1> QED
  BY <1>1, <1>2, <1>3, <1>4, <1>5

LEMMA LeaveView ==
  ASSUME RoomInv, NEW u \in User, ViewInv(u), calls[u] = <<>>, LeaveRoom(u)
  PROVE  ViewInv(u)'
<1> DEFINE m == [op |-> "leave", id |-> 0, room |-> current[u], note |-> {}]
<1>1. /\ up'[u] = Append(up[u], m) /\ current'[u] = NoRoom
      /\ UNCHANGED <<down, posted, calls, author>>
      /\ UNCHANGED <<state, members, notes>>
  BY DEF LeaveRoom, RoomInv, Queues, Views, serverVars
<1>2. m \in RequestsOf(Written) /\ up[u] \in Seq(RequestsOf(Written))
  BY ViewTypes DEF RequestsOf, LeaveRoom
<1>3. m.op = "leave" /\ m.op \in Casual
  BY DEF Casual
<1> HIDE DEF m
<1>4. /\ InStep(u)' /\ RepliesTrue(u)' /\ ~ Fetching(u)'
      /\ \A i \in DOMAIN up'[u] :
           (i \in DOMAIN up[u] /\ up'[u][i] = up[u][i]) \/ up'[u][i] = m
  BY <1>1, <1>2, <1>3, SendsCasually
<1>5. Belongs(u)' /\ NotesShown(u)'
  BY <1>1, <1>4 DEF Belongs, NotesShown
<1>6. Heard(u)'
  BY <1>1, <1>3, <1>4 DEF ViewInv, Heard
<1>7. PeopleTold(u)'
  BY <1>1 DEF ViewInv, PeopleTold
<1> QED
  BY <1>4, <1>5, <1>6, <1>7 DEF ViewInv

LEMMA AddNoteView ==
  ASSUME RoomInv, NEW u \in User, ViewInv(u), calls[u] = <<>>,
         NEW n \in Note, AddNote(u, n)
  PROVE  ViewInv(u)'
<1> DEFINE m == [op |-> "add", id |-> 0, room |-> current[u], note |-> {n}]
           S == RequestsOf(Written) \cup {m}
<1>1. /\ up'[u] = Append(up[u], m) /\ UNCHANGED <<down, posted, calls, current, people>>
      /\ UNCHANGED <<state, members, notes>>
  BY DEF AddNote, RoomInv, Queues, serverVars
<1>2. /\ author'[n] = u /\ \A k \in Note \ {n} : author'[k] = author[k]
      /\ author[n] # u /\ n \notin Written
  BY StudyRoomAssumption DEF AddNote, RoomInv, Views, Written
<1>3. Has(u)' = Has(u) \cup {n}
  <2>1. shown[u] \in [Note -> {0, 1}] /\ shown' = [shown EXCEPT ![u][n] = @ + 1]
    BY DEF RoomInv, Views, Panels, AddNote
  <2>2. shown \in [User -> [Note -> {0, 1}]]
    BY DEF RoomInv, Views, Panels
  <2>3. shown'[u][n] # 0 /\ \A k \in Note \ {n} : shown'[u][k] = shown[u][k]
    BY <2>1, <2>2
  <2> QED
    BY <2>3 DEF Has
<1>4. m \in S /\ up[u] \in Seq(S)
  BY ViewTypes, SeqMonotonic
<1>5. m.op = "add" /\ m.op \in Casual /\ m.room = current[u] /\ m.note = {n}
  BY DEF Casual
<1> HIDE DEF m, S
<1>6. /\ InStep(u)' /\ RepliesTrue(u)' /\ ~ Fetching(u) /\ ~ Fetching(u)'
      /\ \A i \in DOMAIN up'[u] :
           (i \in DOMAIN up[u] /\ up'[u][i] = up[u][i]) \/ up'[u][i] = m
      /\ Adding(up'[u], current[u]) = Adding(up[u], current[u]) \cup {n}
  <2>1. UNCHANGED <<calls[u], down[u]>>
    BY <1>1
  <2>2. /\ InStep(u)' /\ RepliesTrue(u)' /\ ~ Fetching(u) /\ ~ Fetching(u)'
        /\ \A i \in DOMAIN up'[u] :
             (i \in DOMAIN up[u] /\ up'[u][i] = up[u][i]) \/ up'[u][i] = m
    BY <1>1, <1>4, <1>5, <2>1, SendsCasually
  <2>3. \A r : Adding(up'[u], r) = Adding(up[u], r)
                  \cup IF m.op = "add" /\ m.room = r THEN m.note ELSE {}
    BY <1>1, <1>4, PushAdding
  <2> QED
    BY <1>5, <2>2, <2>3
<1>7. Belongs(u)'
  BY <1>1, <1>5, <1>6 DEF ViewInv, Belongs
<1>8. Heard(u)'
  <2>1. \A i \in DOMAIN up'[u] :
          up'[u][i].op = "add" => \E k \in Note : up'[u][i].note = {k} /\ author'[k] = u
    BY <1>2, <1>5, <1>6 DEF ViewInv, Heard
  <2> QED
    BY <1>1, <2>1 DEF ViewInv, Heard
<1>9. PeopleTold(u)'
  BY <1>1 DEF ViewInv, PeopleTold
<1>10. NotesShown(u)'
  <2> SUFFICES ASSUME current[u] # NoRoom PROVE NotesShown(u)'
    BY <1>1 DEF NotesShown
  <2> DEFINE r == current[u]
  <2>1. r \in Room /\ notes[r] \subseteq Written /\ notes[r] \subseteq Note
    BY ViewTypes
  <2>2. \A k \in notes[r] : author'[k] = author[k]
    BY <1>2, <2>1
  <2> QED
    BY <1>1, <1>3, <1>6, <2>2 DEF ViewInv, NotesShown
<1> QED
  BY <1>6, <1>7, <1>8, <1>9, <1>10 DEF ViewInv

-----------------------------------------------------------------------------
(* The reader's event loop.                                                *)

LEMMA ReceiveView ==
  ASSUME RoomInv, NEW u \in User, ViewInv(u), Receive(u)
  PROVE  ViewInv(u)'
<1> DEFINE M == RepliesOf(Written) \cup EventsOf(Written)
           m == Head(down[u])
<1>1. /\ down[u] \in Seq(M) /\ down[u] # <<>> /\ down'[u] = Tail(down[u])
      /\ UNCHANGED <<up, current, people, shown, author, state, members, notes>>
  BY ViewTypes DEF Receive, RoomInv, Queues, serverVars, viewVars
<1>2. /\ m \in M /\ m = down[u][1] /\ 1 \in DOMAIN down[u]
      /\ \A i \in DOMAIN down'[u] : i + 1 \in DOMAIN down[u] /\ i + 1 # 1
                                   /\ down'[u][i] = down[u][i + 1]
  BY <1>1, PopTold
<1>3. ASSUME NEW r
      PROVE  /\ Silent(down[u], r) <=> Silent(down'[u], r) /\ ~ Tells(m, r)
             /\ Silent(down'[u], r) <=> SilentAfter(down[u], 1, r)
             /\ Quiet(down[u]) <=> Quiet(down'[u]) /\ m.kind # "reply"
             /\ \A P : LastTells(down[u], r, P) =>
                  /\ LastTells(down'[u], r, P)
                  /\ Silent(down'[u], r) /\ Tells(m, r) => m.people = P
  <2>1. /\ Silent(down[u], r) <=> Silent(down'[u], r) /\ ~ Tells(m, r)
        /\ Silent(down'[u], r) <=> SilentAfter(down[u], 1, r)
    BY <1>1, PopTold
  <2>2. Quiet(down[u]) <=> Quiet(down'[u]) /\ m.kind # "reply"
    BY <1>1, PopTold
  <2>3. \A P : LastTells(down[u], r, P) =>
          /\ LastTells(Tail(down[u]), r, P)
          /\ Silent(Tail(down[u]), r) /\ Tells(Head(down[u]), r) => Head(down[u]).people = P
    BY <1>1, PopTold
  <2> QED
    BY <1>1, <2>1, <2>2, <2>3
<1>4. \A r : Brought(down'[u], r) = BroughtAfter(down[u], 1, r)
  BY <1>1, PopTold
<1>5. \A r : Brought(down[u], r) =
               Brought(down'[u], r) \cup IF Brings(m, r) THEN {m.note} ELSE {}
  BY <1>1, PopTold
<1>6. \A i \in DOMAIN down'[u], r \in Room :
        SilentAfter(down'[u], i, r) <=> SilentAfter(down[u], i + 1, r)
  BY <1>1, PopTold
<1>7. ASSUME NEW r \in Room, NEW i \in DOMAIN down'[u]
      PROVE  BroughtAfter(down'[u], i, r) = BroughtAfter(down[u], i + 1, r)
  <2>1. i \in Nat
    <3>1. Tail(down[u]) \in Seq(M)
      BY <1>1, HeadTailProperties
    <3>2. DOMAIN Tail(down[u]) \subseteq Nat
      BY <3>1, LenProperties
    <3> QED
      BY <1>1, <3>2
  <2> QED
    BY <1>1, <2>1, PopBrought
<1>8. ~ Told(u)
  <2>1. calls[u] # <<>> => Innermost(u) = First(u)
    BY OneCall DEF ViewInv
  <2> QED
    BY <2>1 DEF Receive, Looping, Told
<1>9. m.kind = "reply" \/ m.kind \in {"note", "people"}
  BY <1>2 DEF RepliesOf, EventsOf
<1>10. CASE m.kind = "reply"
  <2>1. /\ up[u] = <<>> /\ Waiting(u) /\ m.id = RequestId(First(u))
        /\ \A j \in DOMAIN down[u] : down[u][j].kind = "reply" => j = 1
    BY <1>2, <1>10 DEF ViewInv, InStep
  <2>2. ReplyTrue(u, m, 1)
    BY <1>2, <1>10 DEF ViewInv, RepliesTrue
  <2>3. posted' = posted
    BY <1>10 DEF Receive
  <2>4. calls[u] # <<>> /\ DOMAIN calls[u] = {1} /\ First(u) \in CallsOf(Written)
    BY <2>1, OneCall DEF ViewInv, Waiting
  <2>5. calls'[u] = [i \in {1} |-> [First(u) EXCEPT !.reply = m]]
    <3>1. calls' = [calls EXCEPT ![u] = [i \in DOMAIN @ |->
                IF RequestId(@[i]) = m.id THEN [@[i] EXCEPT !.reply = m] ELSE @[i]]]
      BY <1>10 DEF Receive
    <3>2. calls'[u] = [i \in DOMAIN calls[u] |->
            IF RequestId(calls[u][i]) = m.id THEN [calls[u][i] EXCEPT !.reply = m]
            ELSE calls[u][i]]
      BY <3>1 DEF RoomInv, Queues
    <3>3. \A i \in DOMAIN calls[u] : calls[u][i] = First(u)
      BY <2>4 DEF First
    <3> QED
      BY <2>1, <2>4, <3>2, <3>3
  <2>6. First(u)' = [First(u) EXCEPT !.reply = m] /\ calls'[u] # <<>> /\ Len(calls'[u]) = 1
    <3>1. \A x : [i \in {1} |-> x] = <<x>>
      OBVIOUS
    <3> QED
      BY <2>5, <3>1 DEF First
  <2>7. /\ First(u)'.step = First(u).step /\ First(u)'.room = First(u).room
        /\ First(u)'.reply = m /\ m # NoReply
    <3>1. m # NoReply
      BY <1>10 DEF NoReply
    <3> HIDE DEF m
    <3> QED
      BY <2>4, <2>6, <3>1 DEF CallsOf
  <2> HIDE DEF m, M
  <2>8. Told(u)' /\ ~ Waiting(u)' /\ (Fetching(u)' <=> Fetching(u))
    BY <2>4, <2>6, <2>7 DEF Told, Waiting, Fetching
  <2>9. Quiet(down'[u])
    BY <1>2, <2>1 DEF Quiet
  <2>10. DOMAIN up'[u] = {} /\ up'[u] = <<>>
    BY <1>1, <2>1
  <2>11. InStep(u)'
    <3>1. Len(calls'[u]) <= 1
      BY <2>6
    <3> QED
      BY <2>8, <2>9, <2>10, <3>1 DEF InStep, Quiet
  <2>12. Belongs(u)'
    BY <1>1, <2>7, <2>8 DEF ViewInv, Belongs
  <2>13. \A r : ~ Tells(m, r) /\ ~ Brings(m, r)
    BY <1>10 DEF Tells, Brings
  <2>14. \A r : (Silent(down'[u], r) <=> Silent(down[u], r))
    BY <1>3, <2>13
  <2>15. \A r : Brought(down'[u], r) = Brought(down[u], r)
    BY <1>5, <2>13
  <2>16. Heard(u)'
    BY <1>1, <2>3, <2>14, <2>15 DEF ViewInv, Heard
  <2>17. PeopleTold(u)'
    BY <1>1, <1>3, <2>3, <2>14 DEF ViewInv, PeopleTold
  <2>18. NotesShown(u)'
    BY <1>1, <2>3, <2>8, <2>15 DEF ViewInv, NotesShown, Has
  <2>19. (ReplyTrue(u, First(u).reply, 0))'
    <3>1. \A r : SilentAfter(down'[u], 0, r) <=> SilentAfter(down[u], 1, r)
      BY <1>3 DEF Silent
    <3>2. \A r : BroughtAfter(down'[u], 0, r) = BroughtAfter(down[u], 1, r)
      BY <1>4 DEF Brought
    <3> QED
      BY <1>1, <2>2, <2>7, <3>1, <3>2 DEF ReplyTrue
  <2>20. RepliesTrue(u)'
    BY <2>7, <2>9, <2>19 DEF RepliesTrue, Quiet
  <2> QED
    BY <2>11, <2>12, <2>16, <2>17, <2>18, <2>20 DEF ViewInv
<1>11. CASE m.kind # "reply"
  <2>1. calls' = calls /\ posted'[u] = Append(posted[u], m)
    BY <1>11 DEF Receive, RoomInv, Queues
  <2>2. posted[u] \in Seq(EventsOf(Written)) /\ m \in EventsOf(Written)
    BY <1>2, <1>11, ViewTypes DEF RepliesOf
  <2> HIDE DEF m, M
  <2>3. \A r : /\ Silent(posted'[u], r) <=> Silent(posted[u], r) /\ ~ Tells(m, r)
               /\ Tells(m, r) => LastTells(posted'[u], r, m.people)
               /\ ~ Tells(m, r) =>
                    \A P : LastTells(posted'[u], r, P) <=> LastTells(posted[u], r, P)
    BY <2>1, <2>2, PushTold
  <2>4. \A r : Brought(posted'[u], r) =
                 Brought(posted[u], r) \cup IF Brings(m, r) THEN {m.note} ELSE {}
    BY <2>1, <2>2, PushTold
  <2>5. \A r : Brought(posted'[u], r) \cup Brought(down'[u], r) =
                 Brought(posted[u], r) \cup Brought(down[u], r)
    BY <1>5, <2>4
  <2>6. /\ First(u)' = First(u) /\ (Told(u)' <=> Told(u)) /\ (Waiting(u)' <=> Waiting(u))
        /\ (Fetching(u)' <=> Fetching(u))
    BY <2>1 DEF First, Told, Waiting, Fetching
  <2>7. InStep(u)'
    <3>1. ASSUME NEW i \in DOMAIN down'[u], down'[u][i].kind = "reply"
          PROVE  /\ up'[u] = <<>> /\ Waiting(u)' /\ down'[u][i].id = RequestId(First(u)')
                 /\ \A j \in DOMAIN down'[u] : down'[u][j].kind = "reply" => j = i
      <4>1. /\ up[u] = <<>> /\ Waiting(u) /\ down'[u][i].id = RequestId(First(u))
            /\ \A j \in DOMAIN down[u] : down[u][j].kind = "reply" => j = i + 1
        BY <1>2, <3>1 DEF ViewInv, InStep
      <4>2. \A j \in DOMAIN down'[u] : j + 1 = i + 1 => j = i
        <5>1. down'[u] \in Seq(M)
          BY <1>1, HeadTailProperties
        <5>2. DOMAIN down'[u] \subseteq Nat
          BY <5>1, LenProperties
        <5> QED
          BY <5>2
      <4> QED
        BY <1>1, <1>2, <2>6, <4>1, <4>2
    <3>2. \A i \in DOMAIN up'[u] :
            up'[u][i].op \notin Casual =>
              /\ i = Len(up'[u]) /\ Waiting(u)' /\ up'[u][i] = RequestOf(First(u)')
              /\ Quiet(down'[u])
      BY <1>1, <1>3, <2>6 DEF ViewInv, InStep
    <3> QED
      BY <1>8, <2>1, <2>6, <3>1, <3>2 DEF ViewInv, InStep
  <2>8. Belongs(u)'
    BY <1>1, <2>6 DEF ViewInv, Belongs
  <2>9. Heard(u)'
    BY <1>1, <1>3, <2>3, <2>5 DEF ViewInv, Heard
  <2>10. PeopleTold(u)'
    <3>1. ASSUME NEW r \in Room, u \in members[r]
          PROVE  /\ LastTells(down'[u], r, members[r])
                 /\ Silent(down'[u], r) => LastTells(posted'[u], r, members[r])
      <4>1. /\ LastTells(down[u], r, members[r])
            /\ Silent(down[u], r) => LastTells(posted[u], r, members[r])
        BY <3>1 DEF ViewInv, PeopleTold
      <4> QED
        BY <1>3, <2>3, <4>1
    <3>2. current[u] # NoRoom /\ Silent(down'[u], current[u]) /\ Silent(posted'[u], current[u])
            => people[u] = members[current[u]]
      BY <1>3, <2>3 DEF ViewInv, PeopleTold
    <3> QED
      BY <1>1, <3>1, <3>2 DEF PeopleTold
  <2>11. NotesShown(u)'
    BY <1>1, <2>5, <2>6 DEF ViewInv, NotesShown, Has
  <2>12. RepliesTrue(u)'
    <3>1. ASSUME NEW i \in DOMAIN down'[u], down'[u][i].kind = "reply"
          PROVE  (ReplyTrue(u, down[u][i], i))'
      <4>1. ReplyTrue(u, down[u][i + 1], i + 1) /\ Waiting(u)
        BY <1>2, <3>1 DEF ViewInv, RepliesTrue, InStep
      <4>2. First(u).step # "create" => First(u).room \in Room
        BY <4>1, OneCall DEF ViewInv, Waiting, CallsOf
      <4> QED
        BY <1>1, <1>2, <1>6, <1>7, <2>6, <4>1, <4>2 DEF ReplyTrue
    <3> QED
      BY <1>8, <2>6, <3>1 DEF RepliesTrue
  <2> QED
    BY <2>7, <2>8, <2>9, <2>10, <2>11, <2>12 DEF ViewInv
<1> QED
  BY <1>10, <1>11

LEMMA HandleView ==
  ASSUME RoomInv, NEW u \in User, ViewInv(u), Handle(u)
  PROVE  ViewInv(u)'
<1> DEFINE m == Head(posted[u])
           mine == m.room = current[u]
<1>1. /\ posted[u] \in Seq(EventsOf(Written)) /\ posted[u] # <<>>
      /\ posted'[u] = Tail(posted[u])
      /\ shown' = IF mine /\ m.kind = "note" THEN ShowNote(u, m.note) ELSE shown
      /\ people' = IF mine /\ m.kind = "people" THEN [people EXCEPT ![u] = m.people]
                   ELSE people
      /\ UNCHANGED <<up, down, calls, current, author, state, members, notes>>
  BY ViewTypes DEF Handle, RoomInv, Queues, serverVars
<1>2. m \in EventsOf(Written)
  BY <1>1, PopTold
<1>3. ASSUME NEW r
      PROVE  /\ Silent(posted[u], r) <=> Silent(posted'[u], r) /\ ~ Tells(m, r)
             /\ \A P : LastTells(posted[u], r, P) =>
                  /\ LastTells(Tail(posted[u]), r, P)
                  /\ Silent(Tail(posted[u]), r) /\ Tells(m, r) => m.people = P
  <2>1. Silent(posted[u], r) <=> Silent(posted'[u], r) /\ ~ Tells(m, r)
    BY <1>1, PopTold
  <2>2. \A P : LastTells(posted[u], r, P) =>
          /\ LastTells(Tail(posted[u]), r, P)
          /\ Silent(Tail(posted[u]), r) /\ Tells(m, r) => m.people = P
    BY <1>1, PopTold
  <2> QED
    BY <2>1, <2>2
<1>4. \A r : Brought(posted[u], r) =
               Brought(posted'[u], r) \cup IF Brings(m, r) THEN {m.note} ELSE {}
  BY <1>1, PopTold
<1> HIDE DEF m
<1>5. First(u)' = First(u) /\ (Fetching(u)' <=> Fetching(u)) /\ (Told(u)' <=> Told(u))
      /\ (Waiting(u)' <=> Waiting(u))
  BY <1>1 DEF First, Fetching, Told, Waiting
<1>6. InStep(u)' /\ Belongs(u)'
  BY <1>1, <1>5 DEF ViewInv, InStep, Belongs
<1>7. Heard(u)'
  BY <1>1, <1>3, <1>4 DEF ViewInv, Heard
<1>8. PeopleTold(u)'
  <2>1. \A r \in Room : u \in members[r] =>
          /\ LastTells(down[u], r, members[r])
          /\ Silent(down[u], r) => LastTells(posted'[u], r, members[r])
    BY <1>1, <1>3 DEF ViewInv, PeopleTold
  <2>2. ASSUME current[u] # NoRoom, Silent(down[u], current[u]),
               Silent(posted'[u], current[u])
        PROVE  people'[u] = members[current[u]]
    <3>1. current[u] \in Room /\ u \in members[current[u]]
      BY <2>2, ViewTypes DEF ViewInv, Belongs
    <3>2. LastTells(posted[u], current[u], members[current[u]])
      BY <2>2, <3>1 DEF ViewInv, PeopleTold
    <3>3. CASE Tells(m, current[u])
      <4>1. m.people = members[current[u]]
        BY <1>1, <1>3, <2>2, <3>2, <3>3
      <4>2. people'[u] = m.people
        BY <1>1, <3>3 DEF Tells, RoomInv, Views
      <4> QED
        BY <4>1, <4>2
    <3>4. CASE ~ Tells(m, current[u])
      BY <1>1, <1>3, <2>2, <3>4 DEF ViewInv, PeopleTold, Tells
    <3> QED
      BY <3>3, <3>4
  <2> QED
    BY <1>1, <2>1, <2>2 DEF PeopleTold
<1>9. NotesShown(u)'
  <2> SUFFICES ASSUME current[u] # NoRoom, ~ Fetching(u) PROVE NotesShown(u)'
    BY <1>1, <1>5 DEF NotesShown
  <2> DEFINE r == current[u]
  <2>1. r \in Room /\ notes[r] \subseteq Note
    BY ViewTypes
  <2>2. /\ Has(u) \cup Brought(posted[u], r) \cup Brought(down[u], r) =
             notes[r] \cup Adding(up[u], r)
        /\ Adding(up[u], r) \subseteq Has(u)
        /\ \A n \in notes[r] : author[n] = u => n \in Has(u)
        /\ Brought(posted[u], r) \subseteq notes[r]
    BY <2>1 DEF ViewInv, NotesShown, Heard
  <2>3. Has(u)' = Has(u) \cup IF Brings(m, r) THEN {m.note} ELSE {}
    <3>1. CASE Brings(m, r)
      <4>1. m.note \in notes[r] /\ m.note \in Note
        BY <1>4, <2>1, <2>2, <3>1
      <4>2. shown' = ShowNote(u, m.note)
        BY <1>1, <3>1 DEF Brings
      <4>3. shown \in [User -> [Note -> {0, 1}]]
        BY DEF RoomInv, Views, Panels
      <4>4. CASE m.note \in Has(u)
        <5>1. shown' = shown
          BY <4>1, <4>2, <4>3, <4>4 DEF ShowNote, Has
        <5> QED
          BY <3>1, <4>4, <5>1 DEF Has
      <4>5. CASE m.note \notin Has(u)
        <5>1. shown[u][m.note] = 0 /\ author[m.note] # u
          BY <2>2, <4>1, <4>5 DEF Has
        <5>2. shown' = [shown EXCEPT ![u][m.note] = @ + 1]
          BY <4>2, <5>1 DEF ShowNote
        <5>3. shown'[u][m.note] = 1 /\ \A n \in Note \ {m.note} : shown'[u][n] = shown[u][n]
          BY <4>1, <4>3, <5>1, <5>2
        <5> QED
          BY <3>1, <4>1, <5>3 DEF Has
      <4> QED
        BY <4>4, <4>5
    <3>2. CASE ~ Brings(m, r)
      BY <1>1, <3>2 DEF Brings, Has
    <3> QED
      BY <3>1, <3>2
  <2>4. Has(u)' \cup Brought(posted'[u], r) \cup Brought(down[u], r) =
          notes[r] \cup Adding(up[u], r)
    BY <1>4, <2>2, <2>3
  <2> QED
    BY <1>1, <2>2, <2>3, <2>4 DEF NotesShown
<1>10. RepliesTrue(u)'
  BY <1>1, <1>5 DEF ViewInv, RepliesTrue, ReplyTrue
<1> QED
  BY <1>6, <1>7, <1>8, <1>9, <1>10 DEF ViewInv

\* A call that has its answer.
LEMMA Returning ==
  ASSUME RoomInv, NEW u \in User, ViewInv(u), NEW step, NEW ok, Answered(u, step, ok)
  PROVE  /\ Told(u) /\ up[u] = <<>> /\ Quiet(down[u]) /\ Innermost(u) = First(u)
         /\ First(u) \in CallsOf(Written) /\ First(u).reply \in RepliesOf(Written)
         /\ First(u).step = step /\ First(u).reply.ok = ok
         /\ ReplyTrue(u, First(u).reply, 0) /\ Front(calls[u]) = <<>>
<1>1. calls[u] # <<>>
  BY DEF Answered
<1>2. /\ Innermost(u) = First(u) /\ First(u) \in CallsOf(Written)
      /\ Front(calls[u]) = <<>>
  BY <1>1, OneCall DEF ViewInv
<1>3. /\ Told(u) /\ First(u).step = step /\ First(u).reply.ok = ok
      /\ First(u).reply \in RepliesOf(Written)
  BY <1>1, <1>2, AnsweredFacts DEF Answered, Told
<1> QED
  BY <1>2, <1>3 DEF ViewInv, InStep, RepliesTrue

\* A call that goes on asks anew.
LEMMA GoesOn ==
  ASSUME RoomInv, NEW u \in User, ViewInv(u), Told(u), NEW step \in {"join", "notes"},
         NEW r \in Room, GoOn(u, step, r), down' = down
  PROVE  /\ InStep(u)' /\ RepliesTrue(u)' /\ calls'[u] # <<>>
         /\ First(u)'.step = step /\ First(u)'.room = r
         /\ up[u] = <<>> /\ \A i \in DOMAIN up'[u] : up'[u][i].op = step
         /\ \A x : Adding(up'[u], x) = Adding(up[u], x)
<1> DEFINE call == [id |-> Innermost(u).id, step |-> step, room |-> r, reply |-> NoReply]
<1>1. calls[u] # <<>> /\ up[u] = <<>> /\ Quiet(down[u])
  BY DEF ViewInv, InStep, Told
<1>2. First(u) = Innermost(u) /\ First(u) \in CallsOf(Written)
      /\ \A c : Append(Front(calls[u]), c) = <<c>>
  BY <1>1, OneCall DEF ViewInv
<1>3. calls'[u] = Append(Front(calls[u]), call) /\ up'[u] = Append(up[u], RequestOf(call))
  BY DEF GoOn, RoomInv, Queues
<1>4. Innermost(u).id \in Nat
  BY <1>2 DEF CallsOf
<1>5. RequestOf(call) \in RequestsOf(Written)
  BY <1>4, RequestFacts
<1>6. call.reply = NoReply /\ call.step = step /\ call.room = r /\ RequestOf(call).op = step
  BY DEF RequestOf
<1> HIDE DEF call
<1>7. calls'[u] = <<call>>
  BY <1>2, <1>3
<1>8. DOMAIN up[u] = {}
  BY <1>1
<1>9. \A i \in DOMAIN up[u] : up[u][i].op \in Casual
  BY <1>8
<1>10. /\ InStep(u)' /\ RepliesTrue(u)' /\ First(u)' = call /\ calls'[u] # <<>>
       /\ \A x : Adding(up'[u], x) = Adding(up[u], x)
  BY <1>1, <1>3, <1>5, <1>6, <1>7, <1>9, Asks
<1>11. \A i \in DOMAIN up'[u] : up'[u][i].op = step
  <2>1. up'[u] = <<RequestOf(call)>>
    BY <1>1, <1>3
  <2> QED
    BY <1>6, <2>1
<1> QED
  BY <1>1, <1>6, <1>10, <1>11

LEMMA ReturnCreateView ==
  ASSUME RoomInv, NEW u \in User, ViewInv(u), ReturnCreate(u)
  PROVE  ViewInv(u)'
<1>1. Answered(u, "create", TRUE)
  BY DEF ReturnCreate
<1>2. /\ Told(u) /\ First(u).step = "create" /\ Innermost(u) = First(u)
      /\ First(u).reply.room \in Room
  BY <1>1, Returning DEF RepliesOf
<1>3. /\ GoOn(u, "join", First(u).reply.room)
      /\ UNCHANGED <<down, posted, current, people, shown, author>>
      /\ UNCHANGED <<state, members, notes>>
  BY <1>2 DEF ReturnCreate, serverVars, viewVars
<1>4. /\ InStep(u)' /\ RepliesTrue(u)' /\ First(u)'.step = "join"
      /\ up[u] = <<>> /\ \A i \in DOMAIN up'[u] : up'[u][i].op = "join"
      /\ \A x : Adding(up'[u], x) = Adding(up[u], x)
  BY <1>2, <1>3, GoesOn
<1>5. ~ Fetching(u) /\ ~ Fetching(u)'
  BY <1>2, <1>4 DEF Fetching
<1>6. Belongs(u)' /\ Heard(u)'
  BY <1>3, <1>4, <1>5 DEF ViewInv, Belongs, Heard
<1>7. PeopleTold(u)'
  BY <1>3 DEF ViewInv, PeopleTold
<1>8. NotesShown(u)'
  BY <1>3, <1>4, <1>5 DEF ViewInv, NotesShown, Has
<1> QED
  BY <1>4, <1>6, <1>7, <1>8 DEF ViewInv

LEMMA ReturnJoinView ==
  ASSUME RoomInv, NEW u \in User, ViewInv(u), ReturnJoin(u)
  PROVE  ViewInv(u)'
<1> DEFINE r == First(u).room
<1>1. Answered(u, "join", TRUE)
  BY DEF ReturnJoin
<1>2. /\ Told(u) /\ First(u).step = "join" /\ Innermost(u) = First(u)
      /\ First(u) \in CallsOf(Written) /\ First(u).reply.ok = TRUE
      /\ ReplyTrue(u, First(u).reply, 0)
  BY <1>1, Returning
<1>3. r \in Room
  BY <1>2 DEF CallsOf
<1>4. /\ GoOn(u, "notes", r) /\ current'[u] = r /\ people'[u] = First(u).reply.people
      /\ UNCHANGED <<down, posted, shown, author>>
      /\ UNCHANGED <<state, members, notes>>
  BY <1>2 DEF ReturnJoin, serverVars, RoomInv, Views
<1>5. /\ InStep(u)' /\ RepliesTrue(u)' /\ First(u)'.step = "notes" /\ First(u)'.room = r
      /\ calls'[u] # <<>> /\ \A i \in DOMAIN up'[u] : up'[u][i].op = "notes"
  BY <1>2, <1>3, <1>4, GoesOn
<1>6. Fetching(u)'
  BY <1>5 DEF Fetching
<1>7. u \in members[r] /\ (First(u).reply.people = members[r] \/ ~ Silent(down[u], r))
  BY <1>2 DEF ReplyTrue, Silent
<1>8. Belongs(u)'
  BY <1>4, <1>5, <1>7 DEF Belongs
<1>9. Heard(u)' /\ NotesShown(u)'
  BY <1>4, <1>5, <1>6 DEF ViewInv, Heard, NotesShown
<1>10. PeopleTold(u)'
  BY <1>4, <1>7 DEF ViewInv, PeopleTold
<1> QED
  BY <1>5, <1>8, <1>9, <1>10 DEF ViewInv

\* A call that ends.
LEMMA Ends ==
  ASSUME RoomInv, NEW u \in User, ViewInv(u), Told(u), Front(calls[u]) = <<>>, Finish(u),
         down' = down
  PROVE  /\ calls'[u] = <<>> /\ up[u] = <<>> /\ up' = up /\ ~ Fetching(u)'
         /\ InStep(u)' /\ RepliesTrue(u)'
<1>1. calls'[u] = <<>> /\ up' = up
  BY DEF Finish, RoomInv, Queues
<1>2. up[u] = <<>> /\ DOMAIN up[u] = {} /\ Quiet(down[u])
  BY DEF ViewInv, InStep
<1>3. ~ Fetching(u)' /\ ~ Told(u)'
  BY <1>1 DEF Fetching, Told
<1>4. InStep(u)' /\ RepliesTrue(u)'
  BY <1>1, <1>2, <1>3 DEF InStep, RepliesTrue, Quiet
<1> QED
  BY <1>1, <1>2, <1>3, <1>4

LEMMA ReturnNotesView ==
  ASSUME RoomInv, NEW u \in User, ViewInv(u), ReturnNotes(u)
  PROVE  ViewInv(u)'
<1> DEFINE r == First(u).room
           N == First(u).reply.notes
<1>1. Answered(u, "notes", TRUE)
  BY DEF ReturnNotes
<1>2. /\ Told(u) /\ First(u).step = "notes" /\ Innermost(u) = First(u)
      /\ First(u) \in CallsOf(Written) /\ First(u).reply \in RepliesOf(Written)
      /\ ReplyTrue(u, First(u).reply, 0) /\ Front(calls[u]) = <<>>
  BY <1>1, Returning
<1>3. r \in Room /\ N \subseteq Note
  BY <1>2, ViewTypes DEF CallsOf, RepliesOf
<1>4. /\ Finish(u) /\ shown'[u] = Once(N)
      /\ UNCHANGED <<down, posted, current, people, author>>
      /\ UNCHANGED <<state, members, notes>>
  BY <1>2 DEF ReturnNotes, serverVars, RoomInv, Views
<1>5. /\ calls'[u] = <<>> /\ up[u] = <<>> /\ up' = up /\ ~ Fetching(u)'
      /\ InStep(u)' /\ RepliesTrue(u)'
  BY <1>2, <1>4, Ends
<1>6. current[u] = r
  BY <1>2 DEF ViewInv, Belongs, Fetching, Told
<1>7. Belongs(u)' /\ Heard(u)'
  BY <1>4, <1>5 DEF ViewInv, Belongs, Heard
<1>8. PeopleTold(u)'
  BY <1>4 DEF ViewInv, PeopleTold
<1>9. NotesShown(u)'
  <2>1. Has(u)' = N
    BY <1>3, <1>4 DEF Has, Once
  <2>2. /\ N \subseteq notes[r] /\ notes[r] \subseteq N \cup Brought(down[u], r)
        /\ \A n \in notes[r] \ N : author[n] # u
    BY <1>2 DEF ReplyTrue, Brought
  <2>3. Brought(down[u], r) \cup Brought(posted[u], r) \subseteq notes[r]
    BY <1>3 DEF ViewInv, Heard
  <2>4. Adding(up[u], r) = {}
    BY <1>5, NothingTold
  <2> HIDE DEF N
  <2> QED
    BY <1>4, <1>5, <1>6, <2>1, <2>2, <2>3, <2>4 DEF NotesShown
<1> QED
  BY <1>5, <1>7, <1>8, <1>9 DEF ViewInv

LEMMA FailView ==
  ASSUME RoomInv, NEW u \in User, ViewInv(u), Fail(u), ~ MayTimeOut
  PROVE  ViewInv(u)'
<1>1. Answered(u, Innermost(u).step, FALSE)
  BY DEF Fail
<1>2. /\ Told(u) /\ Innermost(u) = First(u) /\ First(u).reply.ok = FALSE
      /\ ReplyTrue(u, First(u).reply, 0) /\ Front(calls[u]) = <<>>
  BY <1>1, Returning
<1>3. First(u).step # "notes"
  BY <1>2 DEF ReplyTrue
<1>4. /\ Finish(u) /\ UNCHANGED <<down, posted, current, people, shown, author>>
      /\ UNCHANGED <<state, members, notes>>
  BY <1>2, <1>3 DEF Fail, serverVars
<1>5. /\ calls'[u] = <<>> /\ up' = up /\ ~ Fetching(u)' /\ InStep(u)' /\ RepliesTrue(u)'
  BY <1>2, <1>4, Ends
<1>6. ~ Fetching(u)
  BY <1>3 DEF Fetching
<1>7. Belongs(u)' /\ Heard(u)'
  BY <1>4, <1>5 DEF ViewInv, Belongs, Heard
<1>8. PeopleTold(u)'
  BY <1>4 DEF ViewInv, PeopleTold
<1>9. NotesShown(u)'
  BY <1>4, <1>5, <1>6 DEF ViewInv, NotesShown, Has
<1> QED
  BY <1>5, <1>7, <1>8, <1>9 DEF ViewInv

-----------------------------------------------------------------------------
(* A step of the server, seen by a reader who did not ask for it.          *)

Own(u) == <<posted[u], calls[u], current[u], people[u], shown[u]>>

\* It concerns a room he is not in.
LEMMA ApartView ==
  ASSUME RoomInv, NEW u \in User, ViewInv(u), UNCHANGED <<Own(u), up[u], down[u], author>>,
         NEW r \in Room, u \notin members[r], u \notin members'[r],
         \A x \in Room \ {r} : members'[x] = members[x] /\ notes'[x] = notes[x],
         notes[r] \subseteq notes'[r],
         \A x \in Room : state[x] # "None" => state'[x] # "None"
  PROVE  ViewInv(u)'
<1> USE DEF Own
<1>1. /\ First(u)' = First(u) /\ (Fetching(u)' <=> Fetching(u)) /\ (Told(u)' <=> Told(u))
      /\ (Waiting(u)' <=> Waiting(u))
  BY DEF First, Fetching, Told, Waiting
<1>2. current[u] # NoRoom => current[u] \in Room \ {r}
  BY ViewTypes DEF ViewInv, Belongs
<1>3. InStep(u)'
  BY <1>1 DEF ViewInv, InStep
<1>4. Belongs(u)'
  BY <1>1, <1>2 DEF ViewInv, Belongs
<1>5. \A x \in Room : notes[x] \subseteq notes'[x]
  OBVIOUS
<1>6. Heard(u)'
  BY <1>5 DEF ViewInv, Heard
<1>7. PeopleTold(u)'
  BY <1>2 DEF ViewInv, PeopleTold
<1>8. NotesShown(u)'
  BY <1>1, <1>2 DEF ViewInv, NotesShown, Has
<1>9. ASSUME calls[u] # <<>>, NEW m, NEW i, ReplyTrue(u, m, i)
      PROVE  ReplyTrue(u, m, i)'
  <2>1. First(u) \in CallsOf(Written)
    BY <1>9, OneCall DEF ViewInv
  <2>2. First(u).step = "join" /\ m.ok = TRUE => First(u).room \in Room \ {r}
    BY <1>9, <2>1 DEF ReplyTrue, CallsOf
  <2>3. First(u).step = "notes" => First(u).room \in Room \ {r}
    <3>1. First(u).step = "notes" => current[u] = First(u).room /\ First(u).room \in Room
      BY <1>9, <2>1 DEF ViewInv, Belongs, Fetching, CallsOf
    <3> QED
      BY <1>2, <3>1, StudyRoomAssumption
  <2> QED
    BY <1>1, <1>9, <2>2, <2>3 DEF ReplyTrue
<1>10. RepliesTrue(u)'
  BY <1>1, <1>9 DEF ViewInv, RepliesTrue, Told, InStep, Waiting
<1> QED
  BY <1>3, <1>4, <1>6, <1>7, <1>8, <1>10 DEF ViewInv

\* An event reaches the end of his queue.
LEMMA EventQueued ==
  ASSUME RoomInv, NEW u \in User, ViewInv(u), UNCHANGED <<Own(u), up[u]>>,
         NEW e \in EventsOf(Written), down'[u] = Append(down[u], e)
  PROVE  /\ InStep(u)' /\ First(u)' = First(u) /\ (Fetching(u)' <=> Fetching(u))
         /\ (Told(u)' <=> Told(u)) /\ (Waiting(u)' <=> Waiting(u))
         /\ \A i \in DOMAIN down'[u] :
              down'[u][i].kind = "reply" => i \in DOMAIN down[u] /\ down'[u][i] = down[u][i]
<1> USE DEF Own
<1>1. /\ First(u)' = First(u) /\ (Fetching(u)' <=> Fetching(u)) /\ (Told(u)' <=> Told(u))
      /\ (Waiting(u)' <=> Waiting(u))
  BY DEF First, Fetching, Told, Waiting
<1>2. e \in RepliesOf(Written) \cup EventsOf(Written) /\ e.kind # "reply"
  BY DEF EventsOf
<1>3. /\ DOMAIN down'[u] = DOMAIN down[u] \cup {Len(down[u]) + 1}
      /\ down'[u][Len(down[u]) + 1] = e
      /\ \A i \in DOMAIN down[u] : down'[u][i] = down[u][i]
  BY <1>2, ViewTypes, ToldAtEnd
<1>4. \A i \in DOMAIN down'[u] :
        down'[u][i].kind = "reply" => i \in DOMAIN down[u] /\ down'[u][i] = down[u][i]
  BY <1>2, <1>3
<1>5. Quiet(down'[u]) <=> Quiet(down[u])
  BY <1>2, <1>3 DEF Quiet
<1>6. InStep(u)'
  BY <1>1, <1>4, <1>5 DEF ViewInv, InStep
<1> QED
  BY <1>1, <1>4, <1>6

\* Others join or leave a room he is in.
LEMMA HearsPeople ==
  ASSUME RoomInv, NEW u \in User, ViewInv(u), UNCHANGED <<Own(u), up[u], author, notes>>,
         NEW r \in Room, NEW P \in SUBSET User, u \in members[r], u \in P,
         members' = [members EXCEPT ![r] = P],
         down'[u] = Append(down[u], PeopleChanged(r, P)),
         \A x \in Room : state[x] # "None" => state'[x] # "None"
  PROVE  ViewInv(u)'
<1> DEFINE e == PeopleChanged(r, P)
           M == RepliesOf(Written) \cup EventsOf(Written)
<1>1. e \in EventsOf(Written) /\ e \in M /\ \A x : Tells(e, x) <=> x = r
  BY DEF EventsOf, PeopleChanged, Tells
<1>2. e.people = P /\ \A x : ~ Brings(e, x)
  BY DEF PeopleChanged, Brings
<1>3. down'[u] = Append(down[u], e) /\ down[u] \in Seq(M)
  BY ViewTypes
<1>0. members'[r] = P /\ \A x \in Room \ {r} : members'[x] = members[x]
  BY DEF RoomInv, Sessions
<1> HIDE DEF e
<1>4. /\ InStep(u)' /\ First(u)' = First(u) /\ (Fetching(u)' <=> Fetching(u))
      /\ (Told(u)' <=> Told(u)) /\ (Waiting(u)' <=> Waiting(u))
      /\ \A i \in DOMAIN down'[u] :
           down'[u][i].kind = "reply" => i \in DOMAIN down[u] /\ down'[u][i] = down[u][i]
  BY <1>1, <1>3, EventQueued
<1>5. \A x : /\ Silent(down'[u], x) <=> Silent(down[u], x) /\ x # r
             /\ x = r => LastTells(down'[u], x, P)
             /\ x # r => \A Q : LastTells(down'[u], x, Q) <=> LastTells(down[u], x, Q)
  <2>1. \A x : Silent(down'[u], x) <=> Silent(down[u], x) /\ ~ Tells(e, x)
    BY <1>1, <1>3, PushTold
  <2>2. \A x : Tells(e, x) => LastTells(down'[u], x, e.people)
    BY <1>1, <1>3, PushTold
  <2>3. \A x : ~ Tells(e, x) =>
          \A Q : LastTells(down'[u], x, Q) <=> LastTells(down[u], x, Q)
    BY <1>1, <1>3, PushTold
  <2> QED
    BY <1>1, <1>2, <2>1, <2>2, <2>3
<1>6. \A x : Brought(down'[u], x) = Brought(down[u], x)
  <2>1. \A x : Brought(down'[u], x) =
                 Brought(down[u], x) \cup IF Brings(e, x) THEN {e.note} ELSE {}
    BY <1>1, <1>3, PushTold
  <2> QED
    BY <1>2, <2>1
<1>7. ASSUME NEW x, NEW i \in DOMAIN down[u] \cup {0}
      PROVE  SilentAfter(down'[u], i, x) <=> SilentAfter(down[u], i, x) /\ x # r
  <2>1. SilentAfter(Append(down[u], e), i, x) <=> SilentAfter(down[u], i, x) /\ ~ Tells(e, x)
    BY <1>1, <1>3, ToldAtEnd
  <2> QED
    BY <1>1, <1>3, <2>1
<1>8. ASSUME NEW x, NEW i \in DOMAIN down[u] \cup {0}
      PROVE  BroughtAfter(down'[u], i, x) = BroughtAfter(down[u], i, x)
  <2>1. BroughtAfter(Append(down[u], e), i, x) =
          BroughtAfter(down[u], i, x) \cup IF Brings(e, x) THEN {e.note} ELSE {}
    BY <1>1, <1>3, ToldAtEnd
  <2> QED
    BY <1>2, <1>3, <2>1
<1>9. Belongs(u)'
  BY <1>0, <1>4, ViewTypes DEF ViewInv, Belongs, Own
<1>10. Heard(u)'
  <2>1. state[r] # "None"
    BY DEF RoomInv, ClosedWhenEmpty, Open
  <2> QED
    BY <1>5, <1>6, <2>1 DEF ViewInv, Heard, Own
<1>11. PeopleTold(u)'
  <2>1. ASSUME NEW x \in Room, u \in members'[x]
        PROVE  /\ LastTells(down'[u], x, members'[x])
               /\ Silent(down'[u], x) => LastTells(posted[u], x, members'[x])
    <3>1. x # r => u \in members[x] /\ members'[x] = members[x]
      BY <1>0, <2>1
    <3> QED
      BY <1>0, <1>5, <3>1 DEF ViewInv, PeopleTold
  <2>2. current[u] # NoRoom /\ Silent(down'[u], current[u]) /\ Silent(posted[u], current[u])
          => people[u] = members'[current[u]]
    BY <1>0, <1>5, ViewTypes DEF ViewInv, PeopleTold
  <2> QED
    BY <2>1, <2>2 DEF PeopleTold, Own
<1>12. NotesShown(u)'
  BY <1>4, <1>6 DEF ViewInv, NotesShown, Has, Own
<1>13. ASSUME calls[u] # <<>>, NEW m, NEW i \in DOMAIN down[u] \cup {0}, ReplyTrue(u, m, i)
       PROVE  ReplyTrue(u, m, i)'
  <2>1. First(u).step = "join" => First(u).room \in Room
    BY <1>13, OneCall DEF ViewInv, CallsOf
  <2> QED
    BY <1>0, <1>4, <1>7, <1>8, <1>13, <2>1 DEF ReplyTrue
<1>14. RepliesTrue(u)'
  <2>1. Told(u)' => (ReplyTrue(u, First(u).reply, 0))'
    BY <1>4, <1>13 DEF ViewInv, RepliesTrue, Told
  <2>2. ASSUME NEW i \in DOMAIN down'[u], down'[u][i].kind = "reply"
        PROVE  (ReplyTrue(u, down[u][i], i))'
    BY <1>4, <1>13, <2>2 DEF ViewInv, RepliesTrue, InStep, Waiting
  <2> QED
    BY <2>1, <2>2 DEF RepliesTrue
<1> QED
  BY <1>4, <1>9, <1>10, <1>11, <1>12, <1>14 DEF ViewInv

\* Another reader's note reaches a room he is in.
LEMMA HearsNote ==
  ASSUME RoomInv, NEW u \in User, ViewInv(u), UNCHANGED <<Own(u), up[u], author>>,
         UNCHANGED <<state, members>>,
         NEW r \in Room, NEW n \in Written, u \in members[r], author[n] # u,
         notes' = [notes EXCEPT ![r] = @ \cup {n}],
         down'[u] = Append(down[u], [kind |-> "note", room |-> r, note |-> n])
  PROVE  ViewInv(u)'
<1> DEFINE e == [kind |-> "note", room |-> r, note |-> n]
           M == RepliesOf(Written) \cup EventsOf(Written)
<1>1. e \in EventsOf(Written) /\ e \in M /\ \A x : ~ Tells(e, x)
  BY DEF EventsOf, Tells
<1>2. e.note = n /\ \A x : Brings(e, x) <=> x = r
  BY DEF Brings
<1>3. down'[u] = Append(down[u], e) /\ down[u] \in Seq(M)
  BY ViewTypes
<1>0. notes'[r] = notes[r] \cup {n} /\ \A x \in Room \ {r} : notes'[x] = notes[x]
  BY DEF RoomInv, Sessions
<1> HIDE DEF e
<1>4. /\ InStep(u)' /\ First(u)' = First(u) /\ (Fetching(u)' <=> Fetching(u))
      /\ (Told(u)' <=> Told(u)) /\ (Waiting(u)' <=> Waiting(u))
      /\ \A i \in DOMAIN down'[u] :
           down'[u][i].kind = "reply" => i \in DOMAIN down[u] /\ down'[u][i] = down[u][i]
  BY <1>1, <1>3, EventQueued
<1>5. \A x : /\ Silent(down'[u], x) <=> Silent(down[u], x)
             /\ \A Q : LastTells(down'[u], x, Q) <=> LastTells(down[u], x, Q)
  <2>1. \A x : Silent(down'[u], x) <=> Silent(down[u], x) /\ ~ Tells(e, x)
    BY <1>1, <1>3, PushTold
  <2>2. \A x : ~ Tells(e, x) =>
          \A Q : LastTells(down'[u], x, Q) <=> LastTells(down[u], x, Q)
    BY <1>1, <1>3, PushTold
  <2> QED
    BY <1>1, <2>1, <2>2
<1>6. \A x : Brought(down'[u], x) = Brought(down[u], x) \cup IF x = r THEN {n} ELSE {}
  <2>1. \A x : Brought(down'[u], x) =
                 Brought(down[u], x) \cup IF Brings(e, x) THEN {e.note} ELSE {}
    BY <1>1, <1>3, PushTold
  <2> QED
    BY <1>2, <2>1
<1>7. ASSUME NEW x, NEW i \in DOMAIN down[u] \cup {0}
      PROVE  SilentAfter(down'[u], i, x) <=> SilentAfter(down[u], i, x)
  <2>1. SilentAfter(Append(down[u], e), i, x) <=> SilentAfter(down[u], i, x) /\ ~ Tells(e, x)
    BY <1>1, <1>3, ToldAtEnd
  <2> QED
    BY <1>1, <1>3, <2>1
<1>8. ASSUME NEW x, NEW i \in DOMAIN down[u] \cup {0}
      PROVE  BroughtAfter(down'[u], i, x) =
               BroughtAfter(down[u], i, x) \cup IF x = r THEN {n} ELSE {}
  <2>1. BroughtAfter(Append(down[u], e), i, x) =
          BroughtAfter(down[u], i, x) \cup IF Brings(e, x) THEN {e.note} ELSE {}
    BY <1>1, <1>3, ToldAtEnd
  <2> QED
    BY <1>2, <1>3, <2>1
<1>9. Belongs(u)'
  BY <1>4 DEF ViewInv, Belongs, Own
<1>10. Heard(u)'
  BY <1>0, <1>5, <1>6 DEF ViewInv, Heard, Own
<1>11. PeopleTold(u)'
  BY <1>5 DEF ViewInv, PeopleTold, Own
<1>12. NotesShown(u)'
  <2> SUFFICES ASSUME current[u] # NoRoom, ~ Fetching(u) PROVE NotesShown(u)'
    BY <1>4 DEF NotesShown, Own
  <2> DEFINE c == current[u]
  <2>1. c \in Room
    BY ViewTypes
  <2>2. notes'[c] = notes[c] \cup IF c = r THEN {n} ELSE {}
    BY <1>0, <2>1
  <2>3. /\ Has(u) \cup Brought(posted[u], c) \cup Brought(down'[u], c) =
             notes'[c] \cup Adding(up[u], c)
        /\ Adding(up[u], c) \subseteq Has(u)
    BY <1>6, <2>2 DEF ViewInv, NotesShown
  <2>4. \A k \in notes'[c] : author[k] = u => k \in Has(u)
    BY <2>2 DEF ViewInv, NotesShown
  <2> QED
    BY <2>3, <2>4 DEF NotesShown, Has, Own
<1>13. ASSUME calls[u] # <<>>, NEW m, NEW i \in DOMAIN down[u] \cup {0}, ReplyTrue(u, m, i)
       PROVE  ReplyTrue(u, m, i)'
  <2> DEFINE x == First(u).room
  <2>1. First(u).step = "notes" => x \in Room
    BY <1>13, OneCall DEF ViewInv, CallsOf
  <2>2. First(u).step = "notes" => notes'[x] = notes[x] \cup IF x = r THEN {n} ELSE {}
    BY <1>0, <2>1
  <2>3. First(u).step = "notes" =>
          /\ m.ok = TRUE /\ m.notes \subseteq notes'[x]
          /\ notes'[x] \subseteq m.notes \cup BroughtAfter(down'[u], i, x)
          /\ \A k \in notes'[x] \ m.notes : author[k] # u
    BY <1>8, <1>13, <2>2 DEF ReplyTrue
  <2> QED
    BY <1>4, <1>7, <1>13, <2>3 DEF ReplyTrue
<1>14. RepliesTrue(u)'
  <2>1. Told(u)' => (ReplyTrue(u, First(u).reply, 0))'
    BY <1>4, <1>13 DEF ViewInv, RepliesTrue, Told
  <2>2. ASSUME NEW i \in DOMAIN down'[u], down'[u][i].kind = "reply"
        PROVE  (ReplyTrue(u, down[u][i], i))'
    BY <1>4, <1>13, <2>2 DEF ViewInv, RepliesTrue, InStep, Waiting
  <2> QED
    BY <2>1, <2>2 DEF RepliesTrue
<1> QED
  BY <1>4, <1>9, <1>10, <1>11, <1>12, <1>14 DEF ViewInv

-----------------------------------------------------------------------------
(* A step of the server, seen by the reader who asked for it.              *)

Taken(u, m) == up[u] # <<>> /\ m = Head(up[u]) /\ up'[u] = Tail(up[u])

LEMMA Asked ==
  ASSUME RoomInv, NEW u \in User, ViewInv(u), NEW m, Taken(u, m)
  PROVE  /\ m \in RequestsOf(Written) /\ Quiet(down[u]) /\ ~ Told(u)
         /\ m = up[u][1] /\ 1 \in DOMAIN up[u]
         /\ m.op \notin Casual =>
              /\ Len(up[u]) = 1 /\ up'[u] = <<>> /\ Waiting(u)
              /\ m.op = First(u).step /\ m.room = First(u).room
              /\ m.id = RequestId(First(u))
<1>1. /\ m \in RequestsOf(Written) /\ m = up[u][1] /\ 1 \in DOMAIN up[u]
      /\ up[u] \in Seq(RequestsOf(Written)) /\ up[u] # <<>> /\ up'[u] = Tail(up[u])
  BY ViewTypes, PopTold DEF Taken
<1>2. Quiet(down[u]) /\ ~ Told(u)
  BY <1>1 DEF ViewInv, InStep, Quiet
<1>3. ASSUME m.op \notin Casual
      PROVE  Len(up[u]) = 1 /\ Waiting(u) /\ m = RequestOf(First(u))
  BY <1>1, <1>3 DEF ViewInv, InStep
<1>4. m = RequestOf(First(u)) => /\ m.op = First(u).step /\ m.room = First(u).room
                                 /\ m.id = RequestId(First(u))
  BY DEF RequestOf
<1>5. Len(up[u]) = 1 => up'[u] = <<>>
  <2>1. /\ up'[u] \in Seq(RequestsOf(Written)) /\ Len(up'[u]) = Len(up[u]) - 1
    BY <1>1, HeadTailProperties
  <2>2. Len(up'[u]) = 0 => up'[u] = <<>>
    BY <2>1, EmptySeq
  <2>3. Len(up[u]) = 1 => Len(up'[u]) = 0
    BY <2>1
  <2> QED
    BY <2>2, <2>3
<1> QED
  BY <1>1, <1>2, <1>3, <1>4, <1>5

\* The call that waits is answered.
LEMMA Replied ==
  ASSUME RoomInv, NEW u \in User, ViewInv(u), UNCHANGED Own(u),
         NEW m, Taken(u, m), m.op \notin Casual,
         NEW d \in Seq(RepliesOf(Written) \cup EventsOf(Written)),
         NEW a \in RepliesOf(Written), Quiet(d), a.id = m.id, down'[u] = Append(d, a)
  PROVE  /\ InStep(u)' /\ First(u)' = First(u) /\ (Fetching(u)' <=> Fetching(u))
         /\ ~ Told(u)' /\ up'[u] = <<>> /\ (Fetching(u) <=> m.op = "notes")
         /\ \A x : Adding(up[u], x) = {} /\ Adding(up'[u], x) = {}
         /\ \A i \in DOMAIN down'[u] : down'[u][i].kind = "reply" => down'[u][i] = a
<1>1. /\ ~ Told(u) /\ m = up[u][1] /\ Len(up[u]) = 1 /\ up'[u] = <<>> /\ Waiting(u)
      /\ m.op = First(u).step /\ m.id = RequestId(First(u))
  BY Asked
<1>2. /\ First(u)' = First(u) /\ (Fetching(u)' <=> Fetching(u)) /\ ~ Told(u)'
      /\ Waiting(u)' /\ (Fetching(u) <=> m.op = "notes")
  BY <1>1 DEF Own, First, Fetching, Told, Waiting
<1>3. /\ DOMAIN down'[u] = DOMAIN d \cup {Len(d) + 1} /\ down'[u][Len(d) + 1] = a
      /\ \A i \in DOMAIN d : down'[u][i] = d[i]
  <2>1. a \in RepliesOf(Written) \cup EventsOf(Written)
    OBVIOUS
  <2> QED
    BY <2>1, ToldAtEnd
<1>4. \A i \in DOMAIN down'[u] :
        down'[u][i].kind = "reply" => down'[u][i] = a /\ i = Len(d) + 1
  BY <1>3 DEF Quiet
<1>5. DOMAIN up'[u] = {} /\ up'[u] = <<>>
  BY <1>1
<1>6. InStep(u)'
  BY <1>1, <1>2, <1>4, <1>5 DEF ViewInv, InStep, Own
<1>7. \A x : Adding(up'[u], x) = {}
  BY <1>5, NothingTold
<1>8. \A x : Adding(up[u], x) = {}
  <2>1. DOMAIN up[u] = {1}
    BY <1>1, ViewTypes
  <2>2. \A i \in DOMAIN up[u] : up[u][i].op # "add"
    BY <1>1, <2>1 DEF Casual
  <2> QED
    BY <2>2 DEF Adding
<1> QED
  BY <1>2, <1>4, <1>5, <1>6, <1>7, <1>8

\* The reply alone tells nothing new.
LEMMA ReplyOnly ==
  ASSUME RoomInv, NEW u \in User, ViewInv(u), NEW a \in RepliesOf(Written),
         down'[u] = Append(down[u], a), NEW r
  PROVE  /\ Silent(down'[u], r) <=> Silent(down[u], r)
         /\ Brought(down'[u], r) = Brought(down[u], r)
         /\ \A P : LastTells(down'[u], r, P) <=> LastTells(down[u], r, P)
<1> DEFINE M == RepliesOf(Written) \cup EventsOf(Written)
<1>1. a \in M /\ a.kind = "reply" /\ down[u] \in Seq(M)
  BY ViewTypes DEF RepliesOf
<1>2. Silent(Append(down[u], a), r) <=> Silent(down[u], r)
  BY <1>1, PushReply
<1>3. Brought(Append(down[u], a), r) = Brought(down[u], r)
  BY <1>1, PushReply
<1>4. \A P : LastTells(Append(down[u], a), r, P) <=> LastTells(down[u], r, P)
  BY <1>1, PushReply
<1> QED
  BY <1>2, <1>3, <1>4

LEMMA CreateView ==
  ASSUME RoomInv, NEW u \in User, ViewInv(u), NEW m, Taken(u, m), m.op = "create",
         UNCHANGED <<Own(u), author, notes>>,
         NEW r \in Room, state[r] = "None", state' = [state EXCEPT ![r] = "Created"],
         members' = [members EXCEPT ![r] = {u}],
         down'[u] = Append(down[u], Answer(m, TRUE, r))
  PROVE  ViewInv(u)'
<1> DEFINE a == Answer(m, TRUE, r)
           M == RepliesOf(Written) \cup EventsOf(Written)
<1>1. /\ m \in RequestsOf(Written) /\ Quiet(down[u]) /\ down[u] \in Seq(M)
      /\ m.op \notin Casual /\ First(u).step = "create"
  BY Asked, ViewTypes DEF Casual
<1>2. a \in RepliesOf(Written) /\ a.id = m.id /\ down'[u] = Append(down[u], a)
  BY <1>1, AnswerFacts DEF Answer
<1> HIDE DEF a
<1>3. UNCHANGED Own(u)
  OBVIOUS
<1>4. /\ InStep(u)' /\ First(u)' = First(u) /\ ~ Told(u)' /\ up'[u] = <<>>
      /\ (Fetching(u)' <=> Fetching(u))
      /\ \A x : Adding(up[u], x) = {} /\ Adding(up'[u], x) = {}
  BY <1>1, <1>2, <1>3, Replied
<1>5. DOMAIN up'[u] = {}
  BY <1>4
<1>6. /\ \A x : Silent(down'[u], x) <=> Silent(down[u], x)
      /\ \A x : \A Q : LastTells(down'[u], x, Q) <=> LastTells(down[u], x, Q)
  BY <1>2, ReplyOnly
<1>7. \A x : Brought(down'[u], x) = Brought(down[u], x)
  BY <1>2, ReplyOnly
<1>8. /\ members'[r] = {u} /\ \A x \in Room \ {r} : members'[x] = members[x]
      /\ members[r] = {} /\ \A x \in Room : state[x] # "None" => state'[x] # "None"
  BY DEF RoomInv, Sessions, ClosedWhenEmpty, Open
<1>9. current[u] # NoRoom => current[u] \in Room \ {r}
  BY <1>8, ViewTypes DEF ViewInv, Belongs
<1>10. Belongs(u)'
  BY <1>4, <1>5, <1>8, <1>9 DEF ViewInv, Belongs, Own
<1>11. Heard(u)'
  BY <1>5, <1>6, <1>7, <1>8 DEF ViewInv, Heard, Own
<1>12. PeopleTold(u)'
  <2>1. Silent(down[u], r) /\ Silent(posted[u], r)
    BY DEF ViewInv, Heard
  <2>2. \A P : LastTells(down[u], r, P) /\ LastTells(posted[u], r, P)
    BY <1>1, <2>1, ViewTypes DEF LastTells, Silent, SilentAfter
  <2>3. \A P : LastTells(down'[u], r, P) /\ LastTells(posted'[u], r, P)
    BY <1>6, <2>2 DEF Own
  <2>4. PeopleTold(u) /\ UNCHANGED <<posted[u], current[u], people[u]>>
    BY DEF ViewInv, Own
  <2> QED
    BY <1>6, <1>8, <1>9, <2>3, <2>4 DEF PeopleTold
<1>13. NotesShown(u)'
  BY <1>4, <1>7 DEF ViewInv, NotesShown, Has, Own
<1>14. RepliesTrue(u)'
  <2>1. First(u)'.step = "create" /\ ~ Told(u)'
    BY <1>1, <1>4
  <2>2. \A x, i : ReplyTrue(u, x, i)'
    BY <2>1 DEF ReplyTrue
  <2> QED
    BY <2>1, <2>2 DEF RepliesTrue
<1> QED
  BY <1>4, <1>10, <1>11, <1>12, <1>13, <1>14 DEF ViewInv

LEMMA NotJoinedView ==
  ASSUME RoomInv, NEW u \in User, ViewInv(u), NEW m, Taken(u, m), m.op = "join",
         m.room \in Room, UNCHANGED <<Own(u), author>>, UNCHANGED <<state, members, notes>>,
         down'[u] = Append(down[u], Answer(m, FALSE, m.room))
  PROVE  ViewInv(u)'
<1> DEFINE a == Answer(m, FALSE, m.room)
<1>1. /\ m \in RequestsOf(Written) /\ Quiet(down[u]) /\ m.op \notin Casual
      /\ down[u] \in Seq(RepliesOf(Written) \cup EventsOf(Written))
      /\ First(u).step = "join"
  BY Asked, ViewTypes DEF Casual
<1>2. /\ a \in RepliesOf(Written) /\ a.id = m.id /\ a.ok = FALSE
      /\ down'[u] = Append(down[u], a)
  BY <1>1, AnswerFacts DEF Answer
<1> HIDE DEF a
<1>3. UNCHANGED Own(u)
  OBVIOUS
<1>4. /\ InStep(u)' /\ First(u)' = First(u) /\ ~ Told(u)' /\ up'[u] = <<>>
      /\ (Fetching(u)' <=> Fetching(u))
      /\ \A x : Adding(up[u], x) = {} /\ Adding(up'[u], x) = {}
      /\ \A i \in DOMAIN down'[u] : down'[u][i].kind = "reply" => down'[u][i] = a
  BY <1>1, <1>2, <1>3, Replied
<1>5. DOMAIN up'[u] = {}
  BY <1>4
<1>6. /\ \A x : Silent(down'[u], x) <=> Silent(down[u], x)
      /\ \A x : \A Q : LastTells(down'[u], x, Q) <=> LastTells(down[u], x, Q)
  BY <1>2, ReplyOnly
<1>7. \A x : Brought(down'[u], x) = Brought(down[u], x)
  BY <1>2, ReplyOnly
<1>8. Belongs(u)' /\ Heard(u)'
  BY <1>4, <1>5, <1>6, <1>7 DEF ViewInv, Belongs, Heard, Own
<1>9. PeopleTold(u)'
  BY <1>6 DEF ViewInv, PeopleTold, Own
<1>10. NotesShown(u)'
  BY <1>4, <1>7 DEF ViewInv, NotesShown, Has, Own
<1>11. RepliesTrue(u)'
  BY <1>1, <1>2, <1>4 DEF RepliesTrue, ReplyTrue
<1> QED
  BY <1>4, <1>8, <1>9, <1>10, <1>11 DEF ViewInv

LEMMA NotesView ==
  ASSUME RoomInv, NEW u \in User, ViewInv(u), NEW m, Taken(u, m), m.op = "notes",
         m.room \in Room, UNCHANGED <<Own(u), author>>, UNCHANGED <<state, members, notes>>,
         down'[u] = Append(down[u], [Answer(m, TRUE, m.room) EXCEPT !.notes = notes[m.room]])
  PROVE  ViewInv(u)'
<1> DEFINE a == [Answer(m, TRUE, m.room) EXCEPT !.notes = notes[m.room]]
<1>1. /\ m \in RequestsOf(Written) /\ Quiet(down[u]) /\ m.op \notin Casual
      /\ down[u] \in Seq(RepliesOf(Written) \cup EventsOf(Written))
      /\ First(u).step = "notes" /\ First(u).room = m.room
  BY Asked, ViewTypes DEF Casual
<1>2. /\ a \in RepliesOf(Written) /\ a.id = m.id /\ a.ok = TRUE
      /\ a.notes = notes[m.room] /\ down'[u] = Append(down[u], a)
  <2>1. notes[m.room] \in SUBSET Written
    BY ViewTypes
  <2> QED
    BY <1>1, <2>1, AnswerFacts DEF Answer
<1> HIDE DEF a
<1>3. UNCHANGED Own(u)
  OBVIOUS
<1>4. /\ InStep(u)' /\ First(u)' = First(u) /\ ~ Told(u)' /\ up'[u] = <<>>
      /\ (Fetching(u)' <=> Fetching(u)) /\ (Fetching(u) <=> m.op = "notes")
      /\ \A i \in DOMAIN down'[u] : down'[u][i].kind = "reply" => down'[u][i] = a
  <2>1. InStep(u)' /\ First(u)' = First(u) /\ ~ Told(u)' /\ up'[u] = <<>>
    BY <1>1, <1>2, <1>3, Replied
  <2>2. \A i \in DOMAIN down'[u] : down'[u][i].kind = "reply" => down'[u][i] = a
    <3> DEFINE M == RepliesOf(Written) \cup EventsOf(Written)
    <3>1. a \in M /\ down[u] \in Seq(M) /\ Quiet(down[u])
      BY <1>1, <1>2
    <3> HIDE DEF M
    <3>2. \A i \in DOMAIN Append(down[u], a) :
            Append(down[u], a)[i].kind = "reply" => Append(down[u], a)[i] = a
      BY <3>1, OnlyReply
    <3> QED
      BY <1>2, <3>2
  <2>3. (Fetching(u)' <=> Fetching(u)) /\ (Fetching(u) <=> m.op = "notes")
    BY <1>1, <1>2, <1>3, Replied
  <2> QED
    BY <2>1, <2>2, <2>3
<1>5. DOMAIN up'[u] = {} /\ Fetching(u)'
  BY <1>4
<1>6. /\ \A x : Silent(down'[u], x) <=> Silent(down[u], x)
      /\ \A x : \A Q : LastTells(down'[u], x, Q) <=> LastTells(down[u], x, Q)
  BY <1>2, ReplyOnly
<1>7. \A x : Brought(down'[u], x) = Brought(down[u], x)
  BY <1>2, ReplyOnly
<1>8. Belongs(u)' /\ Heard(u)' /\ NotesShown(u)'
  BY <1>4, <1>5, <1>6, <1>7 DEF ViewInv, Belongs, Heard, NotesShown, Own
<1>9. PeopleTold(u)'
  BY <1>6 DEF ViewInv, PeopleTold, Own
<1>10. RepliesTrue(u)'
  BY <1>1, <1>2, <1>4 DEF RepliesTrue, ReplyTrue
<1> QED
  BY <1>4, <1>8, <1>9, <1>10 DEF ViewInv

LEMMA JoinedView ==
  ASSUME RoomInv, NEW u \in User, ViewInv(u), NEW m, Taken(u, m), m.op = "join",
         NEW r \in Room, m.room = r, UNCHANGED <<Own(u), author, notes>>,
         NEW P \in SUBSET User, u \in P, members' = [members EXCEPT ![r] = P],
         \A x \in Room : state[x] # "None" => state'[x] # "None", state[r] # "None",
         down'[u] = Append(Append(down[u], PeopleChanged(r, P)),
                           [Answer(m, TRUE, r) EXCEPT !.people = P])
  PROVE  ViewInv(u)'
<1> DEFINE M == RepliesOf(Written) \cup EventsOf(Written)
           e == PeopleChanged(r, P)
           a == [Answer(m, TRUE, r) EXCEPT !.people = P]
           d == Append(down[u], e)
<1>1. /\ m \in RequestsOf(Written) /\ Quiet(down[u]) /\ m.op \notin Casual
      /\ down[u] \in Seq(M) /\ First(u).step = "join" /\ First(u).room = r
  BY Asked, ViewTypes DEF Casual
<1>2. /\ a \in RepliesOf(Written) /\ a.id = m.id /\ a.ok = TRUE /\ a.people = P
      /\ down'[u] = Append(d, a)
  BY <1>1, AnswerFacts DEF Answer
<1>3. /\ e \in M /\ e.kind # "reply" /\ e.people = P
      /\ \A x : (Tells(e, x) <=> x = r) /\ ~ Brings(e, x)
  BY DEF EventsOf, PeopleChanged, Tells, Brings
<1>0. /\ members'[r] = P /\ \A x \in Room \ {r} : members'[x] = members[x]
      /\ UNCHANGED Own(u)
  BY DEF RoomInv, Sessions
<1> HIDE DEF a, e, M
<1>4. d \in Seq(M) /\ Quiet(d)
  BY <1>1, <1>3, AppendProperties, PushTold
<1>5. /\ \A x : Silent(d, x) <=> Silent(down[u], x) /\ x # r
      /\ LastTells(d, r, P)
      /\ \A x : x # r => \A Q : LastTells(d, x, Q) <=> LastTells(down[u], x, Q)
  <2>1. \A x : Silent(d, x) <=> Silent(down[u], x) /\ ~ Tells(e, x)
    BY <1>1, <1>3, PushTold
  <2>2. \A x : Tells(e, x) => LastTells(d, x, e.people)
    BY <1>1, <1>3, PushTold
  <2>3. \A x : ~ Tells(e, x) => \A Q : LastTells(d, x, Q) <=> LastTells(down[u], x, Q)
    BY <1>1, <1>3, PushTold
  <2> QED
    BY <1>3, <2>1, <2>2, <2>3
<1>6. \A x : Brought(d, x) = Brought(down[u], x)
  <2>1. \A x : Brought(d, x) =
                 Brought(down[u], x) \cup IF Brings(e, x) THEN {e.note} ELSE {}
    BY <1>1, <1>3, PushTold
  <2> QED
    BY <1>3, <2>1
<1> HIDE DEF d
<1>7. a \in M /\ a.kind = "reply"
  BY <1>2 DEF M, RepliesOf
<1>8. /\ \A x : Silent(down'[u], x) <=> Silent(d, x)
      /\ \A x : \A Q : LastTells(down'[u], x, Q) <=> LastTells(d, x, Q)
  <2>1. \A x : Silent(Append(d, a), x) <=> Silent(d, x)
    BY <1>4, <1>7, PushReply
  <2>2. \A x : \A Q : LastTells(Append(d, a), x, Q) <=> LastTells(d, x, Q)
    BY <1>4, <1>7, PushReply
  <2> QED
    BY <1>2, <2>1, <2>2
<1>9. \A x : Brought(down'[u], x) = Brought(down[u], x)
  <2>1. \A x : Brought(Append(d, a), x) = Brought(d, x)
    BY <1>4, <1>7, PushReply
  <2> QED
    BY <1>2, <1>6, <2>1
<1>10. /\ InStep(u)' /\ First(u)' = First(u) /\ ~ Told(u)' /\ up'[u] = <<>>
       /\ (Fetching(u)' <=> Fetching(u))
       /\ \A x : Adding(up[u], x) = {} /\ Adding(up'[u], x) = {}
       /\ \A i \in DOMAIN down'[u] : down'[u][i].kind = "reply" => down'[u][i] = a
  <2>1. Quiet(d) /\ d \in Seq(RepliesOf(Written) \cup EventsOf(Written))
    BY <1>4 DEF M
  <2> QED
    BY <1>0, <1>1, <1>2, <2>1, Replied
<1>11. DOMAIN up'[u] = {}
  BY <1>10
<1>12. Belongs(u)'
  <2>1. Belongs(u) /\ current'[u] = current[u] /\ First(u)' = First(u)
    BY <1>0, <1>10 DEF ViewInv, Own
  <2>2. current[u] # NoRoom => current[u] \in Room /\ u \in members'[current[u]]
    BY <1>0, <2>1, ViewTypes DEF Belongs
  <2> QED
    BY <1>10, <1>11, <2>1, <2>2 DEF Belongs
<1>13. Heard(u)'
  BY <1>5, <1>8, <1>9, <1>11 DEF ViewInv, Heard, Own
<1>14. PeopleTold(u)'
  <2>1. ASSUME NEW x \in Room, u \in members'[x]
        PROVE  /\ LastTells(down'[u], x, members'[x])
               /\ Silent(down'[u], x) => LastTells(posted[u], x, members'[x])
    <3>1. x # r => u \in members[x] /\ members'[x] = members[x]
      BY <1>0, <2>1
    <3> QED
      BY <1>0, <1>5, <1>8, <3>1 DEF ViewInv, PeopleTold
  <2>2. current[u] # NoRoom /\ Silent(down'[u], current[u]) /\ Silent(posted[u], current[u])
          => people[u] = members'[current[u]]
    BY <1>0, <1>5, <1>8, ViewTypes DEF ViewInv, PeopleTold
  <2> QED
    BY <2>1, <2>2 DEF PeopleTold, Own
<1>15. NotesShown(u)'
  BY <1>9, <1>10 DEF ViewInv, NotesShown, Has, Own
<1>16. RepliesTrue(u)'
  BY <1>0, <1>1, <1>2, <1>10 DEF RepliesTrue, ReplyTrue
<1> QED
  BY <1>10, <1>12, <1>13, <1>14, <1>15, <1>16 DEF ViewInv

\* A request that no call waits for is served.
LEMMA CasuallyServed ==
  ASSUME RoomInv, NEW u \in User, ViewInv(u), NEW m, Taken(u, m), m.op \in Casual,
         UNCHANGED Own(u), Quiet(down'[u])
  PROVE  /\ InStep(u)' /\ RepliesTrue(u)' /\ First(u)' = First(u)
         /\ (Fetching(u)' <=> Fetching(u))
         /\ \A i \in DOMAIN up'[u] : i + 1 \in DOMAIN up[u] /\ up'[u][i] = up[u][i + 1]
<1>1. up[u] \in Seq(RequestsOf(Written)) /\ up[u] # <<>> /\ up'[u] = Tail(up[u])
  BY ViewTypes DEF Taken
<1>2. /\ up'[u] \in Seq(RequestsOf(Written)) /\ Len(up'[u]) = Len(up[u]) - 1
      /\ \A i \in DOMAIN up'[u] : i + 1 \in DOMAIN up[u] /\ up'[u][i] = up[u][i + 1]
  BY <1>1, PopTold, HeadTailProperties
<1>3. ~ Told(u) /\ Len(up[u]) \in Nat
  BY <1>1, Asked, LenProperties
<1>4. /\ First(u)' = First(u) /\ (Fetching(u)' <=> Fetching(u)) /\ ~ Told(u)'
      /\ (Waiting(u)' <=> Waiting(u))
  BY <1>3 DEF Own, First, Fetching, Told, Waiting
<1>5. \A i \in DOMAIN down'[u] : down'[u][i].kind # "reply"
  BY DEF Quiet
<1>6. ASSUME NEW i \in DOMAIN up'[u], up'[u][i].op \notin Casual
      PROVE  i = Len(up'[u]) /\ Waiting(u) /\ up'[u][i] = RequestOf(First(u))
  <2>1. i + 1 = Len(up[u]) /\ Waiting(u) /\ up[u][i + 1] = RequestOf(First(u))
    BY <1>2, <1>6 DEF ViewInv, InStep
  <2>2. i \in Nat
    BY <1>2, LenProperties
  <2> QED
    BY <1>2, <1>3, <2>1, <2>2
<1>7. InStep(u)'
  BY <1>4, <1>5, <1>6 DEF ViewInv, InStep, Own
<1>8. RepliesTrue(u)'
  BY <1>4, <1>5 DEF RepliesTrue
<1> QED
  BY <1>2, <1>4, <1>7, <1>8

LEMMA LeftView ==
  ASSUME RoomInv, NEW u \in User, ViewInv(u), NEW m, Taken(u, m), m.op = "leave",
         NEW r \in Room, UNCHANGED <<Own(u), author, notes, down[u]>>,
         members' = [members EXCEPT ![r] = @ \ {u}],
         \A x \in Room : state[x] # "None" => state'[x] # "None"
  PROVE  ViewInv(u)'
<1>0. m.op \in Casual /\ UNCHANGED Own(u) /\ down'[u] = down[u]
  BY DEF Casual
<1>1. Quiet(down[u]) /\ m = up[u][1] /\ 1 \in DOMAIN up[u]
  BY Asked
<1>2. /\ InStep(u)' /\ RepliesTrue(u)' /\ First(u)' = First(u)
      /\ (Fetching(u)' <=> Fetching(u))
      /\ \A i \in DOMAIN up'[u] : i + 1 \in DOMAIN up[u] /\ up'[u][i] = up[u][i + 1]
  BY <1>0, <1>1, CasuallyServed
<1>3. u \notin members'[r] /\ \A x \in Room \ {r} : members'[x] = members[x]
  BY DEF RoomInv, Sessions
<1>4. current[u] = NoRoom
  BY <1>1 DEF ViewInv, Belongs
<1>5. Belongs(u)' /\ NotesShown(u)'
  BY <1>2, <1>4 DEF ViewInv, Belongs, NotesShown, Own
<1>6. Heard(u)'
  BY <1>0, <1>2 DEF ViewInv, Heard, Own
<1>7. PeopleTold(u)'
  BY <1>0, <1>3, <1>4 DEF ViewInv, PeopleTold, Own
<1> QED
  BY <1>2, <1>5, <1>6, <1>7 DEF ViewInv

\* His own note: he shows it already, and the event that tells of it changes nothing.
LEMMA AddedView ==
  ASSUME RoomInv, NEW u \in User, ViewInv(u), NEW m, Taken(u, m), m.op = "add",
         NEW r \in Room, m.room = r, NEW n \in Written, m.note = {n}, author[n] = u,
         UNCHANGED <<Own(u), author>>, UNCHANGED <<state, members>>,
         notes' = [notes EXCEPT ![r] = @ \cup {n}],
         down'[u] = down[u] \/ down'[u] = Append(down[u], [kind |-> "note", room |-> r, note |-> n])
  PROVE  ViewInv(u)'
<1> DEFINE e == [kind |-> "note", room |-> r, note |-> n]
           M == RepliesOf(Written) \cup EventsOf(Written)
<1>1. /\ e \in M /\ e.kind # "reply" /\ e.note = n
      /\ \A x : ~ Tells(e, x) /\ (Brings(e, x) <=> x = r)
  BY DEF EventsOf, Tells, Brings
<1>2. /\ down[u] \in Seq(M) /\ (down'[u] = down[u] \/ down'[u] = Append(down[u], e))
      /\ Quiet(down[u])
  BY Asked, ViewTypes
<1>0. /\ m.op \in Casual /\ UNCHANGED Own(u) /\ notes'[r] = notes[r] \cup {n}
      /\ \A x \in Room \ {r} : notes'[x] = notes[x]
  BY DEF Casual, RoomInv, Sessions
<1> HIDE DEF e, M
<1>3. Quiet(down'[u]) /\ \A x : Silent(down'[u], x) <=> Silent(down[u], x)
  <2>1. Quiet(Append(down[u], e))
    BY <1>1, <1>2, PushTold
  <2>2. \A x : Silent(Append(down[u], e), x) <=> Silent(down[u], x) /\ ~ Tells(e, x)
    BY <1>1, <1>2, PushTold
  <2> QED
    BY <1>1, <1>2, <2>1, <2>2
<1>4. \A x, Q : LastTells(down'[u], x, Q) <=> LastTells(down[u], x, Q)
  <2>1. \A x : ~ Tells(e, x) =>
          \A Q : LastTells(Append(down[u], e), x, Q) <=> LastTells(down[u], x, Q)
    BY <1>1, <1>2, PushTold
  <2>2. \A x : \A Q : LastTells(Append(down[u], e), x, Q) <=> LastTells(down[u], x, Q)
    BY <1>1, <2>1
  <2>3. CASE down'[u] = down[u]
    BY <2>3
  <2>4. CASE down'[u] = Append(down[u], e)
    BY <2>2, <2>4
  <2> QED
    BY <1>2, <2>3, <2>4
<1>5. \A x : /\ Brought(down[u], x) \subseteq Brought(down'[u], x)
             /\ Brought(down'[u], x) \subseteq Brought(down[u], x) \cup IF x = r THEN {n} ELSE {}
  <2>1. \A x : Brought(Append(down[u], e), x) =
                 Brought(down[u], x) \cup IF Brings(e, x) THEN {e.note} ELSE {}
    BY <1>1, <1>2, PushTold
  <2>2. \A x : Brought(Append(down[u], e), x) =
                 Brought(down[u], x) \cup IF x = r THEN {n} ELSE {}
    BY <1>1, <2>1
  <2>3. CASE down'[u] = down[u]
    BY <2>3
  <2>4. CASE down'[u] = Append(down[u], e)
    BY <2>2, <2>4
  <2> QED
    BY <1>2, <2>3, <2>4
<1>6. /\ InStep(u)' /\ RepliesTrue(u)' /\ First(u)' = First(u)
      /\ (Fetching(u)' <=> Fetching(u))
      /\ \A i \in DOMAIN up'[u] : i + 1 \in DOMAIN up[u] /\ up'[u][i] = up[u][i + 1]
  BY <1>0, <1>3, CasuallyServed
<1>7. Belongs(u)'
  BY <1>6 DEF ViewInv, Belongs, Own
<1>8. Heard(u)'
  BY <1>0, <1>3, <1>5, <1>6 DEF ViewInv, Heard, Own
<1>9. PeopleTold(u)'
  BY <1>3, <1>4 DEF ViewInv, PeopleTold, Own
<1>10. NotesShown(u)'
  <2> SUFFICES ASSUME current[u] # NoRoom, ~ Fetching(u) PROVE NotesShown(u)'
    BY <1>0, <1>6 DEF NotesShown, Own
  <2> DEFINE c == current[u]
  <2>1. c \in Room
    BY ViewTypes
  <2>2. Adding(up[u], c) = Adding(up'[u], c) \cup IF c = r THEN {n} ELSE {}
    <3>1. up[u] \in Seq(RequestsOf(Written)) /\ up[u] # <<>>
      BY ViewTypes DEF Taken
    <3>2. Adding(up[u], c) =
            Adding(Tail(up[u]), c)
              \cup IF Head(up[u]).op = "add" /\ Head(up[u]).room = c THEN Head(up[u]).note ELSE {}
      BY <3>1, PopAdding
    <3>3. Head(up[u]) = m /\ up'[u] = Tail(up[u])
      BY DEF Taken
    <3> QED
      BY <3>2, <3>3
  <2>3. notes'[c] = notes[c] \cup IF c = r THEN {n} ELSE {}
    BY <1>0, <2>1
  <2>4. /\ Has(u) \cup Brought(posted[u], c) \cup Brought(down[u], c) =
             notes[c] \cup Adding(up[u], c)
        /\ Adding(up[u], c) \subseteq Has(u)
        /\ \A k \in notes[c] : author[k] = u => k \in Has(u)
    BY DEF ViewInv, NotesShown
  <2>5. /\ Has(u) \cup Brought(posted[u], c) \cup Brought(down'[u], c) =
             notes'[c] \cup Adding(up'[u], c)
        /\ Adding(up'[u], c) \subseteq Has(u)
    BY <1>5, <2>2, <2>3, <2>4
  <2>6. \A k \in notes'[c] : author[k] = u => k \in Has(u)
    BY <2>2, <2>3, <2>4
  <2> QED
    BY <2>5, <2>6 DEF NotesShown, Has, Own
<1> QED
  BY <1>6, <1>7, <1>8, <1>9, <1>10 DEF ViewInv

-----------------------------------------------------------------------------
(* The server.                                                             *)

LEMMA Sent ==
  ASSUME RoomInv, NEW u \in User, NEW v \in User, NEW to,
         NEW e \in EventsOf(Written), NEW a \in RepliesOf(Written)
  PROVE  /\ Send(u, {}, <<>>, <<a>>) =>
              down'[v] = IF v = u THEN Append(down[v], a) ELSE down[v]
         /\ Send(u, to, <<e>>, <<>>) =>
              down'[v] = IF v \in to THEN Append(down[v], e) ELSE down[v]
         /\ Send(u, to, <<e>>, <<a>>) =>
              LET d == IF v \in to THEN Append(down[v], e) ELSE down[v]
              IN  down'[v] = IF v = u THEN Append(d, a) ELSE d
<1> DEFINE M == RepliesOf(Written) \cup EventsOf(Written)
<1>1. /\ down[v] \in Seq(M) /\ a \in M /\ e \in M
      /\ \A es, as : Send(u, to, es, as) => down'[v] = down[v] \o (IF v \in to THEN es ELSE <<>>)
                                                          \o (IF v = u THEN as ELSE <<>>)
      /\ Send(u, {}, <<>>, <<a>>) => down'[v] = down[v] \o <<>> \o (IF v = u THEN <<a>> ELSE <<>>)
  BY ViewTypes DEF Send
<1> HIDE DEF M
<1>2. ASSUME NEW s \in Seq(M)
      PROVE  s \o <<>> = s /\ s \o <<e>> = Append(s, e) /\ s \o <<a>> = Append(s, a)
             /\ Append(s, e) \in Seq(M)
  BY <1>1, <1>2, ConcatEmptySeq, AppendIsConcat, AppendProperties
<1>3. Send(u, {}, <<>>, <<a>>) => down'[v] = IF v = u THEN Append(down[v], a) ELSE down[v]
  BY <1>1, <1>2
<1>4. Send(u, to, <<e>>, <<>>) =>
        down'[v] = IF v \in to THEN Append(down[v], e) ELSE down[v]
  <2> SUFFICES ASSUME Send(u, to, <<e>>, <<>>)
               PROVE  down'[v] = IF v \in to THEN Append(down[v], e) ELSE down[v]
    OBVIOUS
  <2> DEFINE d == down[v] \o (IF v \in to THEN <<e>> ELSE <<>>)
  <2>1. d = IF v \in to THEN Append(down[v], e) ELSE down[v]
    BY <1>1, <1>2
  <2>2. d \in Seq(M) /\ down'[v] = d \o (IF v = u THEN <<>> ELSE <<>>)
    BY <1>1, <1>2, <2>1
  <2> HIDE DEF d
  <2>3. down'[v] = d
    BY <1>2, <2>2
  <2> QED
    BY <2>1, <2>3
<1>5. Send(u, to, <<e>>, <<a>>) =>
        LET d == IF v \in to THEN Append(down[v], e) ELSE down[v]
        IN  down'[v] = IF v = u THEN Append(d, a) ELSE d
  <2> SUFFICES ASSUME Send(u, to, <<e>>, <<a>>)
               PROVE  LET d == IF v \in to THEN Append(down[v], e) ELSE down[v]
                      IN  down'[v] = IF v = u THEN Append(d, a) ELSE d
    OBVIOUS
  <2> DEFINE d == down[v] \o (IF v \in to THEN <<e>> ELSE <<>>)
  <2>1. d = IF v \in to THEN Append(down[v], e) ELSE down[v]
    BY <1>1, <1>2
  <2>2. d \in Seq(M) /\ down'[v] = d \o (IF v = u THEN <<a>> ELSE <<>>)
    BY <1>1, <1>2, <2>1
  <2> HIDE DEF d
  <2>3. down'[v] = IF v = u THEN Append(d, a) ELSE d
    BY <1>2, <2>2
  <2> QED
    BY <2>1, <2>3
<1> QED
  BY <1>3, <1>4, <1>5

\* The request m of u is taken; v is any reader.
Serving(u, v, m) ==
  /\ Taken(u, m) /\ UNCHANGED <<Own(v), author>>
  /\ v # u => up'[v] = up[v]

LEMMA ServeCreateView ==
  ASSUME RoomInv, NEW u \in User, NEW v \in User, ViewInv(v),
         NEW m \in RequestsOf(Written), Serving(u, v, m), m.op = "create", CreateSession(u, m)
  PROVE  ViewInv(v)'
<1>1. PICK r \in Room :
        /\ state[r] = "None"
        /\ state' = [state EXCEPT ![r] = "Created"]
        /\ members' = [members EXCEPT ![r] = {u}]
        /\ Send(u, {}, <<>>, <<Answer(m, TRUE, r)>>)
        /\ notes' = notes
  BY DEF CreateSession
<1>2. Answer(m, TRUE, r) \in RepliesOf(Written)
  BY AnswerFacts
<1>3. down'[v] = IF v = u THEN Append(down[v], Answer(m, TRUE, r)) ELSE down[v]
  <2> DEFINE a == Answer(m, TRUE, r)
             e == PeopleChanged(r, {})
  <2>1. a \in RepliesOf(Written) /\ e \in EventsOf(Written) /\ Send(u, {}, <<>>, <<a>>)
    BY <1>1, <1>2 DEF PeopleChanged, EventsOf
  <2> HIDE DEF a, e
  <2>2. down'[v] = IF v = u THEN Append(down[v], a) ELSE down[v]
    BY <2>1, Sent
  <2> QED
    BY <2>2 DEF a
<1>4. CASE v = u
  <2>1. down'[u] = Append(down[u], Answer(m, TRUE, r)) /\ UNCHANGED <<Own(u), author, notes>>
    BY <1>1, <1>3, <1>4 DEF Serving
  <2> QED
    BY <1>1, <1>4, <2>1, CreateView DEF Serving
<1>5. CASE v # u
  <2>1. /\ members[r] = {} /\ v \notin members'[r]
        /\ \A x \in Room \ {r} : members'[x] = members[x] /\ notes'[x] = notes[x]
        /\ \A x \in Room : state[x] # "None" => state'[x] # "None"
    BY <1>1, <1>5 DEF RoomInv, Sessions, ClosedWhenEmpty, Open
  <2>2. UNCHANGED <<Own(v), up[v], down[v], author>> /\ notes[r] \subseteq notes'[r]
    BY <1>1, <1>3, <1>5 DEF Serving
  <2> QED
    BY <2>1, <2>2, ApartView
<1> QED
  BY <1>4, <1>5

\* What joins and leaves do to a reader who did not ask for them.
LEMMA PeopleChangeView ==
  ASSUME RoomInv, NEW u \in User, NEW v \in User, ViewInv(v), v # u, NEW m,
         Serving(u, v, m), NEW r \in Room, NEW P \in SUBSET User,
         v \in P <=> v \in members[r],
         members' = [members EXCEPT ![r] = P], notes' = notes,
         \A x \in Room : state[x] # "None" => state'[x] # "None",
         down'[v] = IF v \in P THEN Append(down[v], PeopleChanged(r, P)) ELSE down[v]
  PROVE  ViewInv(v)'
<1>1. CASE v \in P
  <2>1. UNCHANGED <<Own(v), up[v], author, notes>>
    BY DEF Serving
  <2> QED
    BY <1>1, <2>1, HearsPeople
<1>2. CASE v \notin P
  <2>1. /\ v \notin members[r] /\ v \notin members'[r]
        /\ \A x \in Room \ {r} : members'[x] = members[x] /\ notes'[x] = notes[x]
    BY <1>2 DEF RoomInv, Sessions
  <2>2. UNCHANGED <<Own(v), up[v], down[v], author>> /\ notes[r] \subseteq notes'[r]
    BY <1>2 DEF Serving
  <2> QED
    BY <2>1, <2>2, ApartView
<1> QED
  BY <1>1, <1>2

\* A request that changes no session is not seen by others.
LEMMA AsideView ==
  ASSUME RoomInv, NEW u \in User, NEW v \in User, ViewInv(v), v # u, NEW m,
         Serving(u, v, m), UNCHANGED serverVars, down'[v] = down[v]
  PROVE  ViewInv(v)'
<1>1. UNCHANGED <<up[v], down[v], posted[v], calls[v], current[v], people[v], shown[v]>>
  BY DEF Serving, Own
<1>2. \A n \in Written : author'[n] = author[n]
  BY DEF Serving
<1> QED
  BY <1>1, <1>2, Unseen

LEMMA ServeJoinView ==
  ASSUME RoomInv, NEW u \in User, NEW v \in User, ViewInv(v),
         NEW m \in RequestsOf(Written), Serving(u, v, m), m.op = "join", m.room \in Room,
         JoinSession(u, m)
  PROVE  ViewInv(v)'
<1> DEFINE r == m.room
           P == members[r] \cup {u}
           e == PeopleChanged(r, P)
           a == [Answer(m, TRUE, r) EXCEPT !.people = P]
           refusal == Answer(m, FALSE, r)
<1>1. /\ P \in SUBSET User /\ u \in P /\ e \in EventsOf(Written)
      /\ a \in RepliesOf(Written) /\ refusal \in RepliesOf(Written)
  <2>1. P \in SUBSET User
    BY DEF RoomInv, Sessions
  <2>2. e \in EventsOf(Written)
    BY <2>1 DEF PeopleChanged, EventsOf
  <2> HIDE DEF P
  <2>3. a \in RepliesOf(Written) /\ refusal \in RepliesOf(Written)
    BY <2>1, AnswerFacts
  <2> QED
    BY <2>1, <2>2, <2>3 DEF P
<1>2. CASE r \in Open
  <2>1. /\ members' = [members EXCEPT ![r] = P]
        /\ state' = IF u \in members[r] THEN state ELSE [state EXCEPT ![r] = "Active"]
        /\ Send(u, P, <<e>>, <<a>>)
        /\ notes' = notes
    BY <1>2 DEF JoinSession
  <2>2. state[r] # "None" /\ \A x \in Room : state[x] # "None" => state'[x] # "None"
    BY <1>2, <2>1 DEF RoomInv, Sessions, Open
  <2>3. v # u => (v \in P <=> v \in members[r])
    OBVIOUS
  <2> HIDE DEF P, e, a
  <2>4. LET d == IF v \in P THEN Append(down[v], e) ELSE down[v]
        IN  down'[v] = IF v = u THEN Append(d, a) ELSE d
    BY <1>1, <2>1, Sent
  <2>5. CASE v = u
    <3>1. down'[u] = Append(Append(down[u], e), a)
      BY <1>1, <2>4, <2>5
    <3>2. UNCHANGED <<Own(u), author, notes>> /\ Taken(u, m)
      BY <2>1, <2>5 DEF Serving
    <3> QED
      BY <1>1, <2>1, <2>2, <2>5, <3>1, <3>2, JoinedView DEF e, a
  <2>6. CASE v # u
    <3>1. down'[v] = IF v \in P THEN Append(down[v], PeopleChanged(r, P)) ELSE down[v]
      BY <2>4, <2>6 DEF e
    <3> QED
      BY <1>1, <2>1, <2>2, <2>3, <2>6, <3>1, PeopleChangeView
  <2> QED
    BY <2>5, <2>6
<1>3. CASE r \notin Open
  <2>1. Send(u, {}, <<>>, <<refusal>>) /\ UNCHANGED serverVars
    BY <1>3 DEF JoinSession
  <2> HIDE DEF P, e, a, refusal
  <2>2. down'[v] = IF v = u THEN Append(down[v], refusal) ELSE down[v]
    BY <1>1, <2>1, Sent
  <2>3. CASE v = u
    <3>1. down'[u] = Append(down[u], Answer(m, FALSE, m.room))
      BY <2>2, <2>3 DEF refusal
    <3>2. UNCHANGED <<Own(u), author>> /\ Taken(u, m) /\ UNCHANGED <<state, members, notes>>
      BY <2>1, <2>3 DEF Serving, serverVars
    <3> QED
      BY <2>3, <3>1, <3>2, NotJoinedView
  <2>4. CASE v # u
    BY <2>1, <2>2, <2>4, AsideView
  <2> QED
    BY <2>3, <2>4
<1> QED
  BY <1>2, <1>3

LEMMA ServeLeaveView ==
  ASSUME RoomInv, NEW u \in User, NEW v \in User, ViewInv(v),
         NEW m \in RequestsOf(Written), Serving(u, v, m), m.op = "leave", m.room \in Room,
         LeaveSession(u, m)
  PROVE  ViewInv(v)'
<1> DEFINE r == m.room
           P == members[r] \ {u}
           e == PeopleChanged(r, P)
           a == Answer(m, TRUE, r)
<1>1. P \in SUBSET User /\ e \in EventsOf(Written) /\ a \in RepliesOf(Written)
  <2>1. P \in SUBSET User
    BY DEF RoomInv, Sessions
  <2>2. e \in EventsOf(Written)
    BY <2>1 DEF PeopleChanged, EventsOf
  <2> QED
    BY <2>1, <2>2, AnswerFacts
<1>2. /\ members' = [members EXCEPT ![r] = P]
      /\ state' = IF P = {} THEN [state EXCEPT ![r] = "Closed"] ELSE state
      /\ Send(u, P, <<e>>, <<>>) /\ notes' = notes
  BY DEF LeaveSession
<1>3. /\ \A x \in Room : state[x] # "None" => state'[x] # "None"
      /\ u \notin P /\ (v # u => (v \in P <=> v \in members[r]))
  BY <1>2 DEF RoomInv, Sessions
<1> HIDE DEF P, e, a
<1>4. down'[v] = IF v \in P THEN Append(down[v], e) ELSE down[v]
  BY <1>1, <1>2, Sent
<1>5. CASE v = u
  <2>1. /\ UNCHANGED <<Own(u), author, notes, down[u]>> /\ Taken(u, m)
        /\ members' = [members EXCEPT ![r] = @ \ {u}]
    BY <1>2, <1>3, <1>4, <1>5 DEF Serving, P
  <2> QED
    BY <1>3, <1>5, <2>1, LeftView
<1>6. CASE v # u
  <2>1. down'[v] = IF v \in P THEN Append(down[v], PeopleChanged(r, P)) ELSE down[v]
    BY <1>4 DEF e
  <2> QED
    BY <1>1, <1>2, <1>3, <1>6, <2>1, PeopleChangeView
<1> QED
  BY <1>5, <1>6

LEMMA ServeAddView ==
  ASSUME RoomInv, NEW u \in User, NEW v \in User, ViewInv(u), ViewInv(v),
         NEW m \in RequestsOf(Written), Serving(u, v, m), m.op = "add", m.room \in Room,
         AddNoteToSession(u, m)
  PROVE  ViewInv(v)'
<1> DEFINE r == m.room
<1>1. PICK n \in Note : m.note = {n} /\ author[n] = u
  <2>1. m = up[u][1] /\ 1 \in DOMAIN up[u]
    BY Asked DEF Serving
  <2> QED
    BY <2>1 DEF ViewInv, Heard
<1>2. n \in Written
  BY <1>1, StudyRoomAssumption DEF Written
<1> DEFINE e == [kind |-> "note", room |-> r, note |-> n]
           a == Answer(m, TRUE, r)
<1>3. e \in EventsOf(Written) /\ a \in RepliesOf(Written)
  BY <1>2, AnswerFacts DEF EventsOf
<1>4. /\ notes' = [notes EXCEPT ![r] = @ \cup {n}]
      /\ Send(u, members[r], <<e>>, <<>>)
      /\ state' = state /\ members' = members
  <2>1. (CHOOSE k \in m.note : TRUE) = n
    BY <1>1
  <2> QED
    BY <1>1, <2>1 DEF AddNoteToSession
<1> HIDE DEF e, a
<1>5. down'[v] = IF v \in members[r] THEN Append(down[v], e) ELSE down[v]
  <2> DEFINE to == members[r]
  <2>1. Send(u, to, <<e>>, <<>>)
    BY <1>4
  <2> HIDE DEF to
  <2>2. down'[v] = IF v \in to THEN Append(down[v], e) ELSE down[v]
    BY <1>3, <2>1, Sent
  <2> QED
    BY <2>2 DEF to
<1>6. CASE v = u
  <2>1. /\ UNCHANGED <<Own(u), author>> /\ Taken(u, m)
        /\ down'[u] = down[u]
            \/ down'[u] = Append(down[u], [kind |-> "note", room |-> r, note |-> n])
    BY <1>5, <1>6 DEF Serving, e
  <2> QED
    BY <1>1, <1>2, <1>4, <1>6, <2>1, AddedView
<1>7. CASE v # u
  <2>1. UNCHANGED <<Own(v), up[v], author>> /\ author[n] # v
    BY <1>1, <1>7 DEF Serving
  <2>2. CASE v \in members[r]
    <3>1. down'[v] = Append(down[v], [kind |-> "note", room |-> r, note |-> n])
      BY <1>5, <2>2 DEF e
    <3> QED
      BY <1>2, <1>4, <2>1, <2>2, <3>1, HearsNote
  <2>3. CASE v \notin members[r]
    <3>1. /\ \A x \in Room \ {r} : members'[x] = members[x] /\ notes'[x] = notes[x]
          /\ notes[r] \subseteq notes'[r] /\ v \notin members'[r]
          /\ \A x \in Room : state[x] # "None" => state'[x] # "None"
      BY <1>4, <2>3 DEF RoomInv, Sessions
    <3>2. UNCHANGED <<Own(v), up[v], down[v], author>>
      BY <1>5, <2>1, <2>3
    <3> QED
      BY <2>3, <3>1, <3>2, ApartView
  <2> QED
    BY <2>2, <2>3
<1> QED
  BY <1>6, <1>7

LEMMA ServeNotesView ==
  ASSUME RoomInv, NEW u \in User, NEW v \in User, ViewInv(v),
         NEW m \in RequestsOf(Written), Serving(u, v, m), m.op = "notes", m.room \in Room,
         NotesForSession(u, m)
  PROVE  ViewInv(v)'
<1> DEFINE a == [Answer(m, TRUE, m.room) EXCEPT !.notes = notes[m.room]]
           e == PeopleChanged(m.room, {})
<1>1. a \in RepliesOf(Written) /\ e \in EventsOf(Written)
  <2>1. notes[m.room] \in SUBSET Written
    BY ViewTypes
  <2> QED
    BY <2>1, AnswerFacts DEF PeopleChanged, EventsOf
<1>2. Send(u, {}, <<>>, <<a>>) /\ UNCHANGED serverVars
  BY DEF NotesForSession
<1> HIDE DEF a, e
<1>3. down'[v] = IF v = u THEN Append(down[v], a) ELSE down[v]
  BY <1>1, <1>2, Sent
<1>4. CASE v = u
  <2>1. /\ UNCHANGED <<Own(u), author>> /\ Taken(u, m) /\ UNCHANGED <<state, members, notes>>
    BY <1>2, <1>4 DEF Serving, serverVars
  <2>2. down'[u] = Append(down[u], [Answer(m, TRUE, m.room) EXCEPT !.notes = notes[m.room]])
    BY <1>3, <1>4 DEF a
  <2> QED
    BY <1>4, <2>1, <2>2, NotesView
<1>5. CASE v # u
  BY <1>2, <1>3, <1>5, AsideView
<1> QED
  BY <1>4, <1>5

LEMMA ServeView ==
  ASSUME RoomInv, NEW u \in User, NEW v \in User, ViewInv(u), ViewInv(v), Serve(u)
  PROVE  ViewInv(v)'
<1> DEFINE m == Head(up[u])
<1>1. m \in RequestsOf(Written)
  BY ViewTypes, PopTold DEF Serve
<1>2. Serving(u, v, m)
  BY DEF Serve, Serving, Taken, Own, viewVars, RoomInv, Queues
<1>3. \/ m.op = "create" /\ CreateSession(u, m)
      \/ m.op = "join" /\ JoinSession(u, m)
      \/ m.op = "leave" /\ LeaveSession(u, m)
      \/ m.op = "add" /\ AddNoteToSession(u, m)
      \/ m.op = "notes" /\ NotesForSession(u, m)
  BY DEF Serve
<1>4. m.op # "create" => m.room \in Room
  BY <1>1 DEF RequestsOf
<1> HIDE DEF m
<1>5. CASE m.op = "create" /\ CreateSession(u, m)
  BY <1>1, <1>2, <1>5, ServeCreateView
<1>6. CASE m.op = "join" /\ JoinSession(u, m)
  BY <1>1, <1>2, <1>4, <1>6, ServeJoinView
<1>7. CASE m.op = "leave" /\ LeaveSession(u, m)
  BY <1>1, <1>2, <1>4, <1>7, ServeLeaveView
<1>8. CASE m.op = "add" /\ AddNoteToSession(u, m)
  BY <1>1, <1>2, <1>4, <1>8, ServeAddView
<1>9. CASE m.op = "notes" /\ NotesForSession(u, m)
  BY <1>1, <1>2, <1>4, <1>9, ServeNotesView
<1> QED
  BY <1>3, <1>5, <1>6, <1>7, <1>8, <1>9

-----------------------------------------------------------------------------
(* What a reader does, seen by himself and by the others.                  *)

LEMMA ActsView ==
  ASSUME RoomInv, NEW u \in User, ViewInv(u), ~ Reentrant, ~ MayTimeOut,
         \/ CreateRoom(u) \/ (\E r \in Room : JoinRoom(u, r)) \/ LeaveRoom(u)
         \/ (\E n \in Note : AddNote(u, n)) \/ EventLoop(u)
  PROVE  ViewInv(u)'
<1>1. CASE CreateRoom(u)
  <2>1. Begin(u, "create", NoRoom) /\ calls[u] = <<>>
    BY <1>1 DEF CreateRoom, Begin, MayAct
  <2> QED
    BY <2>1, BeginView
<1>2. ASSUME NEW r \in Room, JoinRoom(u, r) PROVE ViewInv(u)'
  <2>1. Begin(u, "join", r) /\ calls[u] = <<>>
    BY <1>2 DEF JoinRoom, Begin, MayAct
  <2> QED
    BY <2>1, BeginView
<1>3. CASE LeaveRoom(u)
  BY <1>3, LeaveView DEF LeaveRoom, MayAct
<1>4. ASSUME NEW n \in Note, AddNote(u, n) PROVE ViewInv(u)'
  BY <1>4, AddNoteView DEF AddNote, MayAct
<1>5. CASE EventLoop(u)
  BY <1>5, ReceiveView, HandleView, ReturnCreateView, ReturnJoinView, ReturnNotesView,
     FailView DEF EventLoop
<1> QED
  BY <1>1, <1>2, <1>3, <1>4, <1>5

LEMMA OthersActView ==
  ASSUME RoomInv, NEW u \in User, NEW v \in User, v # u, ViewInv(v),
         \/ CreateRoom(u) \/ (\E r \in Room : JoinRoom(u, r)) \/ LeaveRoom(u)
         \/ (\E n \in Note : AddNote(u, n)) \/ EventLoop(u)
  PROVE  ViewInv(v)'
<1>1. CASE \/ CreateRoom(u) \/ (\E r \in Room : JoinRoom(u, r)) \/ LeaveRoom(u)
           \/ (\E n \in Note : AddNote(u, n))
  <2>1. /\ UNCHANGED <<up[v], down[v], posted[v], calls[v], current[v], people[v], shown[v]>>
        /\ UNCHANGED serverVars
    <3> USE DEF serverVars, viewVars, RoomInv, Queues, Views
    <3>1. CASE CreateRoom(u) \/ \E r \in Room : JoinRoom(u, r)
      BY <3>1 DEF CreateRoom, JoinRoom, Begin
    <3>2. CASE LeaveRoom(u)
      BY <3>2 DEF LeaveRoom
    <3>3. CASE \E n \in Note : AddNote(u, n)
      BY <3>3 DEF AddNote
    <3> QED
      BY <1>1, <3>1, <3>2, <3>3
  <2>2. \A n \in Written : author'[n] = author[n]
    <3>1. CASE UNCHANGED author
      BY <3>1
    <3>2. CASE \E n \in Note : AddNote(u, n)
      BY <3>2 DEF AddNote, Written
    <3> QED
      BY <1>1, <3>1, <3>2 DEF CreateRoom, JoinRoom, LeaveRoom, Begin
  <2> QED
    BY <2>1, <2>2, Unseen
<1>2. CASE EventLoop(u)
  <2>1. UNCHANGED serverVars /\ author' = author
    BY <1>2 DEF EventLoop, Receive, Handle, ReturnCreate, ReturnJoin, ReturnNotes, Fail
  <2>2. UNCHANGED <<up[v], down[v], posted[v], calls[v], current[v], people[v], shown[v]>>
    <3> USE DEF viewVars, RoomInv, Queues, Views
    <3>1. CASE Receive(u)
      BY <3>1 DEF Receive
    <3>2. CASE Handle(u)
      BY <3>2 DEF Handle, ShowNote
    <3>3. CASE ReturnCreate(u) \/ ReturnJoin(u)
      BY <3>3 DEF ReturnCreate, ReturnJoin, GoOn
    <3>4. CASE ReturnNotes(u)
      BY <3>4 DEF ReturnNotes, Finish
    <3>5. CASE Fail(u)
      BY <3>5 DEF Fail, Finish
    <3> QED
      BY <1>2, <3>1, <3>2, <3>3, <3>4, <3>5 DEF EventLoop
  <2> QED
    BY <2>1, <2>2, Unseen
<1> QED
  BY <1>1, <1>2

-----------------------------------------------------------------------------
ViewsInv == RoomInv /\ \A u \in User : ViewInv(u)

LEMMA InitViews == Init => \A u \in User : ViewInv(u)
<1> SUFFICES ASSUME Init, NEW u \in User PROVE ViewInv(u)
  OBVIOUS
<1>1. /\ calls[u] = <<>> /\ up[u] = <<>> /\ down[u] = <<>> /\ posted[u] = <<>>
      /\ current[u] = NoRoom /\ \A r \in Room : members[r] = {} /\ notes[r] = {}
  BY DEF Init
<1>2. DOMAIN up[u] = {} /\ DOMAIN down[u] = {} /\ Len(calls[u]) = 0
  BY <1>1
<1>3. InStep(u) /\ Belongs(u) /\ RepliesTrue(u)
  BY <1>1, <1>2 DEF InStep, Belongs, RepliesTrue, Told, Fetching, Quiet
<1>4. Heard(u) /\ PeopleTold(u) /\ NotesShown(u)
  BY <1>1, <1>2, NothingTold DEF Heard, PeopleTold, NotesShown
<1> QED
  BY <1>3, <1>4 DEF ViewInv

LEMMA ViewStep ==
  ASSUME ~ Reentrant, ~ MayTimeOut, ViewsInv, [Next]_vars
  PROVE  ViewsInv'
<1>1. RoomInv /\ RoomInv'
  BY RoomStep DEF ViewsInv
<1> SUFFICES ASSUME NEW v \in User PROVE ViewInv(v)'
  BY <1>1 DEF ViewsInv
<1>2. \A u \in User : ViewInv(u)
  BY DEF ViewsInv
<1>3. ASSUME NEW u \in User,
             \/ CreateRoom(u) \/ (\E r \in Room : JoinRoom(u, r)) \/ LeaveRoom(u)
             \/ (\E n \in Note : AddNote(u, n)) \/ EventLoop(u)
      PROVE  ViewInv(v)'
  BY <1>1, <1>2, <1>3, ActsView, OthersActView
<1>4. ASSUME NEW u \in User, Serve(u) PROVE ViewInv(v)'
  BY <1>1, <1>2, <1>4, ServeView
<1>5. CASE UNCHANGED vars
  <2>1. /\ UNCHANGED <<up[v], down[v], posted[v], calls[v], current[v], people[v], shown[v]>>
        /\ UNCHANGED serverVars /\ \A n \in Written : author'[n] = author[n]
    BY <1>5 DEF vars, viewVars
  <2> QED
    BY <1>1, <1>2, <2>1, Unseen
<1> QED
  BY <1>3, <1>4, <1>5 DEF Next

LEMMA ViewsAlways ==
  ASSUME ~ Reentrant, ~ MayTimeOut
  PROVE  Spec => []ViewsInv
<1>1. Init => ViewsInv
  BY InitRoomInv, InitViews DEF ViewsInv
<1>2. ViewsInv /\ [Next]_vars => ViewsInv'
  BY ViewStep
<1> QED
  BY <1>1, <1>2, PTL DEF Spec

\* While readers wait for their calls and no request times out, a client that has
\* settled in a room shows exactly the room's notes, for any readers, rooms and
\* notes: whatever events were posted before the history came, and in whatever
\* order notes, joins and leaves of the others crossed on their way.
THEOREM PanelsAreComplete ==
  ASSUME ~ Reentrant, ~ MayTimeOut
  PROVE  Spec => []PanelComplete
<1>1. ViewsInv => PanelComplete
  <2> SUFFICES ASSUME ViewsInv, NEW u \in User, Settled(u), current[u] # NoRoom
               PROVE  shown[u] = Once(notes[current[u]])
    BY DEF PanelComplete
  <2> DEFINE r == current[u]
  <2>1. /\ RoomInv /\ ViewInv(u) /\ ~ Fetching(u) /\ up[u] = <<>> /\ down[u] = <<>>
        /\ posted[u] = <<>>
    BY DEF ViewsInv, Settled, Fetching
  <2>2. Has(u) = notes[r]
    BY <2>1, NothingTold DEF ViewInv, NotesShown
  <2>3. shown[u] \in [Note -> {0, 1}]
    BY <2>1 DEF RoomInv, Views, Panels
  <2> QED
    BY <2>2, <2>3 DEF Has, Once
<1> QED
  BY <1>1, ViewsAlways, PTL

\* In the same setting, a client that has settled in a room is one of its
\* participants and shows all of them.
THEOREM ParticipantsAreShown ==
  ASSUME ~ Reentrant, ~ MayTimeOut
  PROVE  Spec => []ParticipantsAgree
<1>1. ViewsInv => ParticipantsAgree
  <2> SUFFICES ASSUME ViewsInv, NEW u \in User, Settled(u), current[u] # NoRoom
               PROVE  u \in members[current[u]] /\ people[u] = members[current[u]]
    BY DEF ParticipantsAgree
  <2>1. ViewInv(u) /\ down[u] = <<>> /\ posted[u] = <<>>
    BY DEF ViewsInv, Settled
  <2> QED
    BY <2>1, NothingTold DEF ViewInv, Belongs, PeopleTold
<1> QED
  BY <1>1, ViewsAlways, PTL

=============================================================================
