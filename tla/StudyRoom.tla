----------------------------- MODULE StudyRoom -----------------------------
(***************************************************************************)
(* Group reading: the rooms kept by StudySessionManager and the view of    *)
(* one room kept by each client's StudySessionViewModel, with the socket   *)
(* and the Qt event queue between them.                                    *)
(*                                                                         *)
(* Three queues carry a client's traffic, each in order: its requests      *)
(* (up), what the server sends (down), and the handlers of server events   *)
(* that NetworkService::subscribeEvent has posted to the event loop        *)
(* (posted).  A reply is not posted: it reaches at once the sendRequest    *)
(* that waits for it, and can so overtake events received before it.       *)
(*                                                                         *)
(* sendRequest waits in a nested QEventLoop, so the user may click while a *)
(* request is out, and start a second one.  The second returns first: the  *)
(* waiting calls of a client are a stack.  The reply to the innermost call  *)
(* quits its event loop: the call returns before any other event is        *)
(* handled.                                                                *)
(*                                                                         *)
(* Every user has one connection; which of two would be reached is the     *)
(* subject of Connections.                                                 *)
(***************************************************************************)
EXTENDS Naturals, Sequences, FiniteSets, SequencesExt

CONSTANTS
  User, Room, Note,
  NoUser, NoRoom,
  Reentrant,   \* whether a user acts while one of his requests is out
  MayTimeOut,  \* whether a request may time out
  MaxCalls     \* bound: createRoom and joinRoom calls of one user

ASSUME StudyRoomAssumption ==
  /\ NoUser \notin User
  /\ NoRoom \notin Room
  /\ Reentrant \in BOOLEAN
  /\ MayTimeOut \in BOOLEAN
  /\ MaxCalls \in Nat

VARIABLES
  state,      \* StudySession::state; "None" before the session exists
  members,    \* participantUserIds
  notes,      \* the notes of each session
  up, down, posted,
  calls,      \* each client's stack of waiting calls
  made,       \* calls each client has made, the source of request ids
  current,    \* m_currentRoomId
  people,     \* m_participants
  shown,      \* m_notes: how many copies of each note the panel shows
  author      \* who wrote a note; NoUser while nobody has

serverVars == <<state, members, notes>>
viewVars == <<current, people, shown>>
vars == <<serverVars, up, down, posted, calls, made, viewVars, author>>

Open == {r \in Room : state[r] \in {"Created", "Active"}}

Reply == [kind : {"reply"}, id : Nat, ok : BOOLEAN, room : Room \cup {NoRoom},
          people : SUBSET User, notes : SUBSET Note]
NoReply == [kind |-> "none"]
Event == [kind : {"note"}, room : Room, note : Note]
         \cup [kind : {"people"}, room : Room, people : SUBSET User]
Request == [op : {"create", "join", "notes", "leave", "add"}, id : Nat,
            room : Room \cup {NoRoom}, note : SUBSET Note]
Call == [id : Nat, step : {"create"}, room : {NoRoom}, reply : Reply \cup {NoReply}]
        \cup [id : Nat, step : {"join", "notes"}, room : Room,
               reply : Reply \cup {NoReply}]

TypeOK ==
  /\ state \in [Room -> {"None", "Created", "Active", "Closed"}]
  /\ members \in [Room -> SUBSET User]
  /\ notes \in [Room -> SUBSET Note]
  /\ \A u \in User :
       /\ \A i \in DOMAIN up[u] : up[u][i] \in Request
       /\ \A i \in DOMAIN down[u] : down[u][i] \in Reply \cup Event
       /\ \A i \in DOMAIN posted[u] : posted[u][i] \in Event
       /\ \A i \in DOMAIN calls[u] : calls[u][i] \in Call
  /\ made \in [User -> 0 .. MaxCalls]
  /\ current \in [User -> Room \cup {NoRoom}]
  /\ people \in [User -> SUBSET User]
  /\ shown \in [User -> [Note -> Nat]]
  /\ author \in [Note -> User \cup {NoUser}]

Init ==
  /\ state = [r \in Room |-> "None"]
  /\ members = [r \in Room |-> {}]
  /\ notes = [r \in Room |-> {}]
  /\ up = [u \in User |-> <<>>]
  /\ down = [u \in User |-> <<>>]
  /\ posted = [u \in User |-> <<>>]
  /\ calls = [u \in User |-> <<>>]
  /\ made = [u \in User |-> 0]
  /\ current = [u \in User |-> NoRoom]
  /\ people = [u \in User |-> {}]
  /\ shown = [u \in User |-> [n \in Note |-> 0]]
  /\ author = [n \in Note |-> NoUser]

-----------------------------------------------------------------------------
(* The user: createRoom, joinRoom, leaveRoom, addNote.                     *)

\* Only the innermost call can return; once it has its reply, it does so first.
Innermost(u) == Last(calls[u])
Looping(u) == calls[u] # <<>> => Innermost(u).reply = NoReply

MayAct(u) == calls[u] # <<>> => Reentrant /\ Looping(u)

\* The copies of a panel that shows every note of S once.
Once(S) == [n \in Note |-> IF n \in S THEN 1 ELSE 0]

\* Request ids: each call sends at most three requests.
RequestId(call) ==
  3 * call.id + (IF call.step = "create" THEN 0 ELSE IF call.step = "join" THEN 1 ELSE 2)

RequestOf(call) ==
  [op |-> call.step, id |-> RequestId(call), room |-> call.room, note |-> {}]

\* sendRequest: send, then wait in a new event loop.
Begin(u, step, r) ==
  LET call == [id |-> made[u], step |-> step, room |-> r, reply |-> NoReply] IN
  /\ MayAct(u)
  /\ made[u] < MaxCalls
  /\ made' = [made EXCEPT ![u] = @ + 1]
  /\ calls' = [calls EXCEPT ![u] = Append(@, call)]
  /\ up' = [up EXCEPT ![u] = Append(@, RequestOf(call))]
  /\ UNCHANGED <<serverVars, down, posted, viewVars, author>>

\* Bound: Room holds an unused id for every create that is on its way.
Creating == UNION {{<<u, i>> : i \in {j \in DOMAIN up[u] : up[u][j].op = "create"}} :
                   u \in User}

CreateRoom(u) ==
  /\ Cardinality(Creating) < Cardinality({r \in Room : state[r] = "None"})
  /\ Begin(u, "create", NoRoom)

\* The list the user picks from may be old: the room may have been closed.
JoinRoom(u, r) == state[r] # "None" /\ Begin(u, "join", r)

LeaveRoom(u) ==
  /\ MayAct(u)
  /\ current[u] # NoRoom
  /\ up' = [up EXCEPT ![u] =
       Append(@, [op |-> "leave", id |-> 0, room |-> current[u], note |-> {}])]
  /\ current' = [current EXCEPT ![u] = NoRoom]
  /\ people' = [people EXCEPT ![u] = {}]
  /\ shown' = [shown EXCEPT ![u] = Once({})]
  /\ UNCHANGED <<serverVars, down, posted, calls, made, author>>

AddNote(u, n) ==
  /\ MayAct(u)
  /\ current[u] # NoRoom
  /\ author[n] = NoUser
  /\ author' = [author EXCEPT ![n] = u]
  /\ shown' = [shown EXCEPT ![u][n] = @ + 1]
  /\ up' = [up EXCEPT ![u] =
       Append(@, [op |-> "add", id |-> 0, room |-> current[u], note |-> {n}])]
  /\ UNCHANGED <<serverVars, down, posted, calls, made, current, people>>

-----------------------------------------------------------------------------
(* The client's event loop.                                                *)

\* onReadyRead: a reply goes to the call that waits for it, if any still
\* does; the handler of an event is posted.
Receive(u) ==
  /\ Looping(u)
  /\ down[u] # <<>>
  /\ down' = [down EXCEPT ![u] = Tail(@)]
  /\ LET m == Head(down[u]) IN
     IF m.kind = "reply"
     THEN /\ calls' = [calls EXCEPT ![u] = [i \in DOMAIN @ |->
                IF RequestId(@[i]) = m.id THEN [@[i] EXCEPT !.reply = m] ELSE @[i]]]
          /\ UNCHANGED posted
     ELSE /\ posted' = [posted EXCEPT ![u] = Append(@, m)]
          /\ UNCHANGED calls
  /\ UNCHANGED <<serverVars, up, made, viewVars, author>>

\* The handlers of EvtStudyNote and EvtStudyParticipantChanged.  A note of the
\* user's own is skipped, and so is one the panel has already.
ShowNoteAgain(u, n) ==
  IF author[n] = u THEN shown ELSE [shown EXCEPT ![u][n] = @ + 1]

ShowNote(u, n) ==
  IF author[n] = u \/ shown[u][n] > 0 THEN shown ELSE [shown EXCEPT ![u][n] = @ + 1]

Handle(u) ==
  /\ Looping(u)
  /\ posted[u] # <<>>
  /\ posted' = [posted EXCEPT ![u] = Tail(@)]
  /\ LET m == Head(posted[u])
         mine == m.room = current[u]
     IN /\ shown' = IF mine /\ m.kind = "note" THEN ShowNote(u, m.note) ELSE shown
        /\ people' = IF mine /\ m.kind = "people" THEN [people EXCEPT ![u] = m.people]
                     ELSE people
  /\ UNCHANGED <<serverVars, up, down, calls, made, current, author>>

\* The call goes on with its next request.
GoOn(u, step, r) ==
  LET call == [id |-> Innermost(u).id, step |-> step, room |-> r, reply |-> NoReply] IN
  /\ calls' = [calls EXCEPT ![u] = Append(Front(@), call)]
  /\ up' = [up EXCEPT ![u] = Append(@, RequestOf(call))]

Finish(u) == calls' = [calls EXCEPT ![u] = Front(@)] /\ UNCHANGED up

Answered(u, step, ok) ==
  /\ calls[u] # <<>>
  /\ Innermost(u).step = step
  /\ Innermost(u).reply # NoReply
  /\ Innermost(u).reply.ok = ok

ReturnCreate(u) ==
  /\ Answered(u, "create", TRUE)
  /\ GoOn(u, "join", Innermost(u).reply.room)
  /\ UNCHANGED <<serverVars, down, posted, made, viewVars, author>>

\* joinRoom enters the room on the reply, then asks for its notes.
ReturnJoin(u) ==
  /\ Answered(u, "join", TRUE)
  /\ current' = [current EXCEPT ![u] = Innermost(u).room]
  /\ people' = [people EXCEPT ![u] = Innermost(u).reply.people]
  /\ GoOn(u, "notes", Innermost(u).room)
  /\ UNCHANGED <<serverVars, down, posted, made, shown, author>>

ReturnNotes(u) ==
  /\ Answered(u, "notes", TRUE)
  /\ shown' = [shown EXCEPT ![u] = Once(Innermost(u).reply.notes)]
  /\ Finish(u)
  /\ UNCHANGED <<serverVars, down, posted, made, current, people, author>>

\* The request is refused, or times out: its reply, if it comes, is dropped.
Fail(u) ==
  /\ calls[u] # <<>>
  /\ (Answered(u, Innermost(u).step, FALSE) \/ (MayTimeOut /\ Looping(u)))
  /\ Finish(u)
  /\ shown' = IF Innermost(u).step = "notes" THEN [shown EXCEPT ![u] = Once({})]
              ELSE shown
  /\ UNCHANGED <<serverVars, down, posted, made, current, people, author>>

-----------------------------------------------------------------------------
(* The server: one request at a time.                                      *)

\* broadcastToSession, then the answer of the handler.
Send(u, to, events, replies) ==
  down' = [v \in User |->
    down[v] \o (IF v \in to THEN events ELSE <<>>)
            \o (IF v = u THEN replies ELSE <<>>)]

Answer(m, ok, r) ==
  [kind |-> "reply", id |-> m.id, ok |-> ok, room |-> r, people |-> {}, notes |-> {}]

PeopleChanged(r, P) == [kind |-> "people", room |-> r, people |-> P]

CreateSession(u, m) ==
  \E r \in Room :
    /\ state[r] = "None"
    /\ state' = [state EXCEPT ![r] = "Created"]
    /\ members' = [members EXCEPT ![r] = {u}]
    /\ Send(u, {}, <<>>, <<Answer(m, TRUE, r)>>)
    /\ UNCHANGED notes

JoinSession(u, m) ==
  LET r == m.room
      P == members[r] \cup {u}
  IN IF r \in Open
     THEN /\ members' = [members EXCEPT ![r] = P]
          /\ state' = IF u \in members[r] THEN state ELSE [state EXCEPT ![r] = "Active"]
          /\ Send(u, P, <<PeopleChanged(r, P)>>,
                  <<[Answer(m, TRUE, r) EXCEPT !.people = P]>>)
          /\ UNCHANGED notes
     ELSE /\ Send(u, {}, <<>>, <<Answer(m, FALSE, r)>>)
          /\ UNCHANGED serverVars

\* The answer to a leave, and to a note, has no handler and is not modelled.
LeaveQuietly(u, m) ==
  LET r == m.room
      P == members[r] \ {u}
  IN /\ members' = [members EXCEPT ![r] = P]
     /\ state' = IF P = {} THEN [state EXCEPT ![r] = "Closed"] ELSE state
     /\ UNCHANGED <<notes, down>>

LeaveOpen(u, m) ==
  LET P == members[m.room] \ {u} IN
  /\ members' = [members EXCEPT ![m.room] = P]
  /\ Send(u, P, <<PeopleChanged(m.room, P)>>, <<>>)
  /\ UNCHANGED <<state, notes>>

LeaveSession(u, m) ==
  LET r == m.room
      P == members[r] \ {u}
  IN /\ members' = [members EXCEPT ![r] = P]
     /\ state' = IF P = {} THEN [state EXCEPT ![r] = "Closed"] ELSE state
     /\ Send(u, P, <<PeopleChanged(r, P)>>, <<>>)
     /\ UNCHANGED notes

AddNoteQuietly(u, m) ==
  /\ notes' = [notes EXCEPT ![m.room] = @ \cup m.note]
  /\ UNCHANGED <<state, members, down>>

\* addNote asks neither for membership nor for an open session.
AddNoteToSession(u, m) ==
  LET r == m.room
      push == [kind |-> "note", room |-> r, note |-> CHOOSE n \in m.note : TRUE]
  IN /\ notes' = [notes EXCEPT ![r] = @ \cup m.note]
     /\ Send(u, members[r], <<push>>, <<>>)
     /\ UNCHANGED <<state, members>>

NotesForSession(u, m) ==
  /\ Send(u, {}, <<>>, <<[Answer(m, TRUE, m.room) EXCEPT !.notes = notes[m.room]]>>)
  /\ UNCHANGED serverVars

Serve(u) ==
  /\ up[u] # <<>>
  /\ up' = [up EXCEPT ![u] = Tail(@)]
  /\ LET m == Head(up[u]) IN
     \/ m.op = "create" /\ CreateSession(u, m)
     \/ m.op = "join" /\ JoinSession(u, m)
     \/ m.op = "leave" /\ LeaveSession(u, m)
     \/ m.op = "add" /\ AddNoteToSession(u, m)
     \/ m.op = "notes" /\ NotesForSession(u, m)
  /\ UNCHANGED <<posted, calls, made, viewVars, author>>

EventLoop(u) ==
  Receive(u) \/ Handle(u) \/ ReturnCreate(u) \/ ReturnJoin(u) \/ ReturnNotes(u) \/ Fail(u)

Next ==
  \E u \in User :
    \/ CreateRoom(u)
    \/ \E r \in Room : JoinRoom(u, r)
    \/ LeaveRoom(u)
    \/ \E n \in Note : AddNote(u, n)
    \/ EventLoop(u)
    \/ Serve(u)

Spec == Init /\ [][Next]_vars

-----------------------------------------------------------------------------
(* Properties.                                                             *)

\* Nothing concerning client u is under way.
Settled(u) ==
  calls[u] = <<>> /\ up[u] = <<>> /\ down[u] = <<>> /\ posted[u] = <<>>

\* The panel never shows a note twice, although a note can reach a client by
\* its own hand, by GetStudyNotes and by an event that was posted before.
NoDuplicateNotes ==
  \A u \in User, n \in Note : shown[u][n] <= 1

\* What the queues, the stacks of calls and the panels hold is well formed, and
\* no panel shows a note twice, through timeouts and late replies.
PanelSound == TypeOK /\ NoDuplicateNotes

\* A session is open exactly while it has participants, whatever joins, leaves
\* and timed-out requests of several readers cross on their way.
ClosedWhenEmpty ==
  \A r \in Room : r \in Open <=> members[r] # {}

\* A client that has settled in a room shows exactly the room's notes.
PanelComplete ==
  \A u \in User : Settled(u) /\ current[u] # NoRoom =>
     shown[u] = Once(notes[current[u]])

\* A client that has settled in a room is one of its participants and shows
\* all of them.
ParticipantsAgree ==
  \A u \in User : Settled(u) /\ current[u] # NoRoom =>
     u \in members[current[u]] /\ people[u] = members[current[u]]
=============================================================================
