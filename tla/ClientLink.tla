----------------------------- MODULE ClientLink -----------------------------
(***************************************************************************)
(* One client's link to the server: NetworkService over                    *)
(* ClientNetworkManager, the packet parser, and the server's end.          *)
(* sendRequest waits in an event loop of its own; while it waits the user  *)
(* interface goes on and can start another one, which then must return     *)
(* first. Replies are routed by request id, events have no request.        *)
(***************************************************************************)
EXTENDS Integers, Sequences, FiniteSets, SequencesExt

CONSTANTS
  Sync,         \* calls of sendRequest, by request id
  Async,        \* calls of sendRequestAsync
  Cast,         \* calls of sendAsync
  MaxEvents,    \* bound: events the server pushes
  MaxLosses     \* bound: connections lost

Call == Sync \cup Async \cup Cast
NoAnswer == "none"

ASSUME LinkAssumption ==
  /\ Sync \cap Async = {} /\ Sync \cap Cast = {} /\ Async \cap Cast = {}
  /\ NoAnswer \notin Call
  /\ MaxEvents \in Nat /\ MaxLosses \in Nat

VARIABLES
  serverUp,     \* the server is listening
  sock,         \* state of m_socket: "down", "connecting" or "up"
  hostKnown,    \* m_host is set: there has been a connectToServer
  timer,        \* m_reconnectTimer is running
  outbox,       \* requests on their way
  inbox,        \* replies and events on their way
  parser,       \* m_packetParser: "clean", "cut" or "deaf"
  started,      \* calls made
  stack,        \* calls of sendRequest that wait, the innermost last
  quit,         \* those whose loop has been told to quit
  answer,       \* by call, the request its reply was for
  handlers,     \* m_responseHandlers
  armed,        \* calls of sendRequestAsync whose timeout has not fired
  fired,        \* those whose flag fired is set
  posted,       \* callbacks in the event queue, by call
  ran,          \* callbacks run, by call
  pushed,       \* events sent
  losses,
  alive,        \* history: calls sent over the present connection
  refused       \* history: the last attempt to connect failed

net  == <<serverUp, sock, hostKnown, timer, losses, refused>>
wire == <<outbox, inbox, parser, alive, pushed>>
sync == <<stack, quit>>
late == <<armed, fired, posted, ran>>
vars == <<net, wire, sync, late, started, answer, handlers>>

-----------------------------------------------------------------------------
Reply(c) == [kind |-> "reply", to |-> c]
Event == [kind |-> "event"]
Up == sock = "up"

Waiting == {c \in ToSet(stack) : answer[c] = NoAnswer}
Pending == {c \in Async \cap started : c \in armed /\ c \notin fired}

\* Packets and requests of a call that are under way.
Under(c) == Cardinality({i \in DOMAIN outbox : outbox[i] = c})
            + Cardinality({i \in DOMAIN inbox : inbox[i] = Reply(c)})

Init ==
  /\ serverUp \in BOOLEAN
  /\ sock = "down" /\ hostKnown = FALSE /\ timer = FALSE
  /\ outbox = <<>> /\ inbox = <<>> /\ parser = "clean" /\ alive = {}
  /\ started = {} /\ stack = <<>> /\ quit = {} /\ handlers = {}
  /\ answer = [c \in Call |-> NoAnswer]
  /\ armed = {} /\ fired = {}
  /\ posted = [c \in Async |-> 0] /\ ran = [c \in Async |-> 0]
  /\ pushed = 0 /\ losses = 0 /\ refused = FALSE

-----------------------------------------------------------------------------
(* The connection.                                                         *)

\* onConnected; the server's end is new, the client's parser is not.
OnConnected == sock' = "up" /\ timer' = FALSE /\ refused' = FALSE

\* An attempt that fails: onError with m_connected false schedules nothing, and
\* an attempt given up after half a second reports no error at all.
OnConnectError == sock' = "down" /\ refused' = TRUE /\ UNCHANGED timer

\* connectToServer: connectToHost and half a second of patience; refused or
\* too slow, the attempt is over when waitForConnected returns.
ConnectToServer ==
  /\ hostKnown' = TRUE
  /\ \/ Up /\ UNCHANGED <<sock, timer, refused>>
     \/ ~ Up /\ serverUp /\ OnConnected
     \/ ~ Up /\ OnConnectError
  /\ UNCHANGED <<serverUp, losses>>

\* The attempt that onReconnectTimeout began succeeds or fails.
Connect ==
  /\ sock = "connecting"
  /\ IF serverUp THEN OnConnected ELSE OnConnectError
  /\ UNCHANGED <<serverUp, hostKnown, losses, wire, sync, late, started, answer,
                 handlers>>

\* onReconnectTimeout
OnReconnectTimeout ==
  /\ timer
  /\ IF sock = "down"
     THEN sock' = "connecting" /\ timer' = FALSE
     ELSE UNCHANGED <<sock, timer>>
  /\ UNCHANGED <<serverUp, hostKnown, losses, refused, wire, sync, late, started,
                 answer, handlers>>

OnDisconnectedUnscheduled ==
  /\ sock' = "down" /\ UNCHANGED timer
  /\ outbox' = <<>> /\ inbox' = <<>> /\ alive' = {}
  /\ parser' \in IF parser = "clean" /\ inbox # <<>> THEN {"clean", "cut"} ELSE {parser}
  /\ UNCHANGED <<hostKnown, refused, pushed, late, sync, started, answer, handlers>>

\* onDisconnected, onError with m_connected true. What was under way is lost,
\* a packet perhaps in the middle: its first part stays in m_buffer.
OnDisconnected ==
  /\ sock' = "down" /\ timer' = hostKnown
  /\ outbox' = <<>> /\ inbox' = <<>> /\ alive' = {}
  /\ parser' \in IF parser = "clean" /\ inbox # <<>> THEN {"clean", "cut"} ELSE {parser}
  /\ UNCHANGED <<hostKnown, refused, pushed, late, sync, started, answer, handlers>>

Lose ==
  /\ Up /\ losses < MaxLosses /\ losses' = losses + 1
  /\ serverUp' \in BOOLEAN
  /\ OnDisconnected

\* The server stops while nobody is connected, or starts.
ServerStops ==
  /\ serverUp /\ ~ Up /\ losses < MaxLosses
  /\ losses' = losses + 1 /\ serverUp' = FALSE
  /\ UNCHANGED <<sock, hostKnown, timer, refused, wire, sync, late, started, answer,
                 handlers>>

ServerStarts ==
  /\ ~ serverUp /\ serverUp' = TRUE
  /\ UNCHANGED <<sock, hostKnown, timer, refused, losses, wire, sync, late, started,
                 answer, handlers>>

-----------------------------------------------------------------------------
(* Calls.                                                                  *)

\* sendMessage
SendMessage(c) ==
  /\ outbox' = Append(outbox, c)
  /\ alive' = alive \cup {c}
  /\ UNCHANGED <<inbox, parser, pushed>>

\* sendRequest, up to loop.exec(); without a connection it returns at once.
SendRequest(c) ==
  /\ c \notin started /\ started' = started \cup {c}
  /\ ConnectToServer
  /\ IF sock' = "up"
     THEN /\ handlers' = handlers \cup {c}
          /\ SendMessage(c)
          /\ stack' = Append(stack, c)
     ELSE UNCHANGED <<handlers, wire, stack>>
  /\ UNCHANGED <<quit, late, answer>>

RequestTimesOutInnermost(c) ==
  /\ stack # <<>> /\ c = Last(stack) /\ c \notin quit /\ Up
  /\ quit' = quit \cup {c}
  /\ UNCHANGED <<net, wire, stack, late, started, answer, handlers>>

\* The timeout of a call quits its loop, whichever loop is running.
RequestTimesOut(c) ==
  /\ c \in ToSet(stack) \ quit
  /\ quit' = quit \cup {c}
  /\ UNCHANGED <<net, wire, stack, late, started, answer, handlers>>

\* exec() of the innermost loop returns. Without a reply the handler is taken
\* back; a reply that came after the timeout, while an inner call held this
\* one up, still counts.
Return ==
  /\ stack # <<>> /\ Last(stack) \in quit
  /\ stack' = Front(stack)
  /\ handlers' = IF answer[Last(stack)] = NoAnswer
                 THEN handlers \ {Last(stack)} ELSE handlers
  /\ UNCHANGED <<net, wire, quit, late, started, answer>>

\* sendAsync: the server answers, and nobody waits for it.
SendAsync(c) ==
  /\ c \notin started /\ started' = started \cup {c}
  /\ IF Up THEN SendMessage(c) ELSE UNCHANGED wire
  /\ UNCHANGED <<net, sync, late, answer, handlers>>

Post(c) == posted' = [posted EXCEPT ![c] = @ + 1]

SendRequestAsyncQuietly(c) ==
  /\ c \notin started /\ started' = started \cup {c}
  /\ ConnectToServer
  /\ IF sock' = "up"
     THEN /\ handlers' = handlers \cup {c} /\ armed' = armed \cup {c}
          /\ SendMessage(c)
     ELSE UNCHANGED <<handlers, wire, armed>>
  /\ UNCHANGED <<sync, fired, posted, ran, answer>>

\* sendRequestAsync
SendRequestAsync(c) ==
  /\ c \notin started /\ started' = started \cup {c}
  /\ ConnectToServer
  /\ IF sock' = "up"
     THEN /\ handlers' = handlers \cup {c} /\ armed' = armed \cup {c}
          /\ SendMessage(c)
          /\ UNCHANGED posted
     ELSE Post(c) /\ UNCHANGED <<handlers, wire, armed>>
  /\ UNCHANGED <<sync, fired, ran, answer>>

\* Its timeout fires, after the reply too.
AsyncTimesOut(c) ==
  /\ c \in armed /\ armed' = armed \ {c}
  /\ IF c \in fired
     THEN UNCHANGED <<fired, handlers, posted>>
     ELSE fired' = fired \cup {c} /\ handlers' = handlers \ {c} /\ Post(c)
  /\ UNCHANGED <<net, wire, sync, ran, started, answer>>

RunCallback(c) ==
  /\ posted[c] > 0
  /\ posted' = [posted EXCEPT ![c] = @ - 1]
  /\ ran' = [ran EXCEPT ![c] = @ + 1]
  /\ UNCHANGED <<net, wire, sync, armed, fired, started, answer, handlers>>

-----------------------------------------------------------------------------
(* The server's end: one request at a time, in order of arrival.           *)

ServeDroppingCasts ==
  /\ Up /\ outbox # <<>>
  /\ outbox' = Tail(outbox)
  /\ inbox' = IF Head(outbox) \in Sync THEN Append(inbox, Reply(Head(outbox))) ELSE inbox
  /\ UNCHANGED <<net, parser, alive, pushed, sync, late, started, answer, handlers>>

\* RequestRouter::handleRequest: the handler's reply echoes the request id.
Serve ==
  /\ Up /\ outbox # <<>>
  /\ outbox' = Tail(outbox)
  /\ inbox' = Append(inbox, Reply(Head(outbox)))
  /\ UNCHANGED <<net, parser, alive, pushed, sync, late, started, answer, handlers>>

Push ==
  /\ Up /\ pushed < MaxEvents /\ pushed' = pushed + 1
  /\ inbox' = Append(inbox, Event)
  /\ UNCHANGED <<net, outbox, parser, alive, sync, late, started, answer, handlers>>

-----------------------------------------------------------------------------
(* What arrives.                                                           *)

RouteToLatest(c) ==
  IF handlers = {} THEN UNCHANGED <<answer, handlers, quit, fired, posted>>
  ELSE LET h == IF stack # <<>> /\ Last(stack) \in handlers
                THEN Last(stack) ELSE CHOOSE d \in handlers : TRUE
       IN /\ answer' = [answer EXCEPT ![h] = c] /\ handlers' = handlers \ {h}
          /\ quit' = IF h \in Sync THEN quit \cup {h} ELSE quit
          /\ fired' = IF h \in Async THEN fired \cup {h} ELSE fired
          /\ IF h \in Async THEN Post(h) ELSE UNCHANGED posted

\* routeResponse: a handler is used once; without one the reply is dropped.
RouteResponse(c) ==
  IF c \notin handlers THEN UNCHANGED <<answer, handlers, quit, fired, posted>>
  ELSE /\ answer' = [answer EXCEPT ![c] = c] /\ handlers' = handlers \ {c}
       /\ quit' = IF c \in Sync THEN quit \cup {c} ELSE quit
       /\ fired' = IF c \in Async THEN fired \cup {c} ELSE fired
       /\ IF c \in Async THEN Post(c) ELSE UNCHANGED posted

\* processPendingPackets. After a packet cut short the parser takes the head
\* of the next stream for the rest of it and reads a length from the middle
\* of some text: no packet comes out of it again.
Deliver ==
  /\ Up /\ inbox # <<>>
  /\ inbox' = Tail(inbox)
  /\ parser' = IF parser = "clean" THEN "clean" ELSE "deaf"
  /\ IF parser = "clean" /\ Head(inbox) # Event
     THEN RouteResponse(Head(inbox).to)
     ELSE UNCHANGED <<answer, handlers, quit, fired, posted>>
  /\ UNCHANGED <<net, outbox, alive, pushed, stack, armed, ran, started>>

-----------------------------------------------------------------------------
Next ==
  \/ Connect \/ OnReconnectTimeout \/ Lose \/ ServerStops \/ ServerStarts
  \/ \E c \in Sync : SendRequest(c) \/ RequestTimesOut(c)
  \/ \E c \in Cast : SendAsync(c)
  \/ \E c \in Async : SendRequestAsync(c) \/ AsyncTimesOut(c) \/ RunCallback(c)
  \/ Return \/ Serve \/ Push \/ Deliver

Spec == Init /\ [][Next]_vars

\* Timers fire, a loop told to quit returns, posted callbacks run, the network
\* and the server get on with what they have, and a stopped server is started
\* again. Nobody has to make a call.
FairSpec ==
  /\ Spec
  /\ WF_vars(Connect) /\ WF_vars(OnReconnectTimeout) /\ WF_vars(ServerStarts)
  /\ WF_vars(Return) /\ WF_vars(Serve) /\ WF_vars(Deliver)
  /\ \A c \in Sync : WF_vars(RequestTimesOut(c))
  /\ \A c \in Async : WF_vars(AsyncTimesOut(c)) /\ WF_vars(RunCallback(c))

-----------------------------------------------------------------------------
TypeOK ==
  /\ serverUp \in BOOLEAN /\ sock \in {"down", "connecting", "up"}
  /\ hostKnown \in BOOLEAN /\ timer \in BOOLEAN /\ refused \in BOOLEAN
  /\ Range(outbox) \subseteq Call
  /\ Range(inbox) \subseteq {Event} \cup {Reply(c) : c \in Call}
  /\ parser \in {"clean", "cut", "deaf"} /\ alive \subseteq started
  /\ started \subseteq Call /\ Range(stack) \subseteq Sync \cap started
  /\ IsInjective(stack) /\ quit \subseteq Sync
  /\ answer \in [Call -> {NoAnswer} \cup Call] /\ handlers \subseteq started
  /\ armed \subseteq Async /\ fired \subseteq Async
  /\ posted \in [Async -> Nat] /\ ran \in [Async -> Nat]
  /\ pushed \in 0 .. MaxEvents /\ losses \in 0 .. MaxLosses

\* A response handler is registered for exactly the calls that can still use
\* it: it holds references into the frame of a sendRequest that waits, and a
\* late reply must find none once that has returned.
HandlersAreWaiting == handlers = Waiting \cup Pending

\* A call gets the reply to its own request, whatever calls of the same
\* command wait beside it.
OwnReply == \A c \in Call : answer[c] \in {NoAnswer, c}

\* The callback of an asynchronous request is not called twice, by the reply
\* and by the timeout that comes after it.
CallbackOnce == \A c \in Async : posted[c] + ran[c] <= 1

\* Whatever is lost, late or cut off, every reply that is delivered goes to the
\* call it answers, once, and to nothing that has gone.
RepliesDelivered == TypeOK /\ HandlersAreWaiting /\ OwnReply /\ CallbackOnce

\* The request of a call that still waits is under way exactly once: as long
\* as its connection lives and the parser is in step its reply will come.
AnswerUnderWay ==
  \A c \in (Waiting \cup Pending) \cap alive :
    parser = "clean" => Under(c) = 1

\* A client that has lost its connection is about to try again, unless its
\* last try was refused.
RetryScheduled == hostKnown /\ sock = "down" => timer \/ refused

\* Every waiting call returns, though calls made while it waited come first.
CallsReturn == \A c \in Sync : c \in ToSet(stack) ~> c \notin ToSet(stack)

\* Every asynchronous request has its callback run.
CallbackRuns == \A c \in Async : c \in started ~> ran[c] = 1

\* The comment at the end of onReconnectTimeout: the attempt it begins succeeds,
\* or onError schedules another one, until the server is found again.
KeepsTrying == sock = "connecting" ~> Up
=============================================================================
