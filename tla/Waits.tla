-------------------------------- MODULE Waits --------------------------------
(***************************************************************************)
(* NetworkService::sendRequest as the services of a shell use it. A request *)
(* waits for its reply in an event loop of its own. In that loop the user's *)
(* next command, a timer or an event may start another request; the one    *)
(* that came last returns first, whatever the order of the replies.        *)
(***************************************************************************)
EXTENDS Integers, Sequences, FiniteSets, SequencesExt

CONSTANTS
  Shells,          \* the parts of the client looked at, each on its own
  MaxCalls,        \* bound: commands, timers and readings that start requests
  MaxDepth,        \* bound: requests that wait at a time
  MaxFaults,       \* bound: requests given up and connections lost
  MaxChanges       \* bound: changes others make at the server

ASSUME WaitsAssumption ==
  /\ MaxCalls \in [Shells -> Nat] /\ MaxDepth \in [Shells -> Nat]
  /\ MaxFaults \in Nat /\ MaxChanges \in Nat

VARIABLES
  shell,       \* the part looked at
  session,     \* the connection has a session at the server
  stack,       \* requests that wait, innermost last
  wire,        \* requests on their way, with the place of the one that waits
  hot,         \* signals have just been emitted: their bindings are re-read
  calls, faults, changes

waits == <<session, stack, wire, hot, calls, faults, changes>>

-----------------------------------------------------------------------------
None == [is |-> "none"]
Failed == [is |-> "no"]
Ok(x) == [is |-> "ok", data |-> x]

WaitsInit ==
  /\ shell \in Shells
  /\ session = TRUE /\ stack = <<>> /\ wire = <<>> /\ hot = FALSE
  /\ calls = 0 /\ faults = 0 /\ changes = 0

AtRest == stack = <<>> /\ wire = <<>>

Innermost == Last(stack)
Under == Front(stack)
Got == Innermost.got.data
Worked == Innermost.got.is = "ok"
Returned(op) == stack # <<>> /\ Innermost.op = op /\ Innermost.got # None
Waiting(op) == \E i \in DOMAIN stack : stack[i].op = op

\* The innermost event loop runs until its reply has come.
Dispatching == stack # <<>> => Innermost.got = None

\* A binding reads when the loop runs, or at once when it is signalled.
Reading == (Dispatching \/ hot) /\ calls < MaxCalls[shell] /\ calls' = calls + 1
Command == Dispatching /\ calls < MaxCalls[shell] /\ calls' = calls + 1

\* sendRequest, for the operation op. What it has come to hold, arg and then got,
\* is old when the server has moved on since.
SendOn(s, op, do, arg, old) ==
  /\ stack' = Append(s, [op |-> op, do |-> do, arg |-> arg, got |-> None, old |-> old])
  /\ wire' = Append(wire, [do |-> do, arg |-> arg, depth |-> Len(s) + 1])
  /\ hot' = FALSE /\ UNCHANGED <<session, faults, changes>>

Shallow == Len(stack) < MaxDepth[shell]
Send(op, do, arg) == Shallow /\ SendOn(stack, op, do, arg, FALSE)

\* The code after a request sends the next one.
SendNext(op, do, arg, old) == SendOn(Under, op, do, arg, old) /\ UNCHANGED calls

\* It returns, and has emitted signals or not.
Ends(signals) ==
  /\ stack' = Under /\ hot' = signals
  /\ UNCHANGED <<session, wire, calls, faults, changes>>

Idle == UNCHANGED <<session, stack, wire, faults, changes>>

\* The server takes the next request.
Asked(do) == wire # <<>> /\ Head(wire).do = do
Late == Head(wire).depth = 0
Arg == Head(wire).arg

ReplyTo(s, r) ==
  /\ wire' = Tail(wire)
  /\ stack' = IF Late THEN s ELSE [s EXCEPT ![Head(wire).depth].got = r]
  /\ UNCHANGED <<session, hot, calls, faults, changes>>

Refuse == ReplyTo(stack, Failed)
Answer(x) == ReplyTo(stack, IF session THEN Ok(x) ELSE Failed)

\* Another client changes something at the server.
Elsewhere(s) ==
  /\ changes < MaxChanges /\ changes' = changes + 1
  /\ stack' = s /\ UNCHANGED <<session, wire, hot, calls, faults>>

\* The wait ends without a reply; the server serves the request yet.
TimesOut(i) ==
  /\ stack[i].got = None /\ faults < MaxFaults /\ faults' = faults + 1
  /\ stack' = [stack EXCEPT ![i].got = Failed]
  /\ wire' = [w \in DOMAIN wire |->
                IF wire[w].depth = i THEN [wire[w] EXCEPT !.depth = 0] ELSE wire[w]]
  /\ UNCHANGED <<session, hot, calls, changes>>

\* The connection is lost with what was on its way; the next has no session.
Lose ==
  /\ session /\ faults < MaxFaults /\ faults' = faults + 1
  /\ session' = FALSE /\ wire' = <<>>
  /\ stack' = [i \in DOMAIN stack |-> IF stack[i].got = None
                                      THEN [stack[i] EXCEPT !.got = Failed] ELSE stack[i]]
  /\ UNCHANGED <<hot, calls, changes>>
=============================================================================
