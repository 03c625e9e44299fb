------------------------------- MODULE Monitor -------------------------------
(***************************************************************************)
(* The figures an administrator watches: AdminService's audit log and      *)
(* system health, ServerService's health, logs and clients, and the server *)
(* handlers they come from.                                                *)
(***************************************************************************)
EXTENDS Waits

VARIABLES
  figures,     \* the server's figures, by how often they have changed
  panel,       \* what is kept of each, 0 for nothing, and whether it is valid
  since,       \* history: the figures when each service was last refreshed
  outrun       \* history: panels kept from a reply that came before the refresh

monitorVars == <<figures, panel, since, outrun>>

-----------------------------------------------------------------------------
Eager == {"auditLog", "systemHealth"}        \* valid from when it is asked for
Lazy == {"health", "logs", "clients"}        \* valid once the reply is kept
Panels == Eager \cup Lazy

Topic(p) == CASE p \in {"auditLog", "logs"} -> "logs"
              [] p \in {"systemHealth", "health"} -> "health"
              [] OTHER -> "clients"

MonitorInit ==
  /\ figures = 1 /\ outrun = {} /\ since = [admin |-> 1, server |-> 1]
  /\ panel = [p \in Panels |-> [seen |-> 0, clean |-> FALSE]]

\* The replies that have come for some panels are from before a refresh.
Overrun(ps) ==
  [i \in DOMAIN stack |->
     IF stack[i].op \in {"panel", "refresh"} /\ stack[i].arg.panel \in ps
        /\ stack[i].got # None
     THEN [stack[i] EXCEPT !.old = TRUE] ELSE stack[i]]

Invalid(ps) == [p \in Panels |-> IF p \in ps THEN [panel[p] EXCEPT !.clean = FALSE]
                                 ELSE panel[p]]

-----------------------------------------------------------------------------
(* The server: ServerInfoRequestHandler.                                   *)

HandleGetServerFigures(topic) == Asked(topic) /\ Answer(figures) /\ UNCHANGED monitorVars

\* BlockUser with the id of a connection: no such user, and success.
HandleKick == Asked("kick") /\ Answer(0) /\ UNCHANGED monitorVars

FiguresChange ==
  /\ Elsewhere(stack) /\ figures' = figures + 1 /\ UNCHANGED <<panel, since, outrun>>

-----------------------------------------------------------------------------
(* The services.                                                           *)

ReadPanel(p) ==
  /\ Reading /\ ~ panel[p].clean /\ Send("panel", Topic(p), [panel |-> p])
  /\ panel' = [panel EXCEPT ![p].clean = p \in Eager]
  /\ UNCHANGED <<figures, since, outrun>>

KeepReply(p) ==
  /\ panel' = [panel EXCEPT ![p] = [seen |-> Got, clean |-> @.clean \/ p \in Lazy]]
  /\ outrun' = IF Innermost.old THEN outrun \cup {p} ELSE outrun \ {p}

PanelReturns ==
  /\ Returned("panel") /\ Ends(FALSE) /\ UNCHANGED <<figures, since>>
  /\ LET p == Innermost.arg.panel
     IN IF Worked THEN KeepReply(p)
        ELSE /\ UNCHANGED outrun
             /\ panel' = CASE p = "auditLog" -> [panel EXCEPT ![p].seen = 0]
                           [] p = "systemHealth" -> Invalid({p})
                           [] OTHER -> panel

\* AdminService::refresh, as far as the figures go.
RefreshFigures ==
  /\ panel' = Invalid(Eager) /\ since' = [since EXCEPT !.admin = figures]
  /\ stack' = Overrun(Eager) /\ UNCHANGED <<figures, outrun>>

RefreshKeepingHealth ==
  /\ Command /\ Shallow
  /\ panel' = Invalid({"logs", "clients"}) /\ since' = [since EXCEPT !.server = figures]
  /\ SendOn(Overrun(Lazy), "refresh", "logs", [panel |-> "logs"], FALSE)
  /\ UNCHANGED <<figures, outrun>>

\* ServerService::refresh asks for the logs and then for the clients.
RefreshServer ==
  /\ Command /\ Shallow
  /\ panel' = Invalid(Lazy) /\ since' = [since EXCEPT !.server = figures]
  /\ SendOn(Overrun(Lazy), "refresh", "logs", [panel |-> "logs"], FALSE)
  /\ UNCHANGED <<figures, outrun>>

RefreshReturns ==
  /\ Returned("refresh") /\ UNCHANGED <<figures, since>>
  /\ IF Worked THEN KeepReply(Innermost.arg.panel) ELSE UNCHANGED <<panel, outrun>>
  /\ IF Innermost.arg.panel = "logs"
     THEN SendNext("refresh", "clients", [panel |-> "clients"], FALSE)
     ELSE Ends(TRUE)

\* The logs page is emptied until the next refresh.
ClearLogs ==
  /\ Command /\ panel' = [panel EXCEPT !["logs"] = [seen |-> 0, clean |-> TRUE]]
  /\ outrun' = outrun \ {"logs"} /\ hot' = TRUE /\ Idle /\ UNCHANGED <<figures, since>>

DisconnectClient == Command /\ Send("kick", "kick", <<>>) /\ UNCHANGED monitorVars

KickReturns ==
  /\ Returned("kick") /\ Ends(Worked) /\ UNCHANGED <<figures, since, outrun>>
  /\ panel' = IF Worked THEN Invalid({"clients"}) ELSE panel

-----------------------------------------------------------------------------
MonitorNext ==
  \/ \E p \in Panels : ReadPanel(p)
  \/ PanelReturns \/ RefreshServer \/ RefreshReturns \/ ClearLogs
  \/ DisconnectClient \/ KickReturns
  \/ \E topic \in {"logs", "health", "clients"} : HandleGetServerFigures(topic)
  \/ HandleKick \/ FiguresChange

-----------------------------------------------------------------------------
\* Once nothing is under way, a panel that counts as valid is empty or shows the
\* server's figures from after the last refresh of its service, whatever readings
\* and refreshes overlapped in nested waits. The exception is a panel whose fetch
\* held its reply already when the refresh came: the older reply is kept last and
\* counts as fresh.
FiguresFresh ==
  AtRest => \A p \in Panels :
              \/ ~ panel[p].clean \/ panel[p].seen = 0 \/ p \in outrun
              \/ panel[p].seen >= since[IF p \in Eager THEN "admin" ELSE "server"]
=============================================================================
