-------------------------------- MODULE Shells --------------------------------
(***************************************************************************)
(* The parts of the QML client whose lists are kept over nested waits, each *)
(* with its service, its view model and the handlers behind them, on one   *)
(* connection. A behaviour is of one part; they share only how they wait.   *)
(***************************************************************************)
EXTENDS Moderator, Monitor, Reader, Home, Search

otherThanHome == <<shell, moderatorVars, monitorVars, readerVars, searchVars>>
vars == <<waits, otherThanHome, homeVars>>

Init == WaitsInit /\ ModeratorInit /\ MonitorInit /\ ReaderInit /\ HomeInit /\ SearchInit

-----------------------------------------------------------------------------
Moderate ==
  /\ shell = "moderator" /\ (ModeratorClient \/ ModeratorServer)
  /\ UNCHANGED <<shell, monitorVars, readerVars, homeVars, searchVars>>

Watch ==
  /\ shell = "monitor" /\ MonitorNext
  /\ UNCHANGED <<shell, moderatorVars, readerVars, homeVars, searchVars>>

\* One AdminService keeps the lists and the figures.
AdminRefresh ==
  /\ shell \in {"moderator", "monitor"} /\ Command /\ RefreshLists /\ RefreshFigures
  /\ hot' = TRUE /\ UNCHANGED <<session, wire, faults, changes>>
  /\ UNCHANGED <<shell, readerVars, homeVars, searchVars>>

Read ==
  /\ shell = "reader" /\ ReaderNext
  /\ UNCHANGED <<shell, moderatorVars, monitorVars, homeVars, searchVars>>

Browse == shell = "home" /\ HomeNext /\ UNCHANGED otherThanHome

Find ==
  /\ shell = "search" /\ SearchNext
  /\ UNCHANGED <<shell, moderatorVars, monitorVars, readerVars, homeVars>>

\* Events are lost with the connection.
Disconnect ==
  /\ Lose /\ events' = <<>> /\ UNCHANGED otherThanHome
  /\ UNCHANGED <<offers, bought, caches, list, phase, told, off>>

GiveUp == (\E i \in DOMAIN stack : TimesOut(i)) /\ UNCHANGED <<otherThanHome, homeVars>>

Next == Moderate \/ Watch \/ AdminRefresh \/ Read \/ Browse \/ Find \/ Disconnect \/ GiveUp

Spec == Init /\ [][Next]_vars
=============================================================================
