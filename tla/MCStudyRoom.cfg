SPECIFICATION Spec
CONSTANTS
  leila = leila
  omid = omid
  r1 = r1
  r2 = r2
  n1 = n1
  n2 = n2
  NoUser = NoUser
  NoRoom = NoRoom
  User <- MCUser
  Room <- MCOneRoom
  Note <- MCOneNote
  Reentrant = FALSE
  MayTimeOut = FALSE
  MaxCalls = 2
INVARIANTS
  PanelComplete
  ParticipantsAgree
CHECK_DEADLOCK FALSE
SYMMETRY MCSymmetry
