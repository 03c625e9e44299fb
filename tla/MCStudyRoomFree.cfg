SPECIFICATION Spec
CONSTANTS
  leila = leila
  omid = omid
  r1 = r1
  r2 = r2
  n1 = n1
  n2 = n2
  NoUser = NoUser
  NoRoom = NoRoom
  User <- MCUser
  Room <- MCOneRoom
  Note <- MCNote
  Reentrant = TRUE
  MayTimeOut = TRUE
  MaxCalls = 1
INVARIANTS
  PanelSound
  ClosedWhenEmpty
CHECK_DEADLOCK FALSE
SYMMETRY MCNoteSymmetry
