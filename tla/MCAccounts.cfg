SPECIFICATION Spec
CONSTANTS
  ann = ann
  pia = pia
  p1 = p1
  p2 = p2
  Nobody = Nobody
  User = {ann, pia}
  Publishers = {pia}
  Password = {p1, p2}
  MaxFaults = 1
  MaxWire = 2
  MaxCalls = 4
  MaxDepth = 2
INVARIANTS
  SessionAgrees
  SavedOpensAccount
  
PROPERTIES
  RegistrationKept
SYMMETRY Passwords
