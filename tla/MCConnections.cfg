SPECIFICATION RegistrySpec
CONSTANTS
  root = root
  eve = eve
  ann = ann
  c1 = c1
  c2 = c2
  c3 = c3
  NoUser = NoUser
  NoConn = NoConn
  User <- MCUser
  Admins <- MCAdmins
  Seeded <- MCSeeded
  Conn <- MCConn
INVARIANTS
  RouteSound
  SoleSessionReachable
  BlockedSoleSessionTold
PROPERTIES
  IdentityOnlyForActive
