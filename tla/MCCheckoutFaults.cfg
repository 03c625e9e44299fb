SPECIFICATION Spec
CONSTANTS
  reza = reza
  mina = mina
  b1 = b1
  b2 = b2
  NoUser = NoUser
  User <- MCOneUser
  Seeded <- MCSeeded
  SeededSales <- MCSeededSales
  SeededNotices <- MCSeededNotices
  Book <- MCBook
  Faults = TRUE
  MaxOrders = 2
INVARIANTS
  DuplicatesOnlyFromLeftovers
