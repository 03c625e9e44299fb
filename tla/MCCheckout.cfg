SPECIFICATION Spec
CONSTANTS
  reza = reza
  mina = mina
  b1 = b1
  b2 = b2
  NoUser = NoUser
  User <- MCUser
  Seeded <- MCSeeded
  SeededSales <- MCSeededSales
  SeededNotices <- MCSeededNotices
  Book <- MCBook
  Faults = FALSE
  MaxOrders = 2
INVARIANTS
  SalesMatchOrders
  ConfirmedPurchasesDurable
  NoticesBacked
PROPERTIES
  PurchasesAreAtomic
