SPECIFICATION ShopSpec
CONSTANTS
  ann = ann
  bob = bob
  b1 = b1
  b2 = b2
  Nobody = Nobody
  Users = {ann, bob}
  Books = {b1}
  Browsed = {b2}
  Shelved = b1
  Wishlist = 4
  NewNames = {6}
  MaxShelves = 3
  MaxCalls = 3
  MaxDepth = 2
  MaxFaults = 1
  NoBook = NoBook
INVARIANTS
  LibraryShown
  HeartsAgree
  MovesLoseNothing
  CartsAgree
  PageAgrees
SYMMETRY Readers
CHECK_DEADLOCK FALSE
