SPECIFICATION Spec
CONSTANTS
  pia = pia
  ann = ann
  Nobody = Nobody
  publisher = pia
  reader = ann
  MaxBooks = 2
  MaxSales = 2
  MaxCalls = 3
  MaxDepth = 2
  MaxFaults = 1
INVARIANTS
  NoTitleLost
  DeskAgrees
  FeedAgrees
CHECK_DEADLOCK FALSE
