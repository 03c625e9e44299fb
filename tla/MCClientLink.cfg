SPECIFICATION FairSpec
CONSTANTS
  c1 = c1
  c2 = c2
  a1 = a1
  k1 = k1
  Sync = {c1, c2}
  Async = {a1}
  Cast = {k1}
  MaxEvents = 1
  MaxLosses = 1
INVARIANTS
  RepliesDelivered
  AnswerUnderWay
  RetryScheduled
PROPERTIES
  CallsReturn
  CallbackRuns
CHECK_DEADLOCK FALSE
