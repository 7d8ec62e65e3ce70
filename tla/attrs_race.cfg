\* flip and mirror at the same time.
CONSTANTS
  t1 = t1
  t2 = t2
  Threads <- TwoThreads
  Scenarios <- Race
SPECIFICATION Spec
INVARIANT FieldsFollowRequests
