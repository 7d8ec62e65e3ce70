\* Two threads that do not disturb each other; and one at a time, with faults.
CONSTANTS
  t1 = t1
  t2 = t2
  Threads <- TwoThreads
  Scenarios <- QuietScenarios
SPECIFICATION Spec
SYMMETRY Symmetry
INVARIANTS
  AttrTypeOK
  FieldsFollowRequests
  SetupSurvives
