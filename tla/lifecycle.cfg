\* Two user threads while a driver is bound and unbound.
CONSTANTS
  t1 = t1
  t2 = t2
  NoThread = NoThread
  MaxFailures = 2
  Threads <- TwoThreads
SPECIFICATION FairSpec
INVARIANTS
  LifeTypeOK
  CleanRemove
  ReleasesWhatItHas
  NodeServesLiveContext
  AveeNeedsRest
PROPERTY IoctlEnds
