\* ioctl of both drivers next to each other, attributes one at a time.
CONSTANTS
  t1 = t1
  t2 = t2
  NoThread = NoThread
  Threads <- TwoThreads
  Scenarios <- QuietScenarios
SPECIFICATION FairSpec
INVARIANTS
  I2cTypeOK
  SettingsFollowRequests
  GetsReadOneMoment
  SuccessIsComplete
  AddrIsBroadcast
PROPERTIES
  OnlyNamedFieldsChange
  IoctlReturns
