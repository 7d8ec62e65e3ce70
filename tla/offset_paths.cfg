\* OFFSET_SET and FLIP_SET by ioctl.
CONSTANTS
  t1 = t1
  t2 = t2
  NoThread = NoThread
  Threads <- TwoThreads
  Scenarios <- OffsetCommands
SPECIFICATION Spec
INVARIANT PathsAgree
