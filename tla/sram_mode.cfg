\* Two threads each write a Demura table while the display is on.
CONSTANTS
  t1 = t1
  t2 = t2
  MaxFaults = 0
  ParamWrites = FALSE
  CallerOrdered = TRUE
  TableChunks = 2
  Threads <- TwoThreads
  Handlers <- TableOnly
  Discipline = "enabled"
SPECIFICATION SysSpec
INVARIANT SramWriteInCommandMode
