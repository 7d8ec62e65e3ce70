\* A test pattern, then a Demura table, one after the other.
CONSTANTS
  t1 = t1
  t2 = t2
  MaxFaults = 0
  ParamWrites = FALSE
  CallerOrdered = TRUE
  TableChunks = 2
  Threads <- OneThread
  Handlers <- BistAndTable
  Discipline = "serial"
SPECIFICATION SysSpec
INVARIANT BistInCommandMode
