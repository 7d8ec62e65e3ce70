\* Gamma 1.0 is chosen, then the panel goes through a power cycle.
CONSTANTS
  t1 = t1
  t2 = t2
  MaxFaults = 0
  ParamWrites = FALSE
  CallerOrdered = TRUE
  TableChunks = 2
  Threads <- OneThread
  Handlers <- GammaOnly
  Discipline = "serial"
SPECIFICATION SysSpec
INVARIANT GammaValueIsLoaded
