\* One attribute at a time while the display is on.
CONSTANTS
  t1 = t1
  t2 = t2
  MaxFaults = 2
  ParamWrites = FALSE
  CallerOrdered = TRUE
  Threads <- OneThread
  Handlers <- ModeHandlers
  Discipline = "serial"
  TableChunks = 2
SPECIFICATION SysFairSpec
INVARIANTS
  SysTypeOK
  SramWriteInCommandMode
  ContextAgrees
  VideoKeepsLoading
PROPERTY
  TableEndRestoresVideo
