\* The DRM callbacks in the order of the DRM core, with transfer failures.
CONSTANTS
  MaxFaults <- FaultBound
  ParamWrites = TRUE
  CallerOrdered = TRUE
SPECIFICATION FairSpec
INVARIANTS
  TypeOK
  EmitOnlyWhenChecked
  ReturnsAllOrNothing
  EmitOnInitialisedPanels
  EnabledOnlyLit
  EnabledAgrees
PROPERTIES
  PowerSequence
  PrepareOutcome
