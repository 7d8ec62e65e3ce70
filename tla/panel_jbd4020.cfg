\* The right and the left driver, bound and unbound again and again.
CONSTANTS
  MaxFaults = 2
  MaxPolls = 3
  MaxRefs = 2
SPECIFICATION FairSpec
INVARIANTS
  JbdTypeOK
  AveeOnInitialised
  SupplyOrder
  BoundHasPanel
  BoundIsConfigured
  UnboundIsDark
PROPERTIES
  OffsetsFromFlash
  ProbeEnds
