\* Bringing the panel up with no failure at all.
CONSTANTS
  MaxFaults <- NoFaults
  ParamWrites = FALSE
  CallerOrdered = TRUE
SPECIFICATION Spec
INVARIANT DisplayOnlyWithAvee
