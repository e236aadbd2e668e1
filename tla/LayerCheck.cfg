SPECIFICATION Spec
CONSTANTS
  Targets = {"projection", "front", "attention", "full"}
  Kinds = {"off"}
  MaxFaults = 2
INVARIANTS
  VerdictIsExact
PROPERTIES
  RerunsChangeNothing
CHECK_DEADLOCK FALSE
