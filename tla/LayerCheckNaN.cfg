SPECIFICATION Spec
CONSTANTS
  Targets = {"full"}
  Kinds = {"nan"}
  MaxFaults = 1
INVARIANTS
  Validated
CHECK_DEADLOCK FALSE
