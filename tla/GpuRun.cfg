SPECIFICATION Spec
CONSTANTS
  NoModule = NoModule
  BenchIters = 1
  Fns <- MCFns
  Modules <- MCModules
  Program <- MCProgram
INVARIANTS
  NoLeak
  TrueIsEarned
  HonestTimings
  InFlightIsBacked
PROPERTIES
  TimedWhenIdle
  Terminates
CHECK_DEADLOCK FALSE
