\* Two signals at any moment, and two calls.
SPECIFICATION Spec
CONSTANTS
  MaxSignals = 2
  MaxCalls = 2
INVARIANTS
  InVainOnlyEarly
  ReleasedLoopNeedsTwoSignals
  FailedStartLeavesNothing
PROPERTIES
  SignalEndsService
\* The process ends.
CHECK_DEADLOCK FALSE
