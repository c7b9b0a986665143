\* A setting that nyx fails.
SPECIFICATION Spec
CONSTANTS
  Commands <- MCCommands
  Names <- MCNames
  Values <- MCValues
  Responses <- MCResponses
INVARIANTS
  FailureReported
\* A command that is refused or replied to is done.
CHECK_DEADLOCK FALSE
