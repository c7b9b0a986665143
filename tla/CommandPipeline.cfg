\* One command of every kind, from its validation to its reply.
SPECIFICATION Spec
CONSTANTS
  Commands <- MCCommands
  Names <- MCNames
  Values <- MCValues
  Responses <- MCResponses
INVARIANTS
  AcceptedIsAnswered
  FrontArgDefined
  AsksWhatWasRequested
  ParamsBounded
  PayloadWasAsked
\* A command that is refused or replied to is done.
CHECK_DEADLOCK FALSE
