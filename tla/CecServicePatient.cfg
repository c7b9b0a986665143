\* nyx answers later, or forgets a command; a request is sent when the one
\* before is settled, or its client has given up, and names an adapter.
SPECIFICATION Spec
CONSTANTS
  a1 = a1
  a2 = a2
  d1 = d1
  d2 = d2
  Adapters <- MCAdapters
  Addresses <- MCAddresses
  Requests <- PatientRequests
  Answers <- EmptyOrPlainAnswers
  MaxRequests = 3
  Window = 1
  IdMod = 4
  NyxAsync = TRUE
  NyxLossy = TRUE
  RacyMap = FALSE
INVARIANTS
  OneClientPerAnswer
  AnswersGoBack
PROPERTIES
  OnlyForgettingLoses
  DispatchGoesOn
  EveryRequestAnswered
\* The service rests when its clients have sent what they may.
CHECK_DEADLOCK FALSE
