\* nyx answers synchronously; a client need not wait for the other's reply,
\* and ids are given again as soon as that is possible at all.
SPECIFICATION Spec
CONSTANTS
  a1 = a1
  a2 = a2
  d1 = d1
  d2 = d2
  Adapters <- MCAdapters
  Addresses <- MCAddresses
  Requests <- LineRequests
  Answers <- RichAnswers
  MaxRequests = 3
  Window = 2
  IdMod = 2
  NyxAsync = FALSE
  NyxLossy = FALSE
  RacyMap = FALSE
INVARIANTS
  InOrder
PROPERTIES
  ImplementsLine
\* The service rests when its clients have sent what they may.
CHECK_DEADLOCK FALSE
