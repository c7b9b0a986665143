\* nyx answers later and in any order, and accesses of m_clients may race.
SPECIFICATION SafeSpec
CONSTANTS
  a1 = a1
  a2 = a2
  d1 = d1
  d2 = d2
  Adapters <- MCAdapters
  Addresses <- MCAddresses
  Requests <- AsyncRequests
  Answers <- PairAnswers
  MaxRequests = 3
  Window = 3
  IdMod = 4
  NyxAsync = TRUE
  NyxLossy = FALSE
  RacyMap = TRUE
INVARIANTS
  FrontDefined
  CastSafe
  AtMostOneReply
  DestinationsKnown
PROPERTIES
  LossNeedsOverlap
\* The service rests when its clients have sent what they may.
CHECK_DEADLOCK FALSE
