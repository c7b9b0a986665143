\* A listing replaces the adapters while a request is validated.
SPECIFICATION SafeSpec
CONSTANTS
  a1 = a1
  a2 = a2
  d1 = d1
  d2 = d2
  Adapters <- MCAdapters
  Addresses <- MCAddresses
  Requests <- RefusalRequests
  Answers <- PlainAnswers
  MaxRequests = 2
  Window = 2
  IdMod = 4
  NyxAsync = FALSE
  NyxLossy = FALSE
  RacyMap = FALSE
INVARIANTS
  RefusedAdapterIsAbsent
\* The service rests when its clients have sent what they may.
CHECK_DEADLOCK FALSE
