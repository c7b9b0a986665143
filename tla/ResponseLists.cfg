\* The dispatch thread and nyx's thread handle answers at the same time.
SPECIFICATION Spec
CONSTANTS
  Threads = {worker, nyx}
  Values <- MCValues
  Scans <- ScanAnswers
  Listings <- ListingAnswers
  MaxAnswers = 2
INVARIANTS
  ScanReplyFaithful
  ListedIsAccepted
  ScannedIsKnown
  AdaptersOfLastListing
PROPERTIES
  CallbackEnds
  ImplementsTable
\* The service rests when the last answer has been handled.
CHECK_DEADLOCK FALSE
