\* The queue as the service uses it, and its destructor running at any moment
\* or never.
SPECIFICATION Spec
CONSTANTS
  Messages = {m1, m2, m3}
  Producers = {p1, p2}
  Worker = worker
  NoThread = none
  Destroys = TRUE
INVARIANTS
  NoLostWakeup
  NeverRelocks
PROPERTIES
  DestructorReturns
  ImplementsChannel
\* With every message handled, or the queue destroyed, nothing is left to do.
CHECK_DEADLOCK FALSE
