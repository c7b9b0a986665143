\* Three requests; the dispatch thread and nyx's thread run callbacks.
SPECIFICATION Spec
CONSTANTS
  Messages = {m1, m2, m3}
  Callers = {worker, nyx}
SYMMETRY Symmetry
INVARIANTS
  AliveWhenUsed
  ReferencesBalance
\* Clients need not send.
CHECK_DEADLOCK FALSE
