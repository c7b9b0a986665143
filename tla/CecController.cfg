\* The bus thread may see the flag before the handlers, or all of them.
SPECIFICATION Spec
CONSTANTS
  Handlers = {lgtv, other1, other2, default}
  Commands = {scan, send, config}
  lgtv = lgtv
  other1 = other1
  other2 = other2
  scan = scan
  send = send
  config = config
  Default = default
  NoHandler = nobody
  Rank <- MCRank
  Takes <- MCTakes
  WeakMemory = TRUE
INVARIANTS
  DefaultIsLast
  FutureGotOnce
  TakenByFirst
PROPERTIES
  EveryCommandTaken
\* The controller rests when every command has been sent.
CHECK_DEADLOCK FALSE
