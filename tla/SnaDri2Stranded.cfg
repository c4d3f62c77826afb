CONSTANTS
  c1 = c1
  w1 = w1
  Clients = {c1}
  Windows = {w1}
  Full = w1
  None = None
  Draws <- Own
  Events = 3
  Modes = {"async", "late", "next", "future"}
  Worlds <- StrandWorlds
  TripleBuffer = TRUE
SPECIFICATION Spec
INVARIANT BlitHeadQueued
CHECK_DEADLOCK FALSE
