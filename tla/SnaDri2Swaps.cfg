CONSTANTS
  c1 = c1
  w1 = w1
  Clients = {c1}
  Windows = {w1}
  Full = w1
  None = None
  Draws <- Own
  Events = 4
  Modes = {"async", "late", "next", "future"}
  Worlds <- SwapWorlds
  TripleBuffer = TRUE
SPECIFICATION FairSpec
INVARIANTS TypeOK SwapsCounted KernelKnows FlipAhead NoOrphanChain NoneStranded
PROPERTY Unblocks
CHECK_DEADLOCK FALSE
