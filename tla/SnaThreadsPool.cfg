SPECIFICATION FairSpec
CONSTANT N = 3
INVARIANTS
  PoolReady
  SignalEnough
PROPERTIES
  Implements
  Returns
