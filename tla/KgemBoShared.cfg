SPECIFICATION Spec
CONSTANTS
  Bo = {b1, b2}
  Large = {}
  Oversize = {}
  MaxReq = 2
  MaxRef = 1
  MaxExec = 2
  HasLLC = TRUE
  OrderedReads = TRUE
  Undo = TRUE
  Kinds = {"foreign", "active"}
SYMMETRY Symmetry
INVARIANTS
  CachedPrivate
  
