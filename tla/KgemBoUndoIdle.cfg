SPECIFICATION Spec
CONSTANTS
  Bo = {b1, b2, b3}
  Large = {}
  Oversize = {}
  MaxReq = 2
  MaxRef = 1
  MaxExec = 2
  HasLLC = TRUE
  OrderedReads = TRUE
  Undo = TRUE
  Kinds = {}
SYMMETRY Symmetry
INVARIANTS
  InactiveIdle
