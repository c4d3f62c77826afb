SPECIFICATION Spec
CONSTANTS
  Bo = {b1, b2}
  Large = {b2}
  Oversize = {b2}
  MaxReq = 2
  MaxRef = 1
  MaxExec = 2
  HasLLC = FALSE
  OrderedReads = TRUE
  Undo = TRUE
  Kinds = {"scanout", "snoop", "pressure"}
SYMMETRY Symmetry
INVARIANTS
  CachesSound
