SPECIFICATION FairSpec
CONSTANTS
  Bo = {b1, b2}
  Large = {}
  Oversize = {}
  MaxReq = 2
  MaxRef = 2
  MaxExec = 2
  HasLLC = TRUE
  OrderedReads = TRUE
  Undo = FALSE
  Kinds = {}
PROPERTIES
  Reclaimed
