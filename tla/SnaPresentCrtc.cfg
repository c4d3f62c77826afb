SPECIFICATION FairSpec
CONSTANTS
  Events = 2
  Infos = 2
  MaxMsc = 3
  CanFlip = TRUE
INVARIANTS
  TypeOK
  
  HeadQueued
  CountKept
PROPERTIES
  Implements
  
CHECK_DEADLOCK FALSE
