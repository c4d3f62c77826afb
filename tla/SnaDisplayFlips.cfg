CONSTANTS
 num_real_crtc = 2
 b1 = b1
 b2 = b2
 b3 = b3
 b4 = b4
 b5 = b5
 b6 = b6
 b7 = b7
 Bo = {b1, b2, b3, b4, b5, b6, b7}
 None = None
 Vblanks = {11}
 Worlds <- FlipsWorlds
SPECIFICATION FairSpec
INVARIANTS TypeOK FlipsCounted CrtcShown DrawnHidden FlipOwned
PROPERTIES Completes Updated
CHECK_DEADLOCK FALSE
