CONSTANTS
  None = None
  FrameModulus = 9
  FirstNumber = 8
  MaxFragments = 2
  MaxFrames = 2
  MaxTime = 4
  MaxNacks = 1
  Rtts = {1, 2}
  NackFloor = 1
  DecodeMargin = 0
  RepairWindow = 3
  MaxAge = 1
  RtxMaxAge = 1
  RetainFor = 2
SPECIFICATION FairSpec
PROPERTIES DeliversFrames RepairGoesOn RepairEnds
CHECK_DEADLOCK FALSE
