CONSTANTS
  None = None
  FrameModulus = 16
  FrameInterval = 0
  QualityDelay = 1
  GameMaxDepth = 1
  QualityMaxLate = 1
  GapWait = 1
  WaitMaxDepth = 1
  FirstNumber = 14
  MaxFrames = 4
  MaxTime = 3
SPECIFICATION FairSpec
INVARIANTS QueueInStreamOrder ReadyToPlay FramesAccountedFor
PROPERTIES DeltaFollowsItsReference GapEnds
CHECK_DEADLOCK FALSE
