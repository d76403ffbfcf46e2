CONSTANTS
  None = None
  ChannelSize = 2
  TargetGame = 1
  TargetQuality = 2
  LagLimit = 2
  MaxConceal = 2
  MaxGap = 4
  Lost = {0, 1, 3}
  Delays = {0, 1}
  Jumps <- MCJumps
  MaxCasts = 1
  MaxFrames = 2
  MaxBuffered = 10
  MaxAge = 12
SPECIFICATION FairSpec
INVARIANT EveryPictureIsShown
PROPERTY PicturesComeDue
CHECK_DEADLOCK FALSE
