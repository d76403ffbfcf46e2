CONSTANTS
  None = None
  OutputBuffers = 3
  MaxInFlight = 2
  CaptureBuffers = 2
  StallInputs = 2
  StallTime = 1
  MaxWait = 2
  Choices = {"V4l2", "Sw"}
  DrainRounds = 1
  ErrorLimit = 2
  DefaultFormat = 0
  Formats = {1, 2}
  MaxFrames = 3
  MaxFaults = 1
SPECIFICATION FairSpec
INVARIANT BuffersHaveOneOwner
PROPERTIES PicturesInOrder DecodeReturns
CHECK_DEADLOCK FALSE
