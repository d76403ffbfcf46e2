CONSTANTS
  None = None
  Stations = {m1}
  MaxOut = 4
  MaxFrames = 1
SPECIFICATION FairSpec
INVARIANTS ScreenHasOneCast PinOnScreenIsArmed ScreenIsExclusive
PROPERTY SinkIsReadyAgain
CHECK_DEADLOCK FALSE
