CONSTANTS
  None = None
  M2Grace = 1
  KeepaliveEvery = 1
  KeepaliveTimeout = 2
  MediaSilence = 1
  IdrMinInterval = 1
  MinKbps = 1000
  MaxStalls = 1
  Casts <- MCCasts
SPECIFICATION FairSpec
INVARIANTS PlayIsSettled HealthySessionLives SelectionSuitsBoth
PROPERTY DeadLinkIsNoticed
CHECK_DEADLOCK FALSE
