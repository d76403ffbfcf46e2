CONSTANTS
  None = None
  Senders = {a, p}
  Probers = {p}
  Mode = {Game, Quality}
  TokenTtl = 2
  ConnectFor = 0
  ReconnectFor = 1
  MaxCasts = 1
  MaxRestarts = 1
  MaxLosses = 2
  MaxQueue = 2
  MaxTime = 3
SPECIFICATION FairSpec
INVARIANT ModesAgree
PROPERTIES ResumedByItsSender CastSettles
CHECK_DEADLOCK FALSE
