SPECIFICATION FairSpec
CONSTANTS
  Senders = {s1, s2}
  Pins = {p1, p2}
  PairingMaxFailures = 2
  PairingWindow = 1
  PairingLockout = 1
  MaxTime = 2
  MaxAttempts = 3
  MaxFaults = 1
INVARIANT ProvenBeforeStored
PROPERTIES PairingsSurvive AcceptsAgain
CHECK_DEADLOCK FALSE
