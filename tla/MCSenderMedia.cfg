SPECIFICATION FairSpec
CONSTANTS
  MinBitrate = 4
  CutGuard = 1
  CleanRaise = 1
  FloorStepDown = 1
  CleanStepUp = 1
  QueueStepDown = 1
  MaxStepUpWait = 4
  Native <- MCNative
  Caps <- MCCaps
  MaxBitrates = {20}
  Reports <- MCReports
  Gaps = {1}
  Encoders = {"mf", "sw"}
  VideoQueue = 1
  AudioQueue = 1
  Budgets <- MCBudgets
INVARIANT SettingsAgree
PROPERTIES SentStreamDecodes StepUpIsEarned EndsTogether
CHECK_DEADLOCK FALSE
