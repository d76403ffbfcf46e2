SPECIFICATION FairSpec
CONSTANTS
  None = None
  Castr = Castr
  Runs = {1, 2}
  Users = {user1, user2}
  Ports = {1, 2}
  Pairings = {pair1, pair2}
  Checks = {1, 2, 3}
  CmdSlots = 2
  Budgets <- MCBudgets
PROPERTIES StopReachesItsCast StopIsObeyed StalePairingHeals WindowRecovers
CHECK_DEADLOCK FALSE
