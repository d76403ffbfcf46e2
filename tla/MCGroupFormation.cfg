SPECIFICATION GroupFairSpec
CONSTANTS
  Nothing = Nothing
  s1 = s1
  s2 = s2
  Sources = {s1, s2}
  WalkTime = 4
  Rearm = 2
  Budgets <- MCBudgets
INVARIANTS PairedSourcesReturn SinkKnowsItsGroup
PROPERTY SinkComesBack
CHECK_DEADLOCK FALSE
