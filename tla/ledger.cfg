SPECIFICATION Spec
CONSTANTS
  a1 = a1
  a2 = a2
  w = w
  x = x
  y = y
  Agents = {a1, a2}
  Frontier = {a1}
  Programs = {w, x, y}
  ScoreOf <- ScoresOfThree
  Simple = {w, x, y}
  Likeness <- Alike
  Threshold = 1
  PoolSize = 2
  Tags = {t1}
  NoBest = NoBest
  MaxPublishes = 3
  MaxResets = 1
  MaxInFlight = 2
  MaxDeposits = 2
  MaxTime = 2
INVARIANTS HistoryAgrees PersonalBests HarvestsDiffer
CHECK_DEADLOCK FALSE
