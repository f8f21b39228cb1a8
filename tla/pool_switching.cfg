SPECIFICATION FairSpec
CONSTANTS
  NoScore = NoScore
  NoBest = NoBest
  Agents = {a1}
  Loyal <- LoyalKeys
  Challenges = {c1, c2}
  MaxTrajectories = 2
  Scores <- PoolableScores
  StagnationLimit = 1
  NegativeLimit = 0
  MaxWaiting = 2
  MaxSeeds = 0
  MaxEras = 0
PROPERTIES ResetNeedsPublish SilentReleased StagnationResolved
