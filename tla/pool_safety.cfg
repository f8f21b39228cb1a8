SPECIFICATION Spec
CONSTANTS
  NoScore = NoScore
  NoBest = NoBest
  Agents = {a1, a2}
  Loyal = {}
  Challenges = {c1}
  MaxTrajectories = 2
  Scores <- SignedScores
  StagnationLimit = 1
  NegativeLimit = 2
  MaxWaiting = 1
  MaxSeeds = 1
  MaxEras = 1
SYMMETRY AgentSymmetry
INVARIANTS OneCustodian FloorIsPeak WorkIsBanked
PROPERTIES FloorNeverDrops
