SPECIFICATION BaselineSpec
CONSTANTS
  Nothing = Nothing
  Agents = {a1, a2}
  Algos = {m1, m2}
  OtherSeeds = {s1}
  MaxPresses = 2
  MaxExpiries = 1
  MaxConfigs = 1
SYMMETRY AgentSymmetry
INVARIANTS PullsAreAsked
PROPERTIES ScoreIsKept
