SPECIFICATION FleetFairSpec
CONSTANTS
  Agents = {a1, a2}
INVARIANTS FleetIsEnrolled
PROPERTIES LessonsKept StopWins HotReloadArrives GoneMeansQuiet
