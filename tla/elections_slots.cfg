SPECIFICATION Spec
CONSTANTS
  Accounts = {1, 2, 3}
  Blocks = {1, 2, 3, 4, 5, 6}
  Block <- Crowd
  Reps = {"r1"}
  Honest = {}
  Ballots <- CrowdBallots
  WeightTables <- CrowdWeights
  OnlineSets <- CrowdOnline
  CONFIRM_WEIGHT_PERCENTAGE = 80
  FORK_ELECTION_ROUNDS_THRESHOLD = 2
  CUTOFF_ROUNDS = 1
  FORK_CONCURRENCY = 1
  concurrency_ = 1
  MIN_CONFIRM_INTERVAL = 2
  MAX_TIMESTAMP_DIFF = 10
  ForkTimeDiff = 2
  TimeDiffNoFork = 1
  NoBlock = 0
  MaxNow = 0
  MaxRounds = 2
  MaxAdds = 3
INVARIANTS
  SlotsSound
PROPERTIES
  UncontestedEnds
  SteadyVerdict
CHECK_DEADLOCK FALSE
