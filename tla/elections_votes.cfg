SPECIFICATION Spec
CONSTANTS
  Accounts = {1}
  Blocks = {1, 2}
  Block <- Contest
  Reps = {"r1", "r2", "r3"}
  Honest = {"r1", "r2"}
  Ballots <- ContestBallots
  WeightTables <- ContestWeights
  OnlineSets <- ContestOnline
  CONFIRM_WEIGHT_PERCENTAGE = 80
  FORK_ELECTION_ROUNDS_THRESHOLD = 2
  CUTOFF_ROUNDS = 2
  FORK_CONCURRENCY = 1
  concurrency_ = 1
  MIN_CONFIRM_INTERVAL = 2
  MAX_TIMESTAMP_DIFF = 10
  ForkTimeDiff = 2
  TimeDiffNoFork = 1
  NoBlock = 0
  MaxNow = 4
  MaxRounds = 3
  MaxAdds = 1
INVARIANTS
  VotedBlocksKept
  ExcludedWithProof
PROPERTIES
  ExclusionLasts
CHECK_DEADLOCK FALSE
