CONSTANTS
  G = G  A = A  R = R
  g0 = g0  g1 = g1  g1x = g1x  g2 = g2  a0 = a0  a0x = a0x  a1 = a1  r0 = r0
  c1 = c1  c2 = c2  c3 = c3  x1 = x1  x2 = x2  x3 = x3
  Accounts = {G, A, R}
  Blocks <- Ids
  Block <- World
  Genesis = g0
  NoBlock = NoBlock
  NoInfo = NoInfo
  Prices <- PriceTable
  MinPrice = 1
  Quarter = 8
  Day = 4
  RewardRate = 1
  EpochTimestamp = 8
  MAX_TIMESTAMP_DIFF = 3
  Clocks = {9, 16}
  ClockSteps <- Forwards
  TRANSACTIONS_PER_CREDIT = 2
  BASE_ALLOWED_BINDINGS = 1
  EXTRA_BINDINGS_PER_CREDIT = 0
  MAX_BLOCKS = 1
  MAX_BLOCKS_FORK = 1
  MAX_CACHES = 2
  MAX_CACHES_PER_ACCOUNT = 1
  BaseAllowedForks = 0
  EXTRA_FORKS_PER_CREDIT = 0
  Priority <- Ranks
  Published = {g1x, a0x, r0}
  ForkMessages = {}
  Canonical <- Agreed
  Elected = {g1, a1}
  MaxForced = 2
  MaxCrashes = 1
SPECIFICATION Spec
VIEW WithoutArchive
INVARIANTS
  OneAnswerPerWait
PROPERTIES
  OnlyTaintedRolledBack
  OnlyRewardsOrDatesFail
  LedgerImplemented
