CONSTANTS
  G = G  A = A  R = R  D = D
  g0 = g0  g1 = g1  g1x = g1x  g1y = g1y  g1z = g1z  g2 = g2  g3 = g3
  a0 = a0  a0x = a0x  a1 = a1  a1x = a1x  a2 = a2
  r0 = r0  r1 = r1  r2 = r2  r3 = r3  b1 = b1  b2 = b2
  d0 = d0  d1 = d1  d1x = d1x  d2 = d2
  Accounts = {G, A, R, D}
  Blocks <- WorldIds
  Block <- WorldBlocks
  Genesis = g0
  NoBlock = NoBlock
  NoInfo = NoInfo
  Prices <- PriceTable
  MinPrice = 1
  Quarter = 8
  Day = 4
  RewardRate = 1
  EpochTimestamp = 8
  MAX_TIMESTAMP_DIFF = 3
  Clocks = {12, 20}
  TRANSACTIONS_PER_CREDIT = 2
  BASE_ALLOWED_BINDINGS = 1
  EXTRA_BINDINGS_PER_CREDIT = 0
SPECIFICATION Spec
VIEW WithoutArchive
INVARIANTS
  TypeOK
  ChainIntact
  WeightsExact
  ValueConserved
  ReceivedOnce
  RewardedOnce
  RollbackUndoesAppend
  RollbackWellFounded
  BindingsExact
