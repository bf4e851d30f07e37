SPECIFICATION Spec
CONSTANTS
  aa = aa  bb = bb  a0 = a0  a1 = a1  x1 = x1  b0 = b0
  NoBlock = NoBlock  NoSync = NoSync
  Accounts = {aa, bb}
  Blocks <- MCBlocks
  AccountOf <- MCAccountOf
  Height <- MCHeight
  Previous <- MCPrevious
  Source <- MCSource
  Needs <- MCNeeds
  SendsTo <- MCSendsTo
  Rewards <- MCRewards
  Canonical <- MCCanonical
  Start <- MCStart
  Published = {x1, a1, b0}
  INITIAL_FULL_BOOTSTRAPS = 2
  MissLimit = 2
  MaxFaults = 1
  MaxPending = 2
INVARIANTS SyncsServed BatchStaysOpen
PROPERTY EventuallySynced
