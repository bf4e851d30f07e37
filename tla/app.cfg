SPECIFICATION Spec
CONSTANTS
  aa = aa
  bb = bb
  a0 = a0
  x0 = x0
  a1 = a1
  b0 = b0
  NoBlock = NoBlock
  Accounts = {aa, bb}
  Blocks <- MCBlocks
  AccountOf <- MCAccountOf
  Height <- MCHeight
  Previous <- MCPrevious
  Strict = {b0}
  Needs <- MCNeeds
  Established <- MCEstablished
  MaxRollbacks = 1
  MaxFaults = 1
  MaxActions = 1
  MaxNotifications = 1
PROPERTIES
  ConfirmedFollows
  CatchesUp
CHECK_DEADLOCK FALSE
