SPECIFICATION Spec
CONSTANTS
  a1 = a1  a2 = a2  a3 = a3  x1 = x1  c1 = c1  c2 = c2
  Accounts = {a1, a2}
  ExternalTokens = {x1}
  Chains = {c1, c2}
  ChainOf <- ChainsOfTokens
  TokenIds = {1}
  VALUES = 4
  NoInfo = NoInfo
  OrderLimit = 2
  Ops <- SupplyOps
  Sources = {"CHAIN", "NATIVE"}
  MaxHeight <- SupplyHeights
  Values = {1}
  Creations <- SupplyCreations
  Offers = {}
  AckHeights = {}
  TradeHeights = {}
  Genesis <- Zero
INVARIANTS SupplyConserved IdInOnePlace HoldersExact
CHECK_DEADLOCK FALSE
