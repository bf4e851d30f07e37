SPECIFICATION Spec
CONSTANTS
  a1 = a1  a2 = a2  a3 = a3  x1 = x1  c1 = c1  c2 = c2
  Accounts = {a1, a2, a3}
  ExternalTokens = {}
  Chains = {}
  ChainOf <- NoChains
  TokenIds = {1, 2}
  VALUES = 4
  NoInfo = NoInfo
  OrderLimit = 2
  Ops <- SwapOps
  Sources = {}
  MaxHeight <- SwapHeights
  Values = {1}
  Creations = {}
  Offers <- SwapOffers
  AckHeights = {0, 1}
  TradeHeights = {4}
  Genesis <- Funded
INVARIANTS SupplyConserved SettledInTime NeverInconsistent
PROPERTY SwapLifeImplemented
CHECK_DEADLOCK FALSE
