SPECIFICATION HelperSpec
CONSTANTS
  mm = mm  ww = ww  tt = tt
  Parties = {mm, ww, tt}
  Swaps <- TwoSwaps
  Heads <- StartHeads
  MaxHeight <- HeightBounds
  NoDeal = NoDeal
  MaxRestarts = 1
INVARIANT NacksKept
PROPERTY NackedTakesSettle
CHECK_DEADLOCK FALSE
