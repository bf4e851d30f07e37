SPECIFICATION VotingSpec
CONSTANTS
  Positions = {p}
  Hashes = {h1, h2}
  Voters = {t1, t2}
  NoConfirm = NoConfirm
  NoCall = NoCall
  MIN_CONFIRM_INTERVAL = 3
  MaxLag = 1
  Start = 0
  MaxNow = 9
SYMMETRY Symmetry
INVARIANTS
  TypeOK
  NoConflict
CHECK_DEADLOCK FALSE
