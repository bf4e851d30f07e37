SPECIFICATION QueriesSpec
CONSTANTS
  Queries = {1}
  Peers = {"pruned", "lacking", "holder"}
  FullNodes = {"holder"}
  Runner = "runner"
  Network = {"net1", "net2"}
  Reply <- Answers
  None = "none"
  MaxCount = 1
PROPERTIES
  NeverLost
  EveryQueryAnswered
CHECK_DEADLOCK FALSE
