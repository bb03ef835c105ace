SPECIFICATION ListenSpec
CONSTANTS
  n1 = n1
  n2 = n2
  n3 = n3
  n4 = n4
  Node <- FourNodes
  Dist <- Tie
  Infinity = 9
  K = 2
  Listed <- AnyLists
  Token <- TwoTokens
  Value <- OneValue
  None = None
  Bootstrap <- NearAndFar
INVARIANTS SilentNodeTolerated
CHECK_DEADLOCK FALSE
