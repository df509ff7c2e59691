CONSTANTS
  u1 = u1
  n1 = n1
  m1 = m1
  Users = {u1}
  WindowMs <- MCWindowMs
  MaxPerWindow <- MCMaxPerWindow
  MaxPerEpoch <- MCMaxPerEpoch
  MaxTime <- MCMaxTime
  Nodes = {n1}
  Nonces <- MCNonces
  MaxPerNode <- MCMaxPerNode
  Markets = {m1}
  Prices <- MCPrices
  DecMax <- MCDecMax
  MaxDeviation <- MCDeviation
SPECIFICATION Spec
INVARIANTS
  TypeOK
  WindowLimit
  NoReplayWithinEpoch
PROPERTY CheckMatchesSpec
